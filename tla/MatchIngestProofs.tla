-------------------------- MODULE MatchIngestProofs --------------------------
(* Theorems about MatchIngest, for every choice of players, slots, legs   *)
(* and reports, and about MatchDelivery: collector and server together,   *)
(* for every course of a match, any number of states and failures.        *)
EXTENDS MatchDelivery, FiniteSetTheorems, WellFoundedInduction, TLAPS

USE ConstantsAssumption, AbsenceAssumption

-----------------------------------------------------------------------------
(* match_legs is finite, so counting its rows yields a number *)

LEMMA LegRowFinite == IsFiniteSet(LegRow)
<1> DEFINE key == [row \in LegRow |-> <<<<row.leg, row.player>>, row.won>>]
           T == (LegIds \X Players) \X BOOLEAN
<1>1. IsFiniteSet(BOOLEAN)
  <2>1. IsFiniteSet({TRUE})
    BY FS_Singleton
  <2>2. IsFiniteSet({TRUE} \cup {FALSE})
    BY <2>1, FS_AddElement
  <2>3. BOOLEAN = {TRUE} \cup {FALSE}
    OBVIOUS
  <2> QED BY <2>2, <2>3
<1>2. IsFiniteSet(T)
  BY <1>1, FS_Product
<1>3. key \in [LegRow -> T]
  BY DEF LegRow
<1>4. ASSUME NEW x \in LegRow, NEW y \in LegRow, key[x] = key[y]
      PROVE  x = y
  BY <1>4 DEF LegRow
<1>5. key \in Injection(LegRow, T)
  BY <1>3, <1>4 DEF Injection, IsInjective
<1> QED BY <1>2, <1>5, FS_Injection

LEMMA LegsPlayedType ==
  ASSUME NEW rows \in SUBSET LegRow, NEW p
  PROVE  LegsPlayed(rows, p) \in Nat
<1>1. {row \in rows : row.player = p} \in SUBSET LegRow
  OBVIOUS
<1>2. IsFiniteSet({row \in rows : row.player = p})
  BY <1>1, LegRowFinite, FS_Subset
<1> QED BY <1>2, FS_CardinalityType DEF LegsPlayed

LEMMA ApplyLegStateType ==
  ASSUME NEW rows \in SUBSET LegRow, NEW l, NEW r
  PROVE  /\ LegRows(l, r) \subseteq LegRow
         /\ ApplyLegState(rows, l, r) \subseteq LegRow
BY DEF ApplyLegState, LegRows

LEMMA ApplyMatchStateType ==
  ASSUME NEW table \in [Players -> PlayerRow \cup {None}],
         NEW rows \in SUBSET LegRow, NEW r \in Reports
  PROVE  ApplyMatchState(table, rows, r) \in [Players -> PlayerRow \cup {None}]
<1> SUFFICES ASSUME NEW p \in Players
             PROVE  ApplyMatchState(table, rows, r)[p] \in PlayerRow \cup {None}
  BY DEF ApplyMatchState
<1>1. LegsPlayed(rows, p) \in Nat
  BY LegsPlayedType
<1>2. CASE \E s \in Slots : Books(s, p)
  <2> DEFINE s == CHOOSE s \in Slots : Books(s, p)
  <2>1. s \in Slots
    BY <1>2
  <2>2. r.finished \in BOOLEAN
    BY DEF Report
  <2>3. [index |-> s, won |-> r.finished /\ s = r.winner,
         legsPlayed |-> LegsPlayed(rows, p)] \in PlayerRow
    BY <1>1, <2>1, <2>2 DEF PlayerRow
  <2>4. ApplyMatchState(table, rows, r)[p] =
        [index |-> s, won |-> r.finished /\ s = r.winner,
         legsPlayed |-> LegsPlayed(rows, p)]
    BY <1>2 DEF ApplyMatchState
  <2> QED BY <2>3, <2>4
<1>3. CASE ~ \E s \in Slots : Books(s, p)
  <2>1. ApplyMatchState(table, rows, r)[p] =
          IF table[p] = None THEN None
          ELSE [table[p] EXCEPT !.legsPlayed = LegsPlayed(rows, p)]
    BY <1>3 DEF ApplyMatchState
  <2>2. CASE table[p] = None
    BY <2>1, <2>2
  <2>3. CASE table[p] # None
    <3>1. table[p] \in PlayerRow
      BY <2>3
    <3>2. [table[p] EXCEPT !.legsPlayed = LegsPlayed(rows, p)] \in PlayerRow
      BY <3>1, <1>1 DEF PlayerRow
    <3> QED BY <2>1, <2>3, <3>2
  <2> QED BY <2>2, <2>3
<1> QED BY <1>2, <1>3

-----------------------------------------------------------------------------
(* Type correctness *)

LEMMA StoreType ==
  ASSUME TypeOK, NEW r \in Reports,
         NEW snaps \in [LegIds -> Reports \cup {None}], NEW rows \in SUBSET LegRow,
         Store(r, snaps, rows), since' \subseteq {"late"} \cup AdminKinds
  PROVE  TypeOK'
<1> DEFINE booked == IF Ends(r) THEN ApplyLegState(rows, r.leg, r) ELSE rows
<1>1. booked \in SUBSET LegRow
  BY ApplyLegStateType
<1>2. players' \in [Players -> PlayerRow \cup {None}]
  BY <1>1, ApplyMatchStateType DEF Store, TypeOK
<1>3. r.leg \in LegIds /\ r.finished \in BOOLEAN
  BY DEF Report
<1>4. match' \in MatchRow
  BY <1>3 DEF Store, MatchRow
<1>5. snapshots' \in [LegIds -> Reports \cup {None}]
  BY <1>3 DEF Store
<1>6. waiting' \subseteq Slots
  BY DEF Store, TypeOK, WaitingSlots
<1> QED BY <1>1, <1>2, <1>4, <1>5, <1>6 DEF Store, TypeOK, identity

LEMMA ArchiveType ==
  ASSUME TypeOK, match # None
  PROVE  /\ [snapshots EXCEPT ![match.leg] = match.raw] \in [LegIds -> Reports \cup {None}]
         /\ ApplyLegState(legs, match.leg, match.raw) \in SUBSET LegRow
<1>1. match \in MatchRow
  BY DEF TypeOK
<1>2. match.leg \in LegIds /\ match.raw \in Reports
  BY <1>1 DEF MatchRow
<1> QED BY <1>2, ApplyLegStateType DEF TypeOK

LEMMA HandleEventType ==
  ASSUME TypeOK, NEW r \in Reports, HandleEvent(r)
  PROVE  TypeOK'
<1>1. CASE FirstState(r)
  BY <1>1, StoreType DEF FirstState, TypeOK
<1>2. CASE StaleState(r)
  BY <1>2 DEF StaleState, vars, tables, identity, TypeOK
<1>3. CASE SameLegState(r)
  BY <1>3, StoreType DEF SameLegState, TypeOK
<1>4. CASE NextLegState(r)
  <2>1. CASE match.finished
    BY <1>4, <2>1, StoreType DEF NextLegState, TypeOK
  <2>2. CASE ~match.finished
    <3>1. since' \subseteq {"late"} \cup AdminKinds
      BY <1>4 DEF NextLegState, TypeOK
    <3> QED BY <1>4, <2>2, <3>1, StoreType, ArchiveType DEF NextLegState
  <2> QED BY <2>1, <2>2
<1> QED BY <1>1, <1>2, <1>3, <1>4 DEF HandleEvent

LEMMA SnapshotLegsType == SnapshotLegs \in SUBSET LegRow
BY DEF SnapshotLegs, LegRows

LEMMA ReprocessType ==
  ASSUME TypeOK, Reprocess
  PROVE  TypeOK'
<1>1. match \in MatchRow /\ match.raw \in Reports
  BY DEF Reprocess, TypeOK, MatchRow
<1>2. match.raw.leg \in LegIds /\ match.raw.finished \in BOOLEAN
  BY <1>1 DEF Report
<1>3. match' \in MatchRow
  BY <1>1, <1>2 DEF Reprocess, MatchRow
<1>4. [p \in Players |-> None] \in [Players -> PlayerRow \cup {None}]
  OBVIOUS
<1>5. players' \in [Players -> PlayerRow \cup {None}]
  BY <1>1, <1>4, SnapshotLegsType, ApplyMatchStateType DEF Reprocess
<1>6. waiting' \subseteq Slots
  BY DEF Reprocess, WaitingSlots
<1> QED BY <1>3, <1>5, <1>6, SnapshotLegsType DEF Reprocess, TypeOK, identity

LEMMA AdministerType ==
  ASSUME TypeOK, Administer
  PROVE  TypeOK'
<1>1. ASSUME NEW s \in Slots, NEW x \in Players \cup {Ignored}, Assign(s, x)
      PROVE  TypeOK'
  BY <1>1 DEF Assign, TypeOK, AdminKinds
<1>2. ASSUME NEW p \in Players, NEW on \in BOOLEAN, Protect(p, on)
      PROVE  TypeOK'
  BY <1>2 DEF Protect, TypeOK, tables, AdminKinds
<1>3. ASSUME NEW s \in Slots, NEW p \in Players, MoveAlias(s, p)
      PROVE  TypeOK'
  BY <1>3 DEF MoveAlias, TypeOK, tables, AdminKinds
<1>4. ASSUME NEW a \in Players, NEW b \in Players, Merge(a, b)
      PROVE  TypeOK'
  <2> DEFINE moved(x) == IF x = a THEN b ELSE x
             kept == {row \in legs : \/ row.player # a
                                     \/ ~\E o \in legs : o.player = b /\ o.leg = row.leg}
  <2>1. ASSUME NEW row \in LegRow
        PROVE  [leg |-> row.leg, player |-> moved(row.player), won |-> row.won] \in LegRow
    BY DEF LegRow
  <2>2. legs' = {[leg |-> row.leg, player |-> moved(row.player), won |-> row.won] : row \in kept}
    BY <1>4 DEF Merge
  <2>3. kept \subseteq LegRow
    BY DEF TypeOK
  <2>4. legs' \subseteq LegRow
    BY <2>1, <2>2, <2>3
  <2>5. players' \in [Players -> PlayerRow \cup {None}]
    BY <1>4 DEF Merge, TypeOK
  <2>6. claim' \in [Slots -> Players \cup {Bot}] /\ override' \in [Slots -> Players \cup {Ignored, None}]
    BY <1>4 DEF Merge, TypeOK
  <2> QED BY <1>4, <2>4, <2>5, <2>6 DEF Merge, TypeOK, AdminKinds
<1> QED BY <1>1, <1>2, <1>3, <1>4 DEF Administer

LEMMA InitType == Init => TypeOK
BY DEF Init, TypeOK

LEMMA NextType == TypeOK /\ [Next]_vars => TypeOK'
<1> SUFFICES ASSUME TypeOK, [Next]_vars
             PROVE  TypeOK'
  OBVIOUS
<1>1. CASE UNCHANGED vars
  BY <1>1 DEF vars, tables, identity, TypeOK
<1>2. CASE Next
  BY <1>2, HandleEventType, ReprocessType, AdministerType DEF Next
<1> QED BY <1>1, <1>2

\* The tables keep their column types under every interleaving of events,
\* rebuilds and administrative operations.
THEOREM TypeCorrect == Spec => []TypeOK
BY InitType, NextType, PTL DEF Spec

-----------------------------------------------------------------------------
(* Progress *)

\* The columns of table matches are the ones of the stored payload.
RowMirrorsRaw ==
  match # None => match.leg = match.raw.leg /\ match.finished = match.raw.finished

LEMMA MirrorsRawInductive == TypeOK /\ RowMirrorsRaw /\ [Next]_vars => RowMirrorsRaw'
<1> SUFFICES ASSUME RowMirrorsRaw, [Next]_vars
             PROVE  RowMirrorsRaw'
  OBVIOUS
<1>1. ASSUME NEW r, NEW snaps, NEW rows, Store(r, snaps, rows)
      PROVE  RowMirrorsRaw'
  BY <1>1 DEF Store, RowMirrorsRaw
<1>2. ASSUME NEW r \in Reports, HandleEvent(r)
      PROVE  RowMirrorsRaw'
  BY <1>1, <1>2 DEF HandleEvent, FirstState, StaleState, SameLegState, NextLegState,
                    RowMirrorsRaw, vars, tables
<1>3. CASE Reprocess
  BY <1>3 DEF Reprocess, RowMirrorsRaw
<1>4. CASE Administer
  BY <1>4 DEF Administer, Assign, Protect, MoveAlias, Merge, tables, RowMirrorsRaw
<1>5. CASE UNCHANGED vars
  BY <1>5 DEF vars, tables, RowMirrorsRaw
<1> QED BY <1>2, <1>3, <1>4, <1>5 DEF Next

LEMMA BeforeIrreflexive ==
  ASSUME NEW l \in LegIds
  PROVE  ~Before(l, l)
<1>1. l[1] \in Nat /\ l[2] \in Nat
  OBVIOUS
<1> QED BY <1>1 DEF Before

\* What a step may do to the stored row: either it replaces the payload by one that is
\* not stale, or leaves row and payload alone.
LEMMA StepOnRow ==
  ASSUME TypeOK, RowMirrorsRaw, match # None, [Next]_vars
  PROVE  /\ match' # None
         /\ \/ match'.leg = match.leg /\ match'.finished = match.finished /\ match'.raw = match.raw
            \/ \E r \in Reports : /\ ~IsStale(r)
                                  /\ match'.leg = r.leg /\ match'.finished = r.finished
                                  /\ match'.raw = r
<1>1. match \in MatchRow
  BY DEF TypeOK
<1>2. ASSUME NEW r \in Reports, NEW snaps, NEW rows, ~IsStale(r), Store(r, snaps, rows)
      PROVE  /\ match' # None
             /\ match'.leg = r.leg /\ match'.finished = r.finished /\ match'.raw = r
  <2>1. r.leg \in LegIds /\ r.finished \in BOOLEAN
    BY DEF Report
  <2>2. match' \in MatchRow
    BY <1>2, <2>1 DEF Store, MatchRow
  <2> QED BY <1>2, <2>2 DEF Store
<1>3. ASSUME NEW r \in Reports, HandleEvent(r)
      PROVE  \/ UNCHANGED match
             \/ /\ match' # None /\ ~IsStale(r)
                /\ match'.leg = r.leg /\ match'.finished = r.finished /\ match'.raw = r
  BY <1>2, <1>3 DEF HandleEvent, FirstState, StaleState, SameLegState, NextLegState, vars, tables
<1>4. CASE Reprocess
  <2>1. match' = match
    BY <1>1, <1>4 DEF Reprocess, RowMirrorsRaw, MatchRow
  <2> QED BY <2>1
<1>5. CASE Administer
  BY <1>5 DEF Administer, Assign, Protect, MoveAlias, Merge, tables
<1>6. CASE UNCHANGED vars
  BY <1>6 DEF vars, tables
<1> QED BY <1>3, <1>4, <1>5, <1>6 DEF Next

\* Out-of-order, duplicated and late states never move the stored set and leg back.
THEOREM ProgressNeverGoesBack == Spec => ProgressMonotone
<1>1. Init => RowMirrorsRaw
  BY DEF Init, RowMirrorsRaw
<1>2. ASSUME TypeOK, RowMirrorsRaw, [Next]_vars
      PROVE  [match # None => match' # None /\ ~Before(match'.leg, match.leg)]_vars
  <2> SUFFICES ASSUME match # None
               PROVE  match' # None /\ ~Before(match'.leg, match.leg)
    OBVIOUS
  <2>1. match.leg \in LegIds
    BY <1>2 DEF TypeOK, MatchRow
  <2> QED BY <1>2, <2>1, StepOnRow, BeforeIrreflexive DEF IsStale
<1> QED BY <1>1, <1>2, TypeCorrect, MirrorsRawInductive, PTL DEF Spec, ProgressMonotone

\* A match that ended stays ended, and a running state that is delivered then changes nothing.
THEOREM FinishedMatchSticks == Spec => FinishedSticks
<1>1. Init => RowMirrorsRaw
  BY DEF Init, RowMirrorsRaw
<1>2. ASSUME TypeOK, RowMirrorsRaw, [Next]_vars
      PROVE  [match # None /\ match.finished =>
                /\ match'.finished /\ (match'.raw # match.raw => match'.raw.finished)
                /\ \A r \in Reports : HandleEvent(r) /\ ~r.finished => UNCHANGED tables]_vars
  <2> SUFFICES ASSUME match # None, match.finished
               PROVE  /\ match'.finished /\ (match'.raw # match.raw => match'.raw.finished)
                      /\ \A r \in Reports : HandleEvent(r) /\ ~r.finished => UNCHANGED tables
    OBVIOUS
  <2>1. match'.finished /\ (match'.raw # match.raw => match'.raw.finished)
    BY <1>2, StepOnRow DEF IsStale
  <2>2. \A r \in Reports : HandleEvent(r) /\ ~r.finished => UNCHANGED tables
    BY DEF HandleEvent, FirstState, StaleState, SameLegState, NextLegState, IsStale, vars, tables
  <2> QED BY <2>1, <2>2
<1> QED BY <1>1, <1>2, TypeCorrect, MirrorsRawInductive, PTL DEF Spec, FinishedSticks

-----------------------------------------------------------------------------
(* match_legs and match_players *)

LEMMA ApplyMatchStateKeeps ==
  ASSUME NEW table, NEW rows, NEW r, NEW p \in Players,
         table \in [Players -> PlayerRow \cup {None}], rows \in SUBSET LegRow, r \in Reports,
         table[p] # None \/ \E s \in Slots : Books(s, p)
  PROVE  ApplyMatchState(table, rows, r)[p] # None
<1>1. LegsPlayed(rows, p) \in Nat
  BY LegsPlayedType
<1>2. CASE \E s \in Slots : Books(s, p)
  <2> DEFINE s == CHOOSE s \in Slots : Books(s, p)
  <2>1. s \in Slots /\ r.finished \in BOOLEAN
    BY <1>2 DEF Report
  <2>2. [index |-> s, won |-> r.finished /\ s = r.winner,
         legsPlayed |-> LegsPlayed(rows, p)] \in PlayerRow
    BY <1>1, <2>1 DEF PlayerRow
  <2>3. ApplyMatchState(table, rows, r)[p] =
        [index |-> s, won |-> r.finished /\ s = r.winner, legsPlayed |-> LegsPlayed(rows, p)]
    BY <1>2 DEF ApplyMatchState
  <2> QED BY <2>2, <2>3
<1>3. CASE ~ \E s \in Slots : Books(s, p)
  <2>1. table[p] \in PlayerRow /\ table[p] # None
    BY <1>3
  <2>2. [table[p] EXCEPT !.legsPlayed = LegsPlayed(rows, p)] \in PlayerRow
    BY <1>1, <2>1 DEF PlayerRow
  <2>3. ApplyMatchState(table, rows, r)[p] = [table[p] EXCEPT !.legsPlayed = LegsPlayed(rows, p)]
    BY <1>3, <2>1 DEF ApplyMatchState
  <2> QED BY <2>2, <2>3
<1> QED BY <1>2, <1>3

LEMMA LegRowsBooked ==
  ASSUME NEW l, NEW r, NEW row \in LegRows(l, r)
  PROVE  /\ row \in LegRow /\ row.leg = l /\ row.player \in Players
         /\ \E s \in Slots : Books(s, row.player) /\ row.won = (s = r.legWinner)
BY DEF LegRows, LegRow

\* Rows of a player that is neither in "players" nor booked now do not exist.
Covered(rows) == \A row \in rows : players[row.player] # None \/ \E s \in Slots : Books(s, row.player)

LEMMA StoreCovers ==
  ASSUME TypeOK, NEW r \in Reports, NEW snaps, NEW rows \in SUBSET LegRow,
         Covered(rows), Store(r, snaps, rows)
  PROVE  LegRowsHavePlayer'
<1> DEFINE booked == IF Ends(r) THEN ApplyLegState(rows, r.leg, r) ELSE rows
<1>1. booked \in SUBSET LegRow
  BY ApplyLegStateType
<1>2. Covered(booked)
  BY LegRowsBooked DEF Covered, ApplyLegState
<1>3. players \in [Players -> PlayerRow \cup {None}]
  BY DEF TypeOK
<1>4. ASSUME NEW row \in booked
      PROVE  ApplyMatchState(players, booked, r)[row.player] # None
  <2>1. row.player \in Players
    BY <1>1 DEF LegRow
  <2> QED BY <1>1, <1>2, <1>3, <2>1, ApplyMatchStateKeeps DEF Covered
<1> QED BY <1>4 DEF Store, LegRowsHavePlayer

LEMMA LegRowsHavePlayerInductive ==
  TypeOK /\ LegRowsHavePlayer /\ [Next]_vars => LegRowsHavePlayer'
<1> SUFFICES ASSUME TypeOK, LegRowsHavePlayer, [Next]_vars
             PROVE  LegRowsHavePlayer'
  OBVIOUS
<1>1. legs \in SUBSET LegRow /\ Covered(legs)
  BY DEF TypeOK, LegRowsHavePlayer, Covered
<1>2. ASSUME NEW r \in Reports, HandleEvent(r)
      PROVE  LegRowsHavePlayer'
  <2>1. CASE FirstState(r)
    BY <1>1, <2>1, StoreCovers DEF FirstState
  <2>2. CASE StaleState(r)
    BY <2>2 DEF StaleState, vars, tables, LegRowsHavePlayer
  <2>3. CASE SameLegState(r)
    BY <1>1, <2>3, StoreCovers DEF SameLegState
  <2>4. CASE NextLegState(r)
    <3>1. Covered(ApplyLegState(legs, match.leg, match.raw))
      BY <1>1, LegRowsBooked DEF Covered, ApplyLegState
    <3>2. ApplyLegState(legs, match.leg, match.raw) \in SUBSET LegRow
      BY <1>1, ApplyLegStateType
    <3> QED BY <1>1, <2>4, <3>1, <3>2, StoreCovers DEF NextLegState
  <2> QED BY <1>2, <2>1, <2>2, <2>3, <2>4 DEF HandleEvent
<1>3. CASE Reprocess
  <2> DEFINE empty == [p \in Players |-> None]
  <2>1. empty \in [Players -> PlayerRow \cup {None}]
    OBVIOUS
  <2>2. match.raw \in Reports
    BY <1>3 DEF Reprocess, TypeOK, MatchRow
  <2>3. ASSUME NEW row \in SnapshotLegs
        PROVE  ApplyMatchState(empty, SnapshotLegs, match.raw)[row.player] # None
    <3>1. row.player \in Players /\ \E s \in Slots : Books(s, row.player)
      BY <2>3, LegRowsBooked DEF SnapshotLegs
    <3> HIDE DEF empty
    <3> QED BY <2>1, <2>2, <3>1, SnapshotLegsType, ApplyMatchStateKeeps
  <2> QED BY <1>3, <2>3 DEF Reprocess, LegRowsHavePlayer
<1>4. CASE Administer
  <2>1. ASSUME NEW a \in Players, NEW b \in Players, Merge(a, b)
        PROVE  LegRowsHavePlayer'
    <3> DEFINE moved(x) == IF x = a THEN b ELSE x
               kept == {row \in legs : \/ row.player # a
                                       \/ ~\E o \in legs : o.player = b /\ o.leg = row.leg}
    <3>1. legs' = {[leg |-> row.leg, player |-> moved(row.player), won |-> row.won] : row \in kept}
      BY <2>1 DEF Merge
    <3>2. ASSUME NEW row \in kept
          PROVE  players'[moved(row.player)] # None
      <4>1. row.player \in Players /\ players[row.player] # None
        BY <1>1 DEF LegRow, LegRowsHavePlayer
      <4> QED BY <2>1, <4>1 DEF Merge, TypeOK
    <3> QED BY <3>1, <3>2 DEF LegRowsHavePlayer
  <2> QED BY <1>4, <2>1 DEF Administer, Assign, Protect, MoveAlias, tables,
                            LegRowsHavePlayer
<1>5. CASE UNCHANGED vars
  BY <1>5 DEF vars, tables, LegRowsHavePlayer
<1> QED BY <1>2, <1>3, <1>4, <1>5 DEF Next

\* No leg in match_legs is without its player's row in match_players.
THEOREM NoOrphanedLeg == Spec => []LegRowsHavePlayer
<1>1. Init => LegRowsHavePlayer
  BY DEF Init, LegRowsHavePlayer
<1> QED BY <1>1, TypeCorrect, LegRowsHavePlayerInductive, PTL DEF Spec

-----------------------------------------------------------------------------
(* All rows of a leg stem from one payload *)

LEMMA BooksOnePlayer ==
  ASSUME NEW s \in Slots, NEW t \in Slots, NEW p, Books(s, p), Books(t, p)
  PROVE  s = t
<1>1. ~(t < s) /\ ~(s < t)
  BY DEF Books
<1>2. s \in Nat /\ t \in Nat
  OBVIOUS
<1> QED BY <1>1, <1>2

LEMMA LegRowsOneBooking ==
  ASSUME NEW l, NEW r, NEW x \in LegRows(l, r), NEW y \in LegRows(l, r),
         x.player = y.player \/ (x.won /\ y.won)
  PROVE  x = y
<1>1. /\ x \in LegRow /\ y \in LegRow /\ x.leg = l /\ y.leg = l
  BY LegRowsBooked
<1>2. PICK s \in Slots : Books(s, x.player) /\ x.won = (s = r.legWinner)
  BY LegRowsBooked
<1>3. PICK t \in Slots : Books(t, y.player) /\ y.won = (t = r.legWinner)
  BY LegRowsBooked
<1>4. s = t
  <2>1. CASE x.player = y.player
    BY <1>2, <1>3, <2>1, BooksOnePlayer
  <2>2. CASE x.won /\ y.won
    BY <1>2, <1>3, <2>2
  <2> QED BY <2>1, <2>2
<1>5. x.player = y.player /\ x.won = y.won
  BY <1>2, <1>3, <1>4 DEF Books
<1> QED BY <1>1, <1>5 DEF LegRow

OneBookingIn(rows) ==
  \A x, y \in rows : x.leg = y.leg /\ (x.player = y.player \/ (x.won /\ y.won)) => x = y

LEMMA ApplyLegStateOneBooking ==
  ASSUME NEW rows, NEW l, NEW r, OneBookingIn(rows)
  PROVE  OneBookingIn(ApplyLegState(rows, l, r))
<1> DEFINE others == {row \in rows : row.leg # l}
<1>1. CASE r.legWinner \in Slots
  <2>1. ApplyLegState(rows, l, r) = others \cup LegRows(l, r)
    BY <1>1 DEF ApplyLegState
  <2>2. \A x \in others : x \in rows /\ x.leg # l
    OBVIOUS
  <2>3. \A x \in LegRows(l, r) : x.leg = l
    BY LegRowsBooked
  <2>4. \A x, y \in LegRows(l, r) : x.player = y.player \/ (x.won /\ y.won) => x = y
    BY LegRowsOneBooking
  <2> HIDE DEF others
  <2> QED BY <2>1, <2>2, <2>3, <2>4 DEF OneBookingIn
<1>2. CASE r.legWinner \notin Slots
  BY <1>2 DEF ApplyLegState
<1> QED BY <1>1, <1>2

LEMMA OneBookingInductive ==
  TypeOK /\ OneBookingPerLeg /\ [Next]_vars => OneBookingPerLeg'
<1> SUFFICES ASSUME TypeOK, OneBookingIn(legs), [Next]_vars
             PROVE  OneBookingIn(legs')
  BY DEF OneBookingIn, OneBookingPerLeg
<1>1. ASSUME NEW r, NEW snaps, NEW rows, OneBookingIn(rows), Store(r, snaps, rows)
      PROVE  OneBookingIn(legs')
  BY <1>1, ApplyLegStateOneBooking DEF Store
<1>2. ASSUME NEW r \in Reports, HandleEvent(r)
      PROVE  OneBookingIn(legs')
  <2>1. OneBookingIn(ApplyLegState(legs, match.leg, match.raw))
    BY ApplyLegStateOneBooking
  <2> QED BY <1>1, <1>2, <2>1 DEF HandleEvent, FirstState, StaleState, SameLegState,
                                  NextLegState, vars, tables
<1>3. CASE Reprocess
  <2>1. ASSUME NEW x \in SnapshotLegs, NEW y \in SnapshotLegs, x.leg = y.leg,
               x.player = y.player \/ (x.won /\ y.won)
        PROVE  x = y
    <3>1. x \in LegRows(x.leg, snapshots[x.leg]) /\ y \in LegRows(x.leg, snapshots[x.leg])
      BY <2>1, LegRowsBooked DEF SnapshotLegs
    <3> QED BY <2>1, <3>1, LegRowsOneBooking
  <2> QED BY <1>3, <2>1 DEF Reprocess, OneBookingIn
<1>4. CASE Administer
  <2>1. ASSUME NEW a \in Players, NEW b \in Players, Merge(a, b)
        PROVE  OneBookingIn(legs')
    <3> DEFINE moved(x) == IF x = a THEN b ELSE x
               kept == {row \in legs : \/ row.player # a
                                       \/ ~\E o \in legs : o.player = b /\ o.leg = row.leg}
               rename(row) == [leg |-> row.leg, player |-> moved(row.player), won |-> row.won]
    <3>1. legs' = {rename(row) : row \in kept}
      BY <2>1 DEF Merge
    <3>2. ASSUME NEW x \in kept, NEW y \in kept, x.leg = y.leg,
                 moved(x.player) = moved(y.player) \/ (x.won /\ y.won)
          PROVE  rename(x) = rename(y)
      <4>1. CASE x.won /\ y.won
        BY <3>2, <4>1 DEF OneBookingIn
      <4>2. CASE x.player = y.player
        BY <3>2, <4>2 DEF OneBookingIn
      <4>3. CASE moved(x.player) = moved(y.player) /\ x.player # y.player
        \* one of the two is a, the other b: then a's row was not kept
        BY <3>2, <4>3
      <4> QED BY <3>2, <4>1, <4>2, <4>3
    <3> QED BY <3>1, <3>2 DEF OneBookingIn
  <2> QED BY <1>4, <2>1 DEF Administer, Assign, Protect, MoveAlias, tables
<1>5. CASE UNCHANGED vars
  BY <1>5 DEF vars, tables
<1> QED BY <1>2, <1>3, <1>4, <1>5 DEF Next

\* No leg is ever booked twice for a player, and none has two winners.
THEOREM EachLegBookedOnce == Spec => []OneBookingPerLeg
<1>1. Init => OneBookingPerLeg
  BY DEF Init, OneBookingPerLeg
<1> QED BY <1>1, TypeCorrect, OneBookingInductive, PTL DEF Spec

-----------------------------------------------------------------------------
(* Incremental ingest and rebuild agree *)

\* "rows" is what the archived payloads "snaps" yield, row by row.
DerivedFrom(rows, snaps) ==
  \A row \in LegRow :
    row \in rows <=> snaps[row.leg] # None /\ row \in LegRows(row.leg, snaps[row.leg])

LEMMA SnapshotLegsDerived ==
  ASSUME TypeOK
  PROVE  legs = SnapshotLegs <=> DerivedFrom(legs, snapshots)
<1>1. \A row \in LegRow :
        row \in SnapshotLegs <=> snapshots[row.leg] # None /\ row \in LegRows(row.leg, snapshots[row.leg])
  <2> SUFFICES ASSUME NEW row \in LegRow
               PROVE  row \in SnapshotLegs <=>
                        snapshots[row.leg] # None /\ row \in LegRows(row.leg, snapshots[row.leg])
    OBVIOUS
  <2>1. row.leg \in LegIds
    BY DEF LegRow
  <2> QED BY <2>1, LegRowsBooked DEF SnapshotLegs
<1>2. legs \subseteq LegRow /\ SnapshotLegs \subseteq LegRow
  BY SnapshotLegsType DEF TypeOK
<1> QED BY <1>1, <1>2 DEF DerivedFrom

\* match_players has rows for the booked players only.
OnlyBooked(table) == \A p \in Players : table[p] # None => \E s \in Slots : Books(s, p)

LEMMA ApplyMatchStateForgets ==
  ASSUME NEW table, NEW rows, NEW r, OnlyBooked(table)
  PROVE  /\ ApplyMatchState(table, rows, r) = ApplyMatchState([p \in Players |-> None], rows, r)
         /\ OnlyBooked(ApplyMatchState(table, rows, r))
<1> DEFINE empty == [p \in Players |-> None]
<1>1. ASSUME NEW p \in Players, ~ \E s \in Slots : Books(s, p)
      PROVE  ApplyMatchState(table, rows, r)[p] = None /\ ApplyMatchState(empty, rows, r)[p] = None
  <2>1. table[p] = None
    BY <1>1 DEF OnlyBooked
  <2> QED BY <1>1, <2>1 DEF ApplyMatchState
<1>2. ASSUME NEW p \in Players, \E s \in Slots : Books(s, p)
      PROVE  ApplyMatchState(table, rows, r)[p] = ApplyMatchState(empty, rows, r)[p]
  BY <1>2 DEF ApplyMatchState
<1>3. ApplyMatchState(table, rows, r) = ApplyMatchState(empty, rows, r)
  <2>1. \A p \in Players : ApplyMatchState(table, rows, r)[p] = ApplyMatchState(empty, rows, r)[p]
    BY <1>1, <1>2
  <2>2. ApplyMatchState(table, rows, r) = [p \in Players |-> ApplyMatchState(table, rows, r)[p]]
    BY DEF ApplyMatchState
  <2>3. ApplyMatchState(empty, rows, r) = [p \in Players |-> ApplyMatchState(empty, rows, r)[p]]
    BY DEF ApplyMatchState
  <2> HIDE DEF empty
  <2> QED BY <2>1, <2>2, <2>3
<1>4. OnlyBooked(ApplyMatchState(table, rows, r))
  BY <1>1 DEF OnlyBooked
<1> QED BY <1>3, <1>4

\* The strengthening, first half: where the archive stands relative to the stored state.
ArchiveInOrder ==
  /\ match = None => \A l \in LegIds : snapshots[l] = None
  /\ match # None => /\ snapshots[match.leg] = IF Ends(match.raw) THEN match.raw ELSE None
                     /\ \A l \in LegIds : Before(match.leg, l) => snapshots[l] = None

\* Second half: the tables are the ones the archive yields.
TablesDerived ==
  /\ match = None => legs = {} /\ waiting = {} /\ \A p \in Players : players[p] = None
  /\ match # None => /\ waiting = WaitingSlots
                     /\ players = ApplyMatchState([p \in Players |-> None], legs, match.raw)
  /\ DerivedFrom(legs, snapshots)
  /\ OnlyBooked(players)

ArchiveInv ==
  /\ "late" \notin since => ArchiveInOrder
  /\ since = {} => TablesDerived

LEMMA StoreInOrder ==
  ASSUME NEW r \in Reports, NEW snaps \in [LegIds -> Reports \cup {None}], NEW rows,
         Store(r, snaps, rows),
         \A l \in LegIds : Before(r.leg, l) => snaps[l] = None,
         ~Ends(r) => snaps[r.leg] = None
  PROVE  ArchiveInOrder'
<1> DEFINE after == IF Ends(r) THEN [snaps EXCEPT ![r.leg] = r] ELSE snaps
<1>1. r.leg \in LegIds
  BY DEF Report
<1>2. match' = [leg |-> r.leg, finished |-> r.finished, raw |-> r] /\ match' # None
  <2>1. [leg |-> r.leg, finished |-> r.finished, raw |-> r] \in MatchRow
    BY DEF Report, MatchRow
  <2> QED BY <2>1 DEF Store
<1>3. after[r.leg] = (IF Ends(r) THEN r ELSE None)
  BY <1>1
<1>4. \A l \in LegIds : Before(r.leg, l) => after[l] = None
  BY <1>1, BeforeIrreflexive
<1>5. snapshots' = after
  BY DEF Store
<1> HIDE DEF after
<1>6. /\ match'.leg = r.leg /\ match'.raw = r
      /\ snapshots'[match'.leg] = IF Ends(match'.raw) THEN match'.raw ELSE None
      /\ \A l \in LegIds : Before(match'.leg, l) => snapshots'[l] = None
  BY <1>2, <1>3, <1>4, <1>5
<1> QED BY <1>2, <1>6 DEF ArchiveInOrder, Ends, Before

\* What HandleEvent does to the tables with a state that is stored.
LEMMA StoreArchive ==
  ASSUME TypeOK, NEW r \in Reports, NEW snaps \in [LegIds -> Reports \cup {None}],
         NEW rows \in SUBSET LegRow, Store(r, snaps, rows), OnlyBooked(players),
         waiting \subseteq WaitingSlots, DerivedFrom(rows, snaps),
         snaps[r.leg] # None /\ snaps[r.leg].legWinner \in Slots => r.legWinner \in Slots
  PROVE  TablesDerived'
<1> DEFINE booked == IF Ends(r) THEN ApplyLegState(rows, r.leg, r) ELSE rows
           after == IF Ends(r) THEN [snaps EXCEPT ![r.leg] = r] ELSE snaps
<1>1. r.leg \in LegIds /\ r # None
  BY DEF Report
<1>2. match' = [leg |-> r.leg, finished |-> r.finished, raw |-> r] /\ match' # None
  <2>1. [leg |-> r.leg, finished |-> r.finished, raw |-> r] \in MatchRow
    BY DEF Report, MatchRow
  <2> QED BY <2>1 DEF Store
<1>3. \A s \in Slots : Resolve(s)' = Resolve(s)
  BY DEF Store, identity, Resolve
<1>4. \A p \in Players : \A s \in Slots : Books(s, p)' = Books(s, p)
  BY <1>3 DEF Books
<1>5. \A l, q : LegRows(l, q)' = LegRows(l, q)
  <2> SUFFICES ASSUME NEW l, NEW q
               PROVE  LegRows(l, q)' = LegRows(l, q)
    OBVIOUS
  <2>1. \A row \in LegRow : row.player \in Players
    BY DEF LegRow
  <2> DEFINE of(row) == \E s \in Slots : Books(s, row.player) /\ row.won = (s = q.legWinner)
  <2>2. \A row \in LegRow : of(row)' <=> of(row)
    BY <1>4, <2>1
  <2>3. \A row \in LegRow : row \in LegRows(l, q) <=>
                            q.legWinner \in Slots /\ row.leg = l /\ of(row)
    BY DEF LegRows
  <2>4. \A row \in LegRow : row \in LegRows(l, q)' <=>
                            q.legWinner \in Slots /\ row.leg = l /\ of(row)'
    BY DEF LegRows
  <2>5. LegRows(l, q) \subseteq LegRow /\ LegRows(l, q)' \subseteq LegRow
    BY DEF LegRows
  <2> HIDE DEF of
  <2> QED BY <2>2, <2>3, <2>4, <2>5
<1>6. DerivedFrom(booked, after)
  <2>1. CASE ~Ends(r)
    <3>1. booked = rows /\ after = snaps
      BY <2>1
    <3> HIDE DEF booked, after
    <3> QED BY <3>1
  <2>2. CASE Ends(r) /\ r.legWinner \in Slots
    <3> SUFFICES ASSUME NEW row \in LegRow
                 PROVE  row \in booked <=> after[row.leg] # None /\ row \in LegRows(row.leg, after[row.leg])
      BY DEF DerivedFrom
    <3>1. row.leg \in LegIds
      BY DEF LegRow
    <3>2. CASE row.leg = r.leg
      <4>1. after[row.leg] = r
        BY <1>1, <2>2, <3>2
      <4>2. row \in booked <=> row \in LegRows(r.leg, r)
        BY <2>2, <3>2 DEF ApplyLegState
      <4> QED BY <1>1, <3>2, <4>1, <4>2
    <3>3. CASE row.leg # r.leg
      <4>1. after[row.leg] = snaps[row.leg]
        BY <3>1, <3>3
      <4>2. row \in booked <=> row \in rows
        BY <2>2, <3>3, LegRowsBooked DEF ApplyLegState
      <4> QED BY <4>1, <4>2 DEF DerivedFrom
    <3> QED BY <3>2, <3>3
  <2>3. CASE Ends(r) /\ r.legWinner \notin Slots
    <3>1. booked = rows
      BY <2>3 DEF ApplyLegState
    <3> SUFFICES ASSUME NEW row \in LegRow
                 PROVE  row \in rows <=> after[row.leg] # None /\ row \in LegRows(row.leg, after[row.leg])
      BY <3>1 DEF DerivedFrom
    <3>2. row.leg \in LegIds
      BY DEF LegRow
    <3>3. CASE row.leg = r.leg
      <4>1. after[row.leg] = r
        BY <1>1, <2>3, <3>3
      <4>2. LegRows(row.leg, after[row.leg]) = {}
        BY <2>3, <4>1 DEF LegRows
      <4>3. ~(snaps[row.leg] # None /\ row \in LegRows(row.leg, snaps[row.leg]))
        BY <2>3, <3>3 DEF LegRows
      <4> QED BY <4>2, <4>3 DEF DerivedFrom
    <3>4. CASE row.leg # r.leg
      <4>1. after[row.leg] = snaps[row.leg]
        BY <3>2, <3>4
      <4> QED BY <4>1 DEF DerivedFrom
    <3> QED BY <3>3, <3>4
  <2> QED BY <2>1, <2>2, <2>3
<1>7. legs' = booked /\ snapshots' = after
  BY DEF Store
<1>8. DerivedFrom(legs, snapshots)'
  BY <1>5, <1>6, <1>7 DEF DerivedFrom
<1>9. players' = ApplyMatchState([p \in Players |-> None], booked, r) /\ OnlyBooked(players')
  BY ApplyMatchStateForgets DEF Store
<1>10. players' = ApplyMatchState([p \in Players |-> None], legs, match.raw)'
  BY <1>2, <1>4, <1>7, <1>9 DEF ApplyMatchState
<1>11. OnlyBooked(players)'
  BY <1>4, <1>9 DEF OnlyBooked
<1>12. waiting' = WaitingSlots'
  BY <1>3 DEF Store, WaitingSlots
<1> QED BY <1>2, <1>8, <1>10, <1>11, <1>12 DEF TablesDerived

LEMMA BeforeTotal ==
  ASSUME NEW a \in LegIds, NEW b \in LegIds
  PROVE  /\ a = b \/ Before(a, b) \/ Before(b, a)
         /\ \A c \in LegIds : Before(a, b) /\ Before(b, c) => Before(a, c) /\ a # c
<1>1. \A l \in LegIds : l[1] \in Nat /\ l[2] \in Nat /\ l = <<l[1], l[2]>>
  OBVIOUS
<1> QED BY <1>1 DEF Before

LEMMA SnapshotKept ==
  ASSUME NEW snaps \in [LegIds -> Reports \cup {None}], NEW l \in LegIds, NEW r
  PROVE  /\ [snaps EXCEPT ![l] = r][l] = r
         /\ \A k \in LegIds : k # l => [snaps EXCEPT ![l] = r][k] = snaps[k]
OBVIOUS

\* Archiving the state before, when the leg moves on, keeps legs and archive together.
LEMMA ArchivePrevious ==
  ASSUME TypeOK, match # None, match.leg \in LegIds, match.raw \in Reports,
         DerivedFrom(legs, snapshots),
         snapshots[match.leg] = None \/ snapshots[match.leg] = match.raw
  PROVE  DerivedFrom(ApplyLegState(legs, match.leg, match.raw),
                     [snapshots EXCEPT ![match.leg] = match.raw])
<1> DEFINE snaps == [snapshots EXCEPT ![match.leg] = match.raw]
           rows == ApplyLegState(legs, match.leg, match.raw)
<1>1. snaps[match.leg] = match.raw /\ \A k \in LegIds : k # match.leg => snaps[k] = snapshots[k]
  BY SnapshotKept DEF TypeOK
<1> HIDE DEF snaps
<1> SUFFICES ASSUME NEW row \in LegRow
             PROVE  row \in rows <=> snaps[row.leg] # None /\ row \in LegRows(row.leg, snaps[row.leg])
  BY DEF DerivedFrom, snaps
<1>2. row.leg \in LegIds
  BY DEF LegRow
<1>3. row \in legs <=> snapshots[row.leg] # None /\ row \in LegRows(row.leg, snapshots[row.leg])
  BY DEF DerivedFrom
<1>4. CASE row.leg # match.leg
  <2>1. row \in rows <=> row \in legs
    BY <1>4, LegRowsBooked DEF ApplyLegState
  <2> QED BY <1>1, <1>2, <1>3, <1>4, <2>1
<1>5. CASE row.leg = match.leg /\ match.raw.legWinner \in Slots
  <2>1. row \in rows <=> row \in LegRows(match.leg, match.raw)
    BY <1>5 DEF ApplyLegState
  <2> QED BY <1>1, <1>5, <2>1
<1>6. CASE row.leg = match.leg /\ match.raw.legWinner \notin Slots
  <2>1. rows = legs
    BY <1>6 DEF ApplyLegState
  <2>2. LegRows(match.leg, match.raw) = {}
    BY <1>6 DEF LegRows
  <2> QED BY <1>1, <1>3, <1>6, <2>1, <2>2
<1> QED BY <1>4, <1>5, <1>6

LEMMA NextLegInOrder ==
  ASSUME TypeOK, ArchiveInOrder, NEW r \in Reports, NextLegState(r)
  PROVE  /\ match.leg \in LegIds /\ match.raw \in Reports /\ r.leg \in LegIds
         /\ snapshots[r.leg] = None
         /\ \A l \in LegIds : Before(r.leg, l) => snapshots[l] = None
         /\ match.leg # r.leg
         /\ \A l \in LegIds : Before(r.leg, l) => l # match.leg
<1>1. match \in MatchRow /\ match # None
  BY DEF TypeOK, NextLegState
<1>2. match.leg \in LegIds /\ match.raw \in Reports /\ r.leg \in LegIds
  BY <1>1 DEF MatchRow, Report
<1>3. Before(match.leg, r.leg)
  BY <1>2, BeforeTotal DEF NextLegState, IsStale
<1> QED BY <1>1, <1>2, <1>3, BeforeTotal, BeforeIrreflexive DEF ArchiveInOrder

LEMMA HandleEventInOrder ==
  ASSUME TypeOK, "late" \notin since', ArchiveInv, NEW r \in Reports, HandleEvent(r)
  PROVE  ArchiveInOrder'
<1>1. snapshots \in [LegIds -> Reports \cup {None}] /\ legs \in SUBSET LegRow /\ r.leg \in LegIds
  BY DEF TypeOK, Report
<1>2. "late" \notin since
  BY DEF HandleEvent, FirstState, StaleState, SameLegState, NextLegState, vars
<1>3. ArchiveInOrder
  BY <1>2 DEF ArchiveInv
<1>4. CASE FirstState(r)
  BY <1>1, <1>3, <1>4, StoreInOrder DEF FirstState, ArchiveInOrder
<1>5. CASE StaleState(r)
  BY <1>3, <1>5 DEF StaleState, vars, tables, ArchiveInOrder
<1>6. CASE SameLegState(r)
  <2>1. ~Ends(r) => snapshots[r.leg] = None
    BY <1>3, <1>6 DEF SameLegState, IsLate, ArchiveInOrder
  <2> QED BY <1>1, <1>3, <1>6, <2>1, StoreInOrder DEF SameLegState, ArchiveInOrder
<1>7. CASE NextLegState(r)
  <2>1. CASE match.finished
    BY <1>1, <1>3, <1>7, <2>1, NextLegInOrder, StoreInOrder DEF NextLegState
  <2>2. CASE ~match.finished
    <3> DEFINE snaps == [snapshots EXCEPT ![match.leg] = match.raw]
    <3>1. snaps \in [LegIds -> Reports \cup {None}]
      BY <1>7, ArchiveType DEF NextLegState
    <3>2. \A k \in LegIds : k # match.leg => snaps[k] = snapshots[k]
      BY <1>1, <1>3, <1>7, NextLegInOrder, SnapshotKept
    <3>3. Store(r, snaps, ApplyLegState(legs, match.leg, match.raw))
      BY <1>7, <2>2 DEF NextLegState
    <3> HIDE DEF snaps
    <3>4. snaps[r.leg] = None /\ \A l \in LegIds : Before(r.leg, l) => snaps[l] = None
      BY <1>1, <1>3, <1>7, <3>2, NextLegInOrder
    <3> QED BY <3>1, <3>3, <3>4, StoreInOrder
  <2> QED BY <2>1, <2>2
<1> QED BY <1>4, <1>5, <1>6, <1>7 DEF HandleEvent

LEMMA HandleEventDerives ==
  ASSUME TypeOK, since' = {}, ArchiveInv, NEW r \in Reports, HandleEvent(r)
  PROVE  TablesDerived'
<1>1. snapshots \in [LegIds -> Reports \cup {None}] /\ legs \in SUBSET LegRow /\ r.leg \in LegIds
  BY DEF TypeOK, Report
<1>2. since = {}
  BY DEF HandleEvent, FirstState, StaleState, SameLegState, NextLegState, vars
<1>3. ArchiveInOrder /\ TablesDerived
  BY <1>2 DEF ArchiveInv
<1>4. CASE FirstState(r)
  BY <1>1, <1>3, <1>4, StoreArchive DEF FirstState, ArchiveInOrder, TablesDerived
<1>5. CASE StaleState(r)
  BY <1>3, <1>5 DEF StaleState, vars, tables, identity, TablesDerived, DerivedFrom, OnlyBooked,
                    LegRows, Books, Resolve, WaitingSlots, ApplyMatchState
<1>6. CASE SameLegState(r)
  <2>1. snapshots[r.leg] # None /\ snapshots[r.leg].legWinner \in Slots => r.legWinner \in Slots
    BY <1>3, <1>6 DEF SameLegState, IsLate, ArchiveInOrder
  <2> QED BY <1>1, <1>3, <1>6, <2>1, StoreArchive DEF SameLegState, TablesDerived
<1>7. CASE NextLegState(r)
  <2>1. snapshots[r.leg] = None
    BY <1>3, <1>7, NextLegInOrder
  <2>2. CASE match.finished
    BY <1>1, <1>3, <1>7, <2>1, <2>2, StoreArchive DEF NextLegState, TablesDerived
  <2>3. CASE ~match.finished
    <3> DEFINE snaps == [snapshots EXCEPT ![match.leg] = match.raw]
               rows == ApplyLegState(legs, match.leg, match.raw)
    <3>1. match # None /\ match.leg \in LegIds /\ match.raw \in Reports /\ match.leg # r.leg
      BY <1>3, <1>7, NextLegInOrder DEF NextLegState
    <3>2. snaps \in [LegIds -> Reports \cup {None}] /\ rows \in SUBSET LegRow
      BY <3>1, ArchiveType
    <3>3. DerivedFrom(rows, snaps)
      BY <1>3, <3>1, ArchivePrevious DEF ArchiveInOrder, TablesDerived
    <3>4. snaps[r.leg] = None
      BY <1>1, <2>1, <3>1, SnapshotKept
    <3>5. Store(r, snaps, rows)
      BY <1>7, <2>3 DEF NextLegState
    <3>6. OnlyBooked(players) /\ waiting \subseteq WaitingSlots
      BY <1>3, <3>1 DEF TablesDerived
    <3> HIDE DEF snaps, rows
    <3> QED BY <3>2, <3>3, <3>4, <3>5, <3>6, StoreArchive
  <2> QED BY <2>2, <2>3
<1> QED BY <1>4, <1>5, <1>6, <1>7 DEF HandleEvent

\* A rebuild restores the second half whatever administrators did before.
LEMMA ReprocessDerives ==
  ASSUME TypeOK, RowMirrorsRaw, Reprocess
  PROVE  TablesDerived'
<1> DEFINE empty == [p \in Players |-> None]
<1>1. match' = match /\ match # None
  <2>1. match \in MatchRow
    BY DEF Reprocess, TypeOK
  <2> QED BY <2>1 DEF Reprocess, RowMirrorsRaw, MatchRow
<1>2. OnlyBooked(empty)
  BY DEF OnlyBooked
<1>3. OnlyBooked(ApplyMatchState(empty, SnapshotLegs, match.raw))
  BY <1>2, ApplyMatchStateForgets
<1>4. DerivedFrom(SnapshotLegs, snapshots)
  <2> SUFFICES ASSUME NEW row \in LegRow
               PROVE  row \in SnapshotLegs <=>
                        snapshots[row.leg] # None /\ row \in LegRows(row.leg, snapshots[row.leg])
    BY DEF DerivedFrom
  <2>1. row.leg \in LegIds
    BY DEF LegRow
  <2> QED BY <2>1, LegRowsBooked DEF SnapshotLegs
<1>5. /\ legs' = SnapshotLegs /\ players' = ApplyMatchState(empty, SnapshotLegs, match.raw)
      /\ waiting' = WaitingSlots /\ snapshots' = snapshots
      /\ claim' = claim /\ protected' = protected /\ override' = override
  BY DEF Reprocess, identity
<1>6. \A s \in Slots : Resolve(s)' = Resolve(s)
  BY <1>5 DEF Resolve
<1>7. WaitingSlots' = WaitingSlots
  BY <1>6 DEF WaitingSlots
<1>8. DerivedFrom(legs, snapshots)'
  BY <1>4, <1>5 DEF DerivedFrom, LegRows, Books, Resolve
<1>9. OnlyBooked(players)'
  BY <1>3, <1>5 DEF OnlyBooked, Books, Resolve
<1>10. players' = ApplyMatchState(empty, legs, match.raw)'
  BY <1>1, <1>5 DEF ApplyMatchState, Books, Resolve
<1> QED BY <1>1, <1>5, <1>7, <1>8, <1>9, <1>10 DEF TablesDerived

LEMMA ArchiveInductive ==
  ASSUME TypeOK, RowMirrorsRaw, ArchiveInv, [Next]_vars
  PROVE  ArchiveInv'
<1>1. ASSUME NEW r \in Reports, HandleEvent(r)
      PROVE  ArchiveInv'
  BY <1>1, HandleEventInOrder, HandleEventDerives DEF ArchiveInv
<1>2. CASE Reprocess
  <2>1. match' = match /\ snapshots' = snapshots
    <3>1. match \in MatchRow
      BY <1>2 DEF Reprocess, TypeOK
    <3> QED BY <1>2, <3>1 DEF Reprocess, RowMirrorsRaw, MatchRow
  <2>2. "late" \notin since' => ArchiveInOrder'
    BY <1>2, <2>1 DEF Reprocess, ArchiveInv, ArchiveInOrder
  <2> QED BY <1>2, <2>2, ReprocessDerives DEF ArchiveInv
<1>3. CASE Administer
  <2>1. match' = match /\ snapshots' = snapshots /\ since' # {} /\ since \subseteq since'
    BY <1>3 DEF Administer, Assign, Protect, MoveAlias, Merge, tables
  <2> QED BY <2>1 DEF ArchiveInv, ArchiveInOrder
<1>4. CASE UNCHANGED vars
  BY <1>4 DEF vars, tables, identity, ArchiveInv, ArchiveInOrder, TablesDerived, DerivedFrom,
              OnlyBooked, LegRows, Books, Resolve, WaitingSlots, ApplyMatchState
<1> QED BY <1>1, <1>2, <1>3, <1>4 DEF Next

\* As long as no administrator intervened since the last rebuild and no collector took the
\* end of a leg back, a rebuild reproduces exactly the tables kept event by event.
THEOREM IncrementalIngestIsRebuild == Spec => []RebuildChangesNothing
<1>1. ASSUME Init
      PROVE  RowMirrorsRaw /\ ArchiveInv
  <2>1. match = None /\ legs = {} /\ waiting = {}
    BY <1>1 DEF Init
  <2>2. \A l \in LegIds : snapshots[l] = None
    BY <1>1 DEF Init
  <2>3. \A p \in Players : players[p] = None
    BY <1>1 DEF Init
  <2>4. DerivedFrom(legs, snapshots)
    BY <2>1, <2>2 DEF DerivedFrom, LegRow
  <2> QED BY <2>1, <2>2, <2>3, <2>4
          DEF RowMirrorsRaw, ArchiveInv, ArchiveInOrder, TablesDerived, OnlyBooked
<1>2. TypeOK /\ RowMirrorsRaw /\ ArchiveInv /\ [Next]_vars => RowMirrorsRaw' /\ ArchiveInv'
  BY MirrorsRawInductive, ArchiveInductive
<1>3. TypeOK /\ ArchiveInv => RebuildChangesNothing
  BY SnapshotLegsDerived DEF ArchiveInv, TablesDerived, RebuildChangesNothing
<1> QED BY <1>1, <1>2, <1>3, TypeCorrect, PTL DEF Spec

-----------------------------------------------------------------------------
(* Administrators between the events: the counters agree with the rows they *)
(* count, a decision for a slot holds, no match has two winners and nobody  *)
(* counts for a slot that waits.  What a step can be: every one that        *)
(* computes match_players ends with ApplyMatchState over the rows it leaves *)
(* in match_legs.                                                           *)

\* Computed by applyMatchState from "table" and the rows the step leaves.
Derived(table) == players' = ApplyMatchState(table, legs', match'.raw)

EmptyTable == [p \in Players |-> None]

\* The three ways in which the derived tables change.
EventStored ==
  /\ Derived(players) /\ waiting' = waiting \cup WaitingSlots
  /\ UNCHANGED identity /\ since \subseteq since'

Rebuilt ==
  /\ Derived(EmptyTable) /\ waiting' = WaitingSlots
  /\ UNCHANGED identity /\ since' = since \cap {"late"}

LEMMA EventOrNothing ==
  ASSUME NEW r \in Reports, HandleEvent(r)
  PROVE  \/ UNCHANGED vars
         \/ EventStored /\ match'.raw \in Reports
<1>1. ASSUME NEW snaps, NEW rows, Store(r, snaps, rows), since \subseteq since'
      PROVE  EventStored /\ match'.raw \in Reports
  BY <1>1 DEF Store, EventStored, Derived
<1> QED BY <1>1 DEF HandleEvent, FirstState, StaleState, SameLegState, NextLegState

LEMMA RebuildStep ==
  ASSUME TypeOK, Reprocess
  PROVE  Rebuilt /\ match'.raw \in Reports
<1>1. match.raw \in Reports
  BY DEF TypeOK, Reprocess, MatchRow
<1> QED BY <1>1 DEF Reprocess, Rebuilt, Derived, EmptyTable

\* What every theorem below shows of the steps: events, rebuilds and administration.
LEMMA StepCases ==
  ASSUME TypeOK, [Next]_vars
  PROVE  \/ UNCHANGED vars
         \/ EventStored /\ match'.raw \in Reports
         \/ Rebuilt /\ match'.raw \in Reports
         \/ Administer
BY EventOrNothing, RebuildStep DEF Next

LEMMA TablesTyped == EmptyTable \in [Players -> PlayerRow \cup {None}]
BY DEF EmptyTable

-----------------------------------------------------------------------------
(* The rows of applyMatchState *)

\* A row says which slot it is for, who won, and how many legs the player has.
LEMMA RowOfBooked ==
  ASSUME NEW table, NEW rows, NEW r, NEW p \in Players, \E s \in Slots : Books(s, p)
  PROVE  \E s \in Slots :
           /\ Books(s, p)
           /\ ApplyMatchState(table, rows, r)[p] =
                [index |-> s, won |-> r.finished /\ s = r.winner, legsPlayed |-> LegsPlayed(rows, p)]
BY DEF ApplyMatchState

LEMMA RowOfOthers ==
  ASSUME NEW table \in [Players -> PlayerRow \cup {None}], NEW rows, NEW r, NEW p \in Players,
         ~ \E s \in Slots : Books(s, p)
  PROVE  LET row == ApplyMatchState(table, rows, r)[p]
         IN /\ table[p] = None => row = None
            /\ table[p] # None => /\ table[p] \in PlayerRow
                                  /\ row.index = table[p].index /\ row.won = table[p].won
                                  /\ row.legsPlayed = LegsPlayed(rows, p)
<1>1. CASE table[p] = None
  BY <1>1 DEF ApplyMatchState
<1>2. CASE table[p] # None
  <2>1. table[p] \in PlayerRow
    BY <1>2
  <2>2. ApplyMatchState(table, rows, r)[p] = [table[p] EXCEPT !.legsPlayed = LegsPlayed(rows, p)]
    BY <1>2 DEF ApplyMatchState
  <2> QED BY <1>2, <2>1, <2>2 DEF PlayerRow
<1> QED BY <1>1, <1>2

-----------------------------------------------------------------------------
(* legs_played *)

LEMMA DerivedCounts ==
  ASSUME NEW table \in [Players -> PlayerRow \cup {None}], NEW p \in Players, Derived(table),
         players'[p] # None
  PROVE  players'[p].legsPlayed = LegsPlayed(legs', p)
<1> DEFINE r == match'.raw  rows == legs'
<1>0. players' = ApplyMatchState(table, rows, r)
  BY DEF Derived
<1> HIDE DEF r, rows
<1>1. CASE \E s \in Slots : Books(s, p)
  <2>1. PICK s \in Slots : ApplyMatchState(table, rows, r)[p] =
              [index |-> s, won |-> r.finished /\ s = r.winner, legsPlayed |-> LegsPlayed(rows, p)]
    BY <1>1, RowOfBooked
  <2> QED BY <1>0, <2>1 DEF rows
<1>2. CASE ~ \E s \in Slots : Books(s, p)
  BY <1>0, <1>2, RowOfOthers DEF rows
<1> QED BY <1>1, <1>2

LEMMA LegsPlayedInductive ==
  ASSUME TypeOK, LegsPlayedExact, [Next]_vars
  PROVE  LegsPlayedExact'
<1> SUFFICES ASSUME "merge" \notin since', NEW p \in Players, players'[p] # None
             PROVE  players'[p].legsPlayed = LegsPlayed(legs', p)
  BY DEF LegsPlayedExact, LegsPlayed
<1>1. CASE EventStored
  BY <1>1, DerivedCounts DEF EventStored, TypeOK
<1>2. CASE Rebuilt
  BY <1>2, DerivedCounts, TablesTyped DEF Rebuilt
<1>3. CASE Administer
  <2>1. ~ \E a, b \in Players : Merge(a, b)
    BY DEF Merge
  <2>2. legs' = legs /\ players' = players /\ since \subseteq since'
    BY <1>3, <2>1 DEF Administer, Assign, Protect, MoveAlias, tables
  <2> QED BY <2>2 DEF LegsPlayedExact
<1>4. CASE UNCHANGED vars
  BY <1>4 DEF vars, tables, LegsPlayedExact
<1> QED BY <1>1, <1>2, <1>3, <1>4, StepCases

\* legs_played counts the rows of match_legs through all events, rebuilds and decisions; only
\* a merge moves rows without counting again.
THEOREM CountersAgree == Spec => []LegsPlayedExact
<1>1. Init => LegsPlayedExact
  BY DEF Init, LegsPlayedExact
<1>2. TypeOK /\ LegsPlayedExact /\ [Next]_vars => LegsPlayedExact'
  BY LegsPlayedInductive
<1> QED BY <1>1, <1>2, TypeCorrect, PTL DEF Spec

-----------------------------------------------------------------------------
(* Assigned slots *)

LEMMA LeastSlot ==
  ASSUME NEW T, T \subseteq Slots, T # {}
  PROVE  \E x \in T : \A y \in T : ~(y < x)
<1> DEFINE R == OpToRel(<, Nat)
<1>1. \E x \in T : \A y \in T : ~ (<<y, x>> \in R)
  <2> HIDE DEF R
  <2>1. IsWellFoundedOn(R, Nat)
    BY NatLessThanWellFounded DEF R
  <2>2. T \subseteq Nat
    OBVIOUS
  <2> QED BY <2>1, <2>2, WFMin
<1>2. \A y, x \in Nat : <<y, x>> \in R <=> y < x
  BY DEF OpToRel
<1> HIDE DEF R
<1> QED BY <1>1, <1>2

\* Of the slots of one player the first is booked.
LEMMA FirstIsBooked ==
  ASSUME NEW p, NEW s \in Slots, Resolve(s) = p
  PROVE  \E t \in Slots : Books(t, p)
<1> DEFINE T == {t \in Slots : Resolve(t) = p}
<1>1. PICK t \in T : \A u \in T : ~(u < t)
  <2>1. T \subseteq Slots /\ T # {}
    OBVIOUS
  <2> HIDE DEF T
  <2> QED BY <2>1, LeastSlot
<1>2. \A u \in Slots : u < t => Resolve(u) # p
  BY <1>1
<1> QED BY <1>1, <1>2 DEF Books

Assigned(s) == override[s] \in Players /\ claim[s] # Bot

LEMMA DerivedAssigned ==
  ASSUME NEW table \in [Players -> PlayerRow \cup {None}], Derived(table), TypeOK', match'.raw \in Reports,
         UNCHANGED identity, NEW s \in Slots, Assigned(s)
  PROVE  players'[override[s]] # None
<1>1. override[s] # None
  BY DEF Assigned
<1>2. Resolve(s) = override[s]
  BY <1>1 DEF Resolve, Assigned
<1>3. \E t \in Slots : Books(t, override[s])
  BY <1>2, FirstIsBooked
<1>4. legs' \in SUBSET LegRow
  BY DEF TypeOK
<1> QED BY <1>3, <1>4, ApplyMatchStateKeeps DEF Derived, Assigned

LEMMA MergedAssigned ==
  ASSUME TypeOK, NEW a \in Players, NEW b \in Players, Merge(a, b),
         \A s \in Slots : Assigned(s) => players[override[s]] # None,
         NEW s \in Slots, Assigned(s)'
  PROVE  players'[override'[s]] # None
<1> DEFINE moved(x) == IF x = a THEN b ELSE x
<1>1. claim'[s] = moved(claim[s]) /\ override'[s] = moved(override[s])
  BY DEF Merge
<1>2. Assigned(s)
  BY <1>1 DEF Assigned
<1>3. players[override[s]] # None /\ override[s] \in Players
  BY <1>2 DEF Assigned
<1>4. /\ players'[b] = IF players[b] = None THEN players[a] ELSE players[b]
      /\ \A p \in Players \ {a, b} : players'[p] = players[p]
  BY DEF Merge, TypeOK
<1> QED BY <1>1, <1>3, <1>4

LEMMA AssignedInductive ==
  ASSUME TypeOK, AssignedSlotCounts, [Next]_vars
  PROVE  AssignedSlotCounts'
<1> SUFFICES ASSUME match' # None, "assign" \notin since', NEW s \in Slots, Assigned(s)'
             PROVE  players'[override'[s]] # None
  BY DEF AssignedSlotCounts, Assigned
<1>0. TypeOK'
  BY NextType
<1>1. ASSUME UNCHANGED identity
      PROVE  Assigned(s) /\ override' = override
  BY <1>1 DEF identity, Assigned
<1>2. CASE EventStored /\ match'.raw \in Reports
  BY <1>0, <1>1, <1>2, DerivedAssigned DEF EventStored, TypeOK
<1>3. CASE Rebuilt /\ match'.raw \in Reports
  BY <1>0, <1>1, <1>3, DerivedAssigned, TablesTyped DEF Rebuilt
<1>4. CASE Administer
  <2>1. \A t \in Slots : match # None /\ Assigned(t) => players[override[t]] # None
    <3>1. "assign" \notin since
      BY <1>4 DEF Administer, Assign, Protect, MoveAlias, Merge
    <3> QED BY <3>1 DEF AssignedSlotCounts, Assigned
  <2>2. match # None
    BY <1>4 DEF Administer, Assign, Protect, MoveAlias, Merge, tables
  <2>3. ASSUME NEW a \in Players, NEW b \in Players, Merge(a, b)
        PROVE  players'[override'[s]] # None
    BY <2>1, <2>2, <2>3, MergedAssigned
  <2>4. ASSUME NEW p \in Players, NEW on \in BOOLEAN, Protect(p, on)
        PROVE  players'[override'[s]] # None
    BY <2>1, <2>2, <2>4 DEF Protect, tables, Assigned
  <2>5. ASSUME NEW t \in Slots, NEW p \in Players, MoveAlias(t, p)
        PROVE  players'[override'[s]] # None
    <3>1. Assigned(s)
      BY <2>5 DEF MoveAlias, Assigned, TypeOK
    <3> QED BY <2>1, <2>2, <2>5, <3>1 DEF MoveAlias, tables
  <2>6. \A t \in Slots, x \in Players \cup {Ignored} : ~Assign(t, x)
    BY DEF Assign
  <2> QED BY <1>4, <2>3, <2>4, <2>5, <2>6 DEF Administer
<1>5. CASE UNCHANGED vars
  BY <1>1, <1>5 DEF vars, tables, identity, AssignedSlotCounts, Assigned
<1> QED BY <1>2, <1>3, <1>4, <1>5, StepCases

\* A slot assigned to a player counts for him as soon as ResolvePending's rebuild is through,
\* for any number of slots, whatever comes before, between and after its two transactions.
THEOREM DecisionsHold == Spec => []AssignedSlotCounts
<1>1. Init => AssignedSlotCounts
  BY DEF Init, AssignedSlotCounts
<1>2. TypeOK /\ AssignedSlotCounts /\ [Next]_vars => AssignedSlotCounts'
  BY AssignedInductive
<1> QED BY <1>1, <1>2, TypeCorrect, PTL DEF Spec

-----------------------------------------------------------------------------
(* Winners *)

\* p's row is for the slot he is booked with, and he has won only if the stored state says so.
RowBooked(p) ==
  players[p] # None =>
    /\ Books(players[p].index, p)
    /\ players[p].won => players[p].index = match.raw.winner

\* That holds unless an administrator intervened since the last rebuild.
RowsBooked == since \cap AdminKinds = {} => \A p \in Players : RowBooked(p)

LEMMA DerivedBooked ==
  ASSUME NEW table \in [Players -> PlayerRow \cup {None}], Derived(table), UNCHANGED identity,
         \A p \in Players : table[p] # None => \E s \in Slots : Books(s, p),
         NEW p \in Players
  PROVE  RowBooked(p)'
<1> SUFFICES ASSUME players'[p] # None
             PROVE  /\ Books(players[p].index, p)'
                    /\ players'[p].won => players'[p].index = match'.raw.winner
  BY DEF RowBooked
<1>1. \E s \in Slots : Books(s, p)
  BY RowOfOthers DEF Derived
<1>2. PICK s \in Slots : /\ Books(s, p)
                         /\ players'[p] = [index |-> s, won |-> match'.raw.finished /\ s = match'.raw.winner,
                                           legsPlayed |-> LegsPlayed(legs', p)]
  <2> DEFINE r == match'.raw  rows == legs'
  <2>1. players' = ApplyMatchState(table, rows, r)
    BY DEF Derived
  <2> HIDE DEF r, rows
  <2>2. \E s \in Slots : /\ Books(s, p)
                         /\ players'[p] = [index |-> s, won |-> r.finished /\ s = r.winner,
                                           legsPlayed |-> LegsPlayed(rows, p)]
    BY <1>1, <2>1, RowOfBooked
  <2> QED BY <2>2 DEF r, rows
<1>3. players'[p].index = s /\ (players'[p].won => s = match'.raw.winner)
  <2> DEFINE done == match'.raw.finished /\ s = match'.raw.winner  n == LegsPlayed(legs', p)
  <2>1. players'[p] = [index |-> s, won |-> done, legsPlayed |-> n]
    BY <1>2
  <2>2. done => s = match'.raw.winner
    OBVIOUS
  <2> HIDE DEF done, n
  <2> QED BY <2>1, <2>2
<1>4. Books(s, p)'
  BY <1>2 DEF Books, Resolve, identity
<1> QED BY <1>3, <1>4

LEMMA RowsBookedInductive ==
  ASSUME TypeOK, RowsBooked, [Next]_vars
  PROVE  RowsBooked'
<1> SUFFICES ASSUME since' \cap AdminKinds = {}, NEW p \in Players
             PROVE  RowBooked(p)'
  BY DEF RowsBooked
<1>1. CASE EventStored
  <2>1. \A q \in Players : players[q] # None => Books(players[q].index, q)
    BY <1>1 DEF EventStored, RowsBooked, RowBooked
  <2>2. \A q \in Players : players[q] # None => \E s \in Slots : Books(s, q)
    BY <2>1 DEF TypeOK, PlayerRow
  <2> QED BY <1>1, <2>2, DerivedBooked DEF EventStored, TypeOK
<1>2. CASE Rebuilt
  BY <1>2, DerivedBooked, TablesTyped DEF Rebuilt, EmptyTable
<1>3. CASE Administer
  BY <1>3 DEF Administer, Assign, Protect, MoveAlias, Merge, AdminKinds
<1>4. CASE UNCHANGED vars
  BY <1>4 DEF vars, tables, identity, RowsBooked, RowBooked, Books, Resolve
<1> QED BY <1>1, <1>2, <1>3, <1>4, StepCases

\* No match has two winners, for any number of slots, players and events between two rebuilds.
THEOREM MatchWonOnce == Spec => []OneMatchWinner
<1>1. Init => RowsBooked
  BY DEF Init, RowsBooked, RowBooked
<1>2. TypeOK /\ RowsBooked /\ [Next]_vars => RowsBooked'
  BY RowsBookedInductive
<1>3. RowsBooked => OneMatchWinner
  BY DEF RowsBooked, RowBooked, OneMatchWinner, Books
<1> QED BY <1>1, <1>2, <1>3, TypeCorrect, PTL DEF Spec

-----------------------------------------------------------------------------
(* Waiting slots *)

\* Unless a name's meaning has changed since the last rebuild, the slots in the queue are
\* slots that must wait, and no row is for such a slot.
QueueIsRight ==
  since \cap {"protect", "alias", "merge"} = {} =>
    /\ waiting \subseteq WaitingSlots
    /\ \A p \in Players : players[p] # None => players[p].index \notin WaitingSlots

LEMMA DerivedDoesNotWait ==
  ASSUME NEW table \in [Players -> PlayerRow \cup {None}], Derived(table), NEW p \in Players,
         table[p] # None => table[p].index \notin WaitingSlots, players'[p] # None
  PROVE  players'[p].index \notin WaitingSlots
<1> DEFINE r == match'.raw  rows == legs'
<1>0. players' = ApplyMatchState(table, rows, r)
  BY DEF Derived
<1> HIDE DEF r, rows
<1>1. CASE \E s \in Slots : Books(s, p)
  <2>1. PICK s \in Slots : /\ Books(s, p)
                           /\ players'[p] = [index |-> s, won |-> r.finished /\ s = r.winner,
                                             legsPlayed |-> LegsPlayed(rows, p)]
    BY <1>0, <1>1, RowOfBooked
  <2>2. players'[p].index = s
    BY <2>1
  <2> QED BY <2>1, <2>2 DEF Books, WaitingSlots
<1>2. CASE ~ \E s \in Slots : Books(s, p)
  BY <1>0, <1>2, RowOfOthers
<1> QED BY <1>1, <1>2

LEMMA QueueInductive ==
  ASSUME TypeOK, QueueIsRight, [Next]_vars
  PROVE  QueueIsRight'
<1> SUFFICES ASSUME since' \cap {"protect", "alias", "merge"} = {}
             PROVE  /\ waiting' \subseteq WaitingSlots'
                    /\ \A p \in Players : players'[p] # None => players'[p].index \notin WaitingSlots'
  BY DEF QueueIsRight
<1>0. UNCHANGED identity => WaitingSlots' = WaitingSlots
  BY DEF WaitingSlots, Resolve, identity
<1>1. CASE EventStored
  BY <1>0, <1>1, DerivedDoesNotWait DEF EventStored, QueueIsRight, TypeOK
<1>2. CASE Rebuilt
  BY <1>0, <1>2, DerivedDoesNotWait, TablesTyped DEF Rebuilt, EmptyTable
<1>3. CASE Administer
  <2>1. PICK s \in Slots, x \in Players \cup {Ignored} : Assign(s, x)
    BY <1>3 DEF Administer, Protect, MoveAlias, Merge
  <2>2. WaitingSlots' = WaitingSlots \ {s}
    BY <2>1 DEF Assign, WaitingSlots, Resolve, TypeOK
  <2> QED BY <2>1, <2>2 DEF Assign, QueueIsRight
<1>4. CASE UNCHANGED vars
  BY <1>0, <1>4 DEF vars, tables, QueueIsRight
<1> QED BY <1>1, <1>2, <1>3, <1>4, StepCases

\* A slot in the approval queue counts for nobody, unless it had counted before its name was
\* protected, moved or merged and no rebuild has come since.
THEOREM NobodyCountsWaiting == Spec => []WaitingSlotsDoNotCount
<1>1. Init => QueueIsRight
  BY DEF Init, QueueIsRight
<1>2. TypeOK /\ QueueIsRight /\ [Next]_vars => QueueIsRight'
  BY QueueInductive
<1>3. QueueIsRight => WaitingSlotsDoNotCount
  BY DEF QueueIsRight, WaitingSlotsDoNotCount
<1> QED BY <1>1, <1>2, <1>3, TypeCorrect, PTL DEF Spec

-----------------------------------------------------------------------------
(* The stream *)

\* What the collector is done with lies behind, and what it tries again was handled up to
\* the newest state that was.
StreamInOrder ==
  /\ accepted \in Nat /\ handled \subseteq 1 .. accepted /\ settled \subseteq 1 .. accepted
  /\ last \in handled \/ (last = 0 /\ handled = {})
  /\ lost \subseteq settled \ handled
  /\ \A e \in settled \ (givenUp \cup lost) : e =< last /\ \A d \in Stream!Open : e < d
  /\ \A d \in Stream!Open, e \in handled : d =< e => d \in handled

LEMMA OpenAreNumbers ==
  ASSUME StreamInOrder
  PROVE  last \in Nat /\ \A d \in Stream!Open : d \in Nat /\ d > 0
<1>1. \A d \in 1 .. accepted : d \in Nat /\ d > 0
  BY DEF StreamInOrder
<1>2. \A d \in Stream!Open : d \in 1 .. accepted
  BY DEF Stream!Open
<1>3. last \in 1 .. accepted \/ last = 0
  BY DEF StreamInOrder
<1> QED BY <1>1, <1>2, <1>3

LEMMA StreamStaysInOrder ==
  ASSUME StreamInOrder, Stream!Next \/ UNCHANGED streamVars
  PROVE  StreamInOrder'
<1>1. CASE Stream!Accept
  <2>1. PICK gone \in SUBSET Stream!Open :
          /\ accepted' = accepted + 1 /\ settled' = settled \cup gone /\ givenUp' = givenUp \cup gone
          /\ UNCHANGED <<handled, lost, last>>
    BY <1>1 DEF Stream!Accept
  <2>2. Stream!Open' \subseteq Stream!Open \cup {accepted + 1}
    BY <2>1 DEF Stream!Open, StreamInOrder
  <2>3. settled' \ (givenUp' \cup lost') \subseteq settled \ (givenUp \cup lost)
    BY <2>1
  <2>4. \A d \in settled \cup handled : d \in Nat /\ d < accepted + 1
    BY DEF StreamInOrder
  <2>5. settled' \subseteq 1 .. accepted' /\ handled' \subseteq 1 .. accepted'
    BY <2>1 DEF StreamInOrder, Stream!Open
  <2> QED BY <2>1, <2>2, <2>3, <2>4, <2>5 DEF StreamInOrder
<1>2. ASSUME NEW e \in Stream!Open, Stream!Handle(e)
      PROVE  StreamInOrder'
  <2>1. /\ handled' = handled \cup {e} /\ last' = e /\ UNCHANGED <<accepted, settled, givenUp, lost>>
        /\ (\A d \in Stream!Open : e =< d) \/ (e > last /\ \A d \in Stream!Open : d < e => d =< last)
    BY <1>2 DEF Stream!Handle
  <2>2. Stream!Open' = Stream!Open /\ e \in 1 .. accepted
    BY <2>1 DEF Stream!Open
  <2>3. \A d \in Stream!Open : d =< e => d \in handled'
    <3> SUFFICES ASSUME NEW d \in Stream!Open, d =< e, d # e PROVE d \in handled
      BY <2>1
    <3>1. d \in Nat /\ e \in Nat /\ d < e
      BY OpenAreNumbers
    <3>2. e > last /\ d =< last
      BY <2>1, <3>1
    <3>3. last \in handled
      BY <3>1, <3>2, OpenAreNumbers DEF StreamInOrder
    <3> QED BY <3>2, <3>3 DEF StreamInOrder
  <2>4. \A d \in Stream!Open', h \in handled' : d =< h => d \in handled'
    BY <2>1, <2>2, <2>3 DEF StreamInOrder
  <2>5. \A h \in settled' \ (givenUp' \cup lost') : h =< last' /\ \A d \in Stream!Open' : h < d
    <3>0. \A h \in 1 .. accepted : h \in Nat
      BY DEF StreamInOrder
    <3>1. \A h \in settled \ (givenUp \cup lost) : h < e /\ h \in Nat /\ e \in Nat
      BY <3>0, OpenAreNumbers DEF StreamInOrder
    <3>2. \A h \in settled \ (givenUp \cup lost) : \A d \in Stream!Open : h < d
      BY DEF StreamInOrder
    <3> QED BY <2>1, <2>2, <3>1, <3>2
  <2>6. settled' \subseteq 1 .. accepted' /\ lost' \subseteq settled' \ handled'
    BY <2>1 DEF StreamInOrder, Stream!Open
  <2>7. handled' \subseteq 1 .. accepted' /\ last' \in handled'
    BY <2>1, <2>2 DEF StreamInOrder
  <2>8. accepted' \in Nat
    BY <2>1 DEF StreamInOrder
  <2> QED BY <2>4, <2>5, <2>6, <2>7, <2>8 DEF StreamInOrder
<1>3. CASE Stream!Acknowledge
  <2>1. /\ settled' = settled \cup {e \in Stream!Open : e =< last}
        /\ UNCHANGED <<accepted, handled, givenUp, lost, last>>
    BY <1>3 DEF Stream!Acknowledge
  <2>2. Stream!Open' = {e \in Stream!Open : ~(e =< last)}
    BY <2>1 DEF Stream!Open
  <2>3. last \in Nat /\ \A d \in Stream!Open : d \in Nat
    BY OpenAreNumbers
  <2>4. \A e \in settled' \ (givenUp' \cup lost') : e =< last' /\ \A d \in Stream!Open' : e < d
    <3> SUFFICES ASSUME NEW e \in settled' \ (givenUp' \cup lost') PROVE e =< last' /\ \A d \in Stream!Open' : e < d
      OBVIOUS
    <3>1. CASE e \in settled \ (givenUp \cup lost)
      BY <2>1, <2>2, <3>1 DEF StreamInOrder
    <3>2. CASE e \in Stream!Open /\ e =< last
      BY <2>1, <2>2, <2>3, <3>2
    <3> QED BY <2>1, <3>1, <3>2
  <2>5. settled' \subseteq 1 .. accepted'
    BY <2>1 DEF StreamInOrder, Stream!Open
  <2> QED BY <2>1, <2>2, <2>4, <2>5 DEF StreamInOrder
<1>4. CASE Stream!GiveUp
  <2>1. PICK gone \in SUBSET Stream!Open :
          /\ settled' = settled \cup gone /\ givenUp' = givenUp \cup gone
          /\ UNCHANGED <<accepted, handled, lost, last>>
    BY <1>4 DEF Stream!GiveUp
  <2>2. Stream!Open' \subseteq Stream!Open /\ settled' \ (givenUp' \cup lost') \subseteq settled \ (givenUp \cup lost)
    BY <2>1 DEF Stream!Open
  <2>3. settled' \subseteq 1 .. accepted'
    BY <2>1 DEF StreamInOrder, Stream!Open
  <2> QED BY <2>1, <2>2, <2>3 DEF StreamInOrder
<1>5. CASE Stream!Lose
  <2>1. /\ accepted \in Stream!Open \ handled
        /\ settled' = settled \cup {accepted} /\ lost' = lost \cup {accepted}
        /\ UNCHANGED <<accepted, handled, givenUp, last>>
    BY <1>5 DEF Stream!Lose
  <2>2. /\ Stream!Open' \subseteq Stream!Open
        /\ settled' \ (givenUp' \cup lost') \subseteq settled \ (givenUp \cup lost)
    BY <2>1 DEF Stream!Open
  <2>3. settled' \subseteq 1 .. accepted' /\ lost' \subseteq settled' \ handled'
    BY <2>1 DEF StreamInOrder, Stream!Open
  <2> QED BY <2>1, <2>2, <2>3 DEF StreamInOrder
<1>6. CASE UNCHANGED streamVars
  BY <1>6 DEF streamVars, StreamInOrder, Stream!Open
<1> QED BY <1>1, <1>2, <1>3, <1>4, <1>5, <1>6 DEF Stream!Next

\* Before a state is handled for the first time, the newest of the others was handled last.
LEMMA NewStateFollows ==
  ASSUME StreamInOrder, handled \cap givenUp = {}, NEW e \in Stream!Open, Stream!Handle(e),
         e \notin handled
  PROVE  /\ \A h \in handled : h =< last /\ h < e
         /\ handled # {} => last \in handled
<1>1. ASSUME NEW h \in handled
      PROVE  h =< last /\ h < e
  <2>1. CASE h \in settled
    BY <1>1, <2>1 DEF StreamInOrder
  <2>2. CASE h \notin settled
    <3>1. h \in Stream!Open
      BY <1>1, <2>2 DEF StreamInOrder, Stream!Open
    <3>2. h < e
      BY <1>1 DEF StreamInOrder, Stream!Open
    <3> QED BY <3>1, <3>2 DEF Stream!Handle, Stream!Open, StreamInOrder
  <2> QED BY <2>1, <2>2
<1> QED BY <1>1 DEF StreamInOrder

-----------------------------------------------------------------------------
(* What the archive must hold *)

IsLastOf(e, l) == e \in handled /\ course[e].leg = l /\ \A d \in handled : course[d].leg = l => d =< e

Over(e, l) == Ends(course[e]) \/ \E d \in handled : Before(l, course[d].leg)

\* Expected, as a relation
Wanted(l, x) ==
  \/ x = None /\ \A d \in handled : course[d].leg # l
  \/ \E e \in handled : IsLastOf(e, l) /\ x = IF Over(e, l) THEN course[e] ELSE None

LEMMA WantedIsExpected ==
  ASSUME StreamInOrder, NEW l, NEW x, Wanted(l, x)
  PROVE  Expected(l) = x
<1> DEFINE of == {e \in handled : course[e].leg = l}
<1>1. CASE of = {}
  BY <1>1 DEF Wanted, IsLastOf, Expected, LastOf
<1>2. CASE of # {}
  <2>1. PICK e \in handled : IsLastOf(e, l) /\ x = IF Over(e, l) THEN course[e] ELSE None
    BY <1>2 DEF Wanted
  <2>2. e \in of /\ \A d \in of : d =< e
    BY <2>1 DEF IsLastOf
  <2>3. \A d \in of : d \in Nat /\ d # 0
    BY DEF StreamInOrder
  <2>4. ASSUME NEW d \in of, \A f \in of : f =< d
        PROVE  d = e
    BY <2>2, <2>3, <2>4
  <2>5. (CHOOSE d \in of : \A f \in of : f =< d) = e
    BY <2>2, <2>4
  <2>6. LastOf(l) = e /\ e # 0
    BY <1>2, <2>2, <2>3, <2>5 DEF LastOf
  <2> QED BY <2>1, <2>6 DEF Expected, Over
<1> QED BY <1>1, <1>2

\* The rows of leg l are those payload x yields.
RowsOf(l, x) ==
  \A row \in LegRow : row.leg = l => (row \in legs <=> x # None /\ row \in LegRows(l, x))

-----------------------------------------------------------------------------
(* One state is stored *)

LEMMA SameRows ==
  ASSUME UNCHANGED identity, NEW l
  PROVE  LegRows(l, snapshots[l])' = LegRows(l, snapshots'[l])
BY DEF identity, LegRows, Books, Resolve

\* What Store leaves in archive and rows, leg by leg.
Stored(r, snaps, rows) ==
  /\ match' # None /\ match'.raw = r
  /\ \A l \in LegIds \ {r.leg} : snapshots'[l] = snaps[l]
  /\ snapshots'[r.leg] = IF Ends(r) THEN r ELSE snaps[r.leg]
  /\ \A row \in LegRow : row.leg # r.leg => (row \in legs' <=> row \in rows)
  /\ \A row \in LegRow : row.leg = r.leg =>
       (row \in legs' <=> IF r.legWinner \in Slots THEN row \in LegRows(r.leg, r) ELSE row \in rows)

LEMMA StoreStores ==
  ASSUME NEW r \in Reports, NEW snaps \in [LegIds -> Reports \cup {None}], NEW rows \in SUBSET LegRow,
         Store(r, snaps, rows)
  PROVE  Stored(r, snaps, rows)
<1>1. r.leg \in LegIds /\ (r.legWinner \in Slots => Ends(r))
  BY DEF Report, Ends
<1>2. match' # None /\ match'.raw = r
  <2>1. match' = [leg |-> r.leg, finished |-> r.finished, raw |-> r]
    BY DEF Store
  <2>2. match' \in MatchRow
    BY <2>1 DEF MatchRow, Report
  <2> QED BY <2>1, <2>2
<1>3. snapshots' = IF Ends(r) THEN [snaps EXCEPT ![r.leg] = r] ELSE snaps
  BY DEF Store
<1>4. legs' = IF Ends(r) THEN ApplyLegState(rows, r.leg, r) ELSE rows
  BY DEF Store
<1>5. \A row \in LegRows(r.leg, r) : row.leg = r.leg
  BY DEF LegRows
<1>6. legs' = IF r.legWinner \in Slots THEN {row \in rows : row.leg # r.leg} \cup LegRows(r.leg, r) ELSE rows
  BY <1>1, <1>4 DEF ApplyLegState
<1>7. /\ \A row \in LegRow : row.leg # r.leg => (row \in legs' <=> row \in rows)
      /\ \A row \in LegRow : row.leg = r.leg =>
           (row \in legs' <=> IF r.legWinner \in Slots THEN row \in LegRows(r.leg, r) ELSE row \in rows)
  BY <1>5, <1>6
<1>8. /\ \A l \in LegIds \ {r.leg} : snapshots'[l] = snaps[l]
      /\ snapshots'[r.leg] = IF Ends(r) THEN r ELSE snaps[r.leg]
  BY <1>1, <1>3
<1> QED BY <1>2, <1>7, <1>8 DEF Stored

-----------------------------------------------------------------------------
(* The tables while states are repeated *)

\* State M is the newest.  Everything about earlier legs is final; about its own leg the
\* tables may be those of an earlier state, until it is repeated itself.
Current(M) ==
  /\ \A e \in handled : e =< M
  /\ match # None /\ \E j \in handled : match.raw = course[j] /\ course[j].leg = course[M].leg
  /\ \A l \in LegIds \ {course[M].leg} : Wanted(l, snapshots[l]) /\ RowsOf(l, snapshots[l])
  /\ snapshots[course[M].leg] # None =>
       \E j \in handled : /\ course[j].leg = course[M].leg /\ Ends(course[j])
                          /\ snapshots[course[M].leg] = course[j]
  /\ \A row \in legs : row.leg = course[M].leg =>
       \E j \in handled : course[j].leg = course[M].leg /\ course[j].legWinner \in Slots
  /\ last = M => /\ match.raw = course[M]
                 /\ Wanted(course[M].leg, snapshots[course[M].leg])
                 /\ RowsOf(course[M].leg, snapshots[course[M].leg])

NothingHandled ==
  handled = {} /\ match = None /\ legs = {} /\ \A l \in LegIds : snapshots[l] = None

UpToDate == handled \cap givenUp = {} => NothingHandled \/ \E M \in handled : Current(M)

DeliveryInv ==
  /\ TypeOK /\ RowMirrorsRaw /\ StreamInOrder
  /\ course \in Courses /\ accepted =< Len(course)
  /\ UpToDate

\* The states that have been handled, and the one that comes, are in order.
LEMMA CourseIs ==
  ASSUME course \in Courses, accepted =< Len(course), StreamInOrder
  PROVE  /\ \A e \in 1 .. accepted : course[e] \in Reports /\ course[e].leg \in LegIds /\ e \in Nat
         /\ \A d, e \in 1 .. accepted : d < e => Forward(course[d], course[e])
<1>1. course \in Seq(Reports) /\ \A i, j \in DOMAIN course : i < j => Forward(course[i], course[j])
  BY CoursesAssumption
<1>2. 1 .. accepted \subseteq DOMAIN course
  BY <1>1 DEF StreamInOrder
<1>3. \A e \in 1 .. accepted : course[e] \in Reports /\ e \in Nat
  BY <1>1, <1>2 DEF StreamInOrder
<1> QED BY <1>1, <1>2, <1>3 DEF Report

\* Repeating a state that is stale changes nothing.
LEMMA NothingChanges ==
  ASSUME NEW M, Current(M), UNCHANGED vars, handled' = handled, course' = course, last' = last \/ last' # M
  PROVE  Current(M)'
<1>1. /\ match' = match /\ snapshots' = snapshots /\ legs' = legs /\ UNCHANGED identity
  BY DEF vars, tables
<1>2. \A l, x : Wanted(l, x)' <=> Wanted(l, x)
  BY DEF Wanted, IsLastOf, Over
<1>3. \A l : RowsOf(l, snapshots[l])' <=> RowsOf(l, snapshots[l])
  BY <1>1, SameRows DEF RowsOf
<1>4. \A l : Wanted(l, snapshots[l])' <=> Wanted(l, snapshots[l])
  BY <1>1 DEF Wanted, IsLastOf, Over
<1> QED BY <1>1, <1>3, <1>4 DEF Current

\* What is known of legs and archive, "rows" and "snaps", before a state of leg l is stored.
Prepared(l, snaps, rows) ==
  /\ \A k \in LegIds \ {l} : /\ \A x : x = snaps[k] => Wanted(k, x)'
                             /\ \A row \in LegRow : row.leg = k =>
                                  (row \in rows <=> snaps[k] # None /\ row \in LegRows(k, snaps[k]))
  /\ snaps[l] # None =>
       \E j \in handled' : course[j].leg = l /\ Ends(course[j]) /\ snaps[l] = course[j]
  /\ \A row \in LegRow : row.leg = l /\ row \in rows =>
       \E j \in handled' : course[j].leg = l /\ course[j].legWinner \in Slots

\* Storing the newest state makes archive and legs what they must be.
LEMMA NewestIsStored ==
  ASSUME NEW e \in handled', \A d \in handled' : d =< e, course' = course,
         handled' \subseteq Nat,
         \A d \in handled' : course[d] \in Reports /\ course[d].leg \in LegIds,
         \A d \in handled' : d < e => Forward(course[d], course[e]),
         UNCHANGED identity, TypeOK', NEW snaps, NEW rows,
         Stored(course[e], snaps, rows), Prepared(course[e].leg, snaps, rows)
  PROVE  Current(e)'
<1>0. \A d \in handled' : d = e \/ d < e
  <2>1. \A d, f \in Nat : d =< f => d = f \/ d < f
    OBVIOUS
  <2> QED BY <2>1
<1>1. PICK r, l : r = course[e] /\ l = course[e].leg
  OBVIOUS
<1>2. \A d \in handled' : course[d].leg = l => (Ends(course[d]) => Ends(r)) /\ (course[d].legWinner \in Slots => r.legWinner \in Slots)
  <2> SUFFICES ASSUME NEW d \in handled', course[d].leg = l
               PROVE  (Ends(course[d]) => Ends(r)) /\ (course[d].legWinner \in Slots => r.legWinner \in Slots)
    OBVIOUS
  <2> QED BY <1>0, <1>1 DEF Forward
<1>3. ~ \E d \in handled' : Before(l, course[d].leg)
  <2> SUFFICES ASSUME NEW d \in handled', Before(l, course[d].leg) PROVE FALSE
    OBVIOUS
  <2> QED BY <1>0, <1>1, BeforeIrreflexive DEF Forward
<1>4. r.legWinner \in Slots => Ends(r)
  BY <1>1 DEF Ends
<1>5. r \in Reports /\ r # None /\ l \in LegIds
  BY <1>1
<1>6. snapshots'[l] = IF Ends(r) THEN r ELSE None
  BY <1>1, <1>2 DEF Stored, Prepared
<1>7. \A row \in LegRow : row.leg = l =>
        (row \in legs' <=> r.legWinner \in Slots /\ row \in LegRows(l, r))
  BY <1>1, <1>2 DEF Stored, Prepared
<1>8. r.legWinner \notin Slots => LegRows(l, r) = {}
  BY DEF LegRows
<1>9. Wanted(l, snapshots[l])'
  <2>1. IsLastOf(e, l)' /\ (Over(e, l)' <=> Ends(r))
    BY <1>1, <1>3 DEF IsLastOf, Over
  <2>2. snapshots'[l] = IF Over(e, l)' THEN course'[e] ELSE None
    BY <1>1, <1>6, <2>1
  <2> QED BY <2>1, <2>2 DEF Wanted
<1>10. RowsOf(l, snapshots[l])'
  <2>1. LegRows(l, snapshots[l])' = LegRows(l, snapshots'[l])
    BY SameRows
  <2>2. \A row \in LegRow : row.leg = l =>
          (row \in legs' <=> snapshots'[l] # None /\ row \in LegRows(l, snapshots'[l]))
    BY <1>4, <1>5, <1>6, <1>7, <1>8
  <2> QED BY <2>1, <2>2 DEF RowsOf
<1>11. ASSUME NEW k \in LegIds \ {l}
       PROVE  Wanted(k, snapshots[k])' /\ RowsOf(k, snapshots[k])'
  <2>1. PICK x : x = snaps[k]
    OBVIOUS
  <2>2. snapshots'[k] = x
    BY <1>1, <2>1 DEF Stored
  <2>3. Wanted(k, x)'
    BY <1>1, <2>1 DEF Prepared
  <2>4. LegRows(k, snapshots[k])' = LegRows(k, snapshots'[k])
    BY SameRows
  <2>5. \A row \in LegRow : row.leg = k => (row \in legs' <=> x # None /\ row \in LegRows(k, x))
    BY <1>1, <2>1 DEF Stored, Prepared
  <2>6. RowsOf(k, snapshots[k])'
    BY <2>2, <2>4, <2>5 DEF RowsOf
  <2>7. Wanted(k, snapshots[k])'
    BY <2>2, <2>3 DEF Wanted
  <2> QED BY <2>6, <2>7
<1>12. match' # None /\ match'.raw = r
  BY <1>1 DEF Stored
<1>13. \A row \in legs' : row.leg = l => r.legWinner \in Slots
  BY <1>7 DEF TypeOK
<1>14. snapshots'[l] # None => Ends(r) /\ snapshots'[l] = r
  BY <1>6
<1> QED BY <1>1, <1>9, <1>10, <1>11, <1>12, <1>13, <1>14 DEF Current

-----------------------------------------------------------------------------
(* Each kind of delivery *)

\* What a step that handles state e of the course does to the collector's variables.
Handles(e) ==
  /\ handled' = handled \cup {e} /\ last' = e /\ course' = course
  /\ HandleEvent(course[e])
  /\ TypeOK'

\* No more and no less than the facts about handled states the lemmas below use.
InOrder(S) ==
  /\ S \subseteq Nat
  /\ \A d \in S : course[d] \in Reports /\ course[d].leg \in LegIds
  /\ \A d, f \in S : d < f => Forward(course[d], course[f])

LEMMA HandledInOrder ==
  ASSUME DeliveryInv, NEW S \in SUBSET (1 .. accepted)
  PROVE  InOrder(S)
BY CourseIs DEF DeliveryInv, InOrder

LEMMA StoredNewest ==
  ASSUME InOrder(handled'), NEW e \in handled', \A d \in handled' : d =< e, course' = course,
         UNCHANGED identity, TypeOK', NEW snaps, NEW rows,
         Stored(course[e], snaps, rows), Prepared(course[e].leg, snaps, rows)
  PROVE  Current(e)'
BY NewestIsStored DEF InOrder

\* The first state.
LEMMA Begun ==
  ASSUME TypeOK, NothingHandled, NEW e, Handles(e), InOrder({e})
  PROVE  Current(e)'
<1>1. handled' = {e} /\ match = None /\ course[e] \in Reports
  BY DEF Handles, NothingHandled, InOrder
<1>2. Store(course[e], snapshots, legs)
  BY <1>1 DEF Handles, HandleEvent, FirstState, StaleState, SameLegState, NextLegState
<1>3. Stored(course[e], snapshots, legs)
  BY <1>1, <1>2, StoreStores DEF TypeOK
<1>4. Prepared(course[e].leg, snapshots, legs)
  <2>1. course' = course /\ legs = {} /\ \A k \in LegIds : snapshots[k] = None
    BY DEF Handles, NothingHandled
  <2>2. \A k : k # course[e].leg => Wanted(k, None)'
    BY <1>1, <2>1 DEF Wanted
  <2>3. course[e].leg \in LegIds
    BY DEF InOrder
  <2> QED BY <2>1, <2>2, <2>3 DEF Prepared
<1>5. UNCHANGED identity
  BY <1>2 DEF Store
<1> QED BY <1>1, <1>3, <1>4, <1>5, StoredNewest DEF Handles, InOrder

\* A state not newer than M, repeated.
LEMMA Repeated ==
  ASSUME TypeOK, RowMirrorsRaw, InOrder(handled), NEW M \in handled, Current(M),
         NEW e \in handled, Handles(e)
  PROVE  Current(M)'
<1>0. e =< M /\ e \in Nat /\ M \in Nat /\ handled' = handled /\ course' = course /\ last' = e
  BY DEF Current, Handles, InOrder
<1>1. PICK j \in handled : match.raw = course[j] /\ course[j].leg = course[M].leg
  BY DEF Current
<1>2. match # None /\ match.leg = course[M].leg /\ match.finished = course[j].finished
  BY <1>1 DEF Current, RowMirrorsRaw
<1>3. j =< M /\ j \in Nat
  BY DEF Current, InOrder
<1>4. CASE StaleState(course[e])
  <2>1. CASE e = M
    <3>1. j = M \/ j < M
      BY <1>0, <1>3
    <3>2. course[j].finished => course[M].finished
      BY <3>1 DEF InOrder, Forward
    <3>3. course[M].leg \in LegIds
      BY DEF InOrder
    <3> QED BY <1>2, <1>4, <2>1, <3>2, <3>3, BeforeIrreflexive DEF StaleState, IsStale
  <2>2. CASE e # M
    BY <1>0, <1>4, <2>2, NothingChanges DEF StaleState
  <2> QED BY <2>1, <2>2
<1>5. CASE NextLegState(course[e])
  <2>1. ~Before(course[e].leg, course[M].leg) /\ course[e].leg # course[M].leg
    BY <1>2, <1>5 DEF NextLegState, IsStale
  <2>2. Before(course[M].leg, course[e].leg)
    BY <2>1, BeforeTotal DEF InOrder
  <2>3. e < M
    BY <1>0, <2>1
  <2> QED BY <2>2, <2>3 DEF InOrder, Forward
<1>6. CASE SameLegState(course[e])
  <2>1. course[e].leg = course[M].leg /\ course[e] \in Reports
    BY <1>2, <1>6 DEF SameLegState, InOrder
  <2>2. Stored(course[e], snapshots, legs) /\ UNCHANGED identity
    BY <1>6, <2>1, StoreStores DEF SameLegState, Store, TypeOK
  <2>3. \A l, x : Wanted(l, x)' <=> Wanted(l, x)
    BY <1>0 DEF Wanted, IsLastOf, Over
  <2>4. CASE e = M
    <3>1. \A k \in LegIds \ {course[e].leg} : Wanted(k, snapshots[k]) /\ RowsOf(k, snapshots[k])
      BY <2>1 DEF Current
    <3>2. \A k \in LegIds \ {course[e].leg} : \A x : Wanted(k, x) => Wanted(k, x)'
      BY <2>3
    <3>3. Prepared(course[e].leg, snapshots, legs)
      BY <1>0, <2>1, <3>1, <3>2 DEF Prepared, Current, RowsOf
    <3> QED BY <1>0, <2>2, <2>4, <3>3, StoredNewest DEF Handles, Current
  <2>5. CASE e # M
    <3>1. \A l \in LegIds \ {course[M].leg} : Wanted(l, snapshots[l])' /\ RowsOf(l, snapshots[l])'
      <4> TAKE l \in LegIds \ {course[M].leg}
      <4>1. snapshots'[l] = snapshots[l]
        BY <2>1, <2>2 DEF Stored
      <4>2. Wanted(l, snapshots[l]) /\ RowsOf(l, snapshots[l])
        BY DEF Current
      <4>3. LegRows(l, snapshots[l])' = LegRows(l, snapshots[l])
        BY <2>2, <4>1, SameRows
      <4>4. \A row \in LegRow : row.leg = l => (row \in legs' <=> row \in legs)
        BY <2>1, <2>2 DEF Stored
      <4>5. RowsOf(l, snapshots[l])'
        BY <4>1, <4>2, <4>3, <4>4 DEF RowsOf
      <4>6. Wanted(l, snapshots[l])'
        BY <1>0, <4>1, <4>2 DEF Wanted, IsLastOf, Over
      <4> QED BY <4>5, <4>6
    <3>2. snapshots'[course[M].leg] # None =>
            \E d \in handled' : /\ course[d].leg = course[M].leg /\ Ends(course[d])
                                /\ snapshots'[course[M].leg] = course[d]
      BY <1>0, <2>1, <2>2 DEF Stored, Current
    <3>3. \A row \in legs' : row.leg = course[M].leg =>
            \E d \in handled' : course[d].leg = course[M].leg /\ course[d].legWinner \in Slots
      <4>1. legs' \subseteq LegRow
        BY DEF Handles, TypeOK
      <4> QED BY <1>0, <2>1, <2>2, <4>1 DEF Stored, Current
    <3>4. match' # None /\ match'.raw = course[e]
      BY <2>2 DEF Stored
    <3> QED BY <1>0, <2>1, <2>5, <3>1, <3>2, <3>3, <3>4 DEF Current
  <2> QED BY <2>4, <2>5
<1> QED BY <1>2, <1>4, <1>5, <1>6 DEF Handles, HandleEvent, FirstState

\* What is known of a leg that is neither that of the newest state nor of the next one
\* stays what must be known.
LEMMA WantedElsewhere ==
  ASSUME InOrder(handled), NEW M \in handled, NEW e, handled' = handled \cup {e}, course' = course,
         \A h \in handled : h =< M,
         NEW k \in LegIds, k # course[M].leg, k # course[e].leg, NEW x, Wanted(k, x)
  PROVE  Wanted(k, x)'
<1>1. CASE x = None /\ \A d \in handled : course[d].leg # k
  BY <1>1 DEF Wanted
<1>2. ASSUME NEW d \in handled, IsLastOf(d, k), x = IF Over(d, k) THEN course[d] ELSE None
      PROVE  Wanted(k, x)'
  <2>1. d \in Nat /\ M \in Nat /\ d =< M /\ d # M
    BY <1>2 DEF InOrder, IsLastOf
  <2>2. Forward(course[d], course[M]) /\ course[M].leg \in LegIds
    BY <2>1 DEF InOrder
  <2>3. Before(k, course[M].leg)
    BY <1>2, <2>2, BeforeTotal DEF Forward, IsLastOf
  <2>4. Over(d, k) /\ Over(d, k)'
    BY <2>3 DEF Over
  <2>5. IsLastOf(d, k)'
    BY <1>2 DEF IsLastOf
  <2> QED BY <1>2, <2>4, <2>5 DEF Wanted
<1> QED BY <1>1, <1>2 DEF Wanted

\* No leg after that of the newest state has been heard of.
LEMMA NothingLater ==
  ASSUME InOrder(handled), NEW M \in handled, Current(M), NEW k \in LegIds, Before(course[M].leg, k)
  PROVE  snapshots[k] = None /\ \A row \in LegRow : row.leg = k => row \notin legs
<1>1. k # course[M].leg
  BY BeforeIrreflexive
<1>2. \A d \in handled : course[d].leg # k
  <2> SUFFICES ASSUME NEW d \in handled, course[d].leg = k PROVE FALSE
    OBVIOUS
  <2>1. d \in Nat /\ M \in Nat /\ d =< M /\ d # M
    BY <1>1 DEF InOrder, Current
  <2> QED BY <2>1 DEF InOrder, Forward
<1>3. Wanted(k, snapshots[k]) /\ RowsOf(k, snapshots[k])
  BY <1>1 DEF Current
<1>4. snapshots[k] = None
  BY <1>2, <1>3 DEF Wanted, IsLastOf
<1> QED BY <1>3, <1>4 DEF RowsOf

\* The newest state was the last one, and the next one comes.
LEMMA Continued ==
  ASSUME TypeOK, RowMirrorsRaw, InOrder(handled), NEW M \in handled, Current(M), last = M,
         NEW e, \A h \in handled : h < e, Handles(e), InOrder(handled')
  PROVE  Current(e)'
<1>0. PICK l, m, r : l = course[e].leg /\ m = course[M].leg /\ r = course[M]
  OBVIOUS
<1> USE <1>0
<1>1. /\ handled' = handled \cup {e} /\ course' = course /\ e \in handled' /\ e \in Nat /\ M \in Nat /\ M < e
      /\ \A d \in handled' : d =< e
  BY DEF Handles, InOrder
<1>2. Forward(course[M], course[e]) /\ course[e] \in Reports /\ l \in LegIds /\ m \in LegIds
  BY <1>1 DEF InOrder
<1>3. /\ match # None /\ match.raw = course[M] /\ match.leg = m /\ match.finished = course[M].finished
      /\ Wanted(m, snapshots[m]) /\ RowsOf(m, snapshots[m])
  BY DEF Current, RowMirrorsRaw
<1>4. ~IsStale(course[e])
  BY <1>2, <1>3 DEF IsStale, Forward
<1>5. ASSUME NEW k \in LegIds \ {l, m}
      PROVE  RowsOf(k, snapshots[k]) /\ \A x : x = snapshots[k] => Wanted(k, x)'
  <2>1. Wanted(k, snapshots[k]) /\ RowsOf(k, snapshots[k])
    BY <1>5 DEF Current
  <2>2. \A h \in handled : h =< M
    BY DEF Current
  <2>3. ASSUME NEW x, x = snapshots[k]
        PROVE  Wanted(k, x)'
    <3>1. Wanted(k, x)
      BY <2>1, <2>3
    <3> QED BY <1>1, <1>5, <2>2, <3>1, WantedElsewhere
  <2> QED BY <2>1, <2>3
<1>6. ASSUME NEW snaps, NEW rows, Stored(course[e], snaps, rows), Prepared(l, snaps, rows), UNCHANGED identity
      PROVE  Current(e)'
  BY <1>1, <1>6, StoredNewest DEF Handles
<1>7. CASE SameLegState(course[e])
  <2>1. l = m /\ Store(course[e], snapshots, legs)
    BY <1>3, <1>7 DEF SameLegState
  <2>2. Stored(course[e], snapshots, legs) /\ UNCHANGED identity
    BY <1>2, <2>1, StoreStores DEF Store, TypeOK
  <2>3. snapshots[l] # None =>
          \E j \in handled' : course[j].leg = l /\ Ends(course[j]) /\ snapshots[l] = course[j]
    BY <1>1, <2>1 DEF Current
  <2>4. \A row \in LegRow : row.leg = l /\ row \in legs =>
          \E j \in handled' : course[j].leg = l /\ course[j].legWinner \in Slots
    BY <1>1, <2>1 DEF Current
  <2>5. Prepared(l, snapshots, legs)
    BY <1>5, <2>1, <2>3, <2>4 DEF Prepared, RowsOf
  <2> QED BY <1>6, <2>2, <2>5
<1>8. CASE NextLegState(course[e])
  <2>1. l # m /\ Before(m, l)
    BY <1>2, <1>3, <1>8, BeforeTotal DEF NextLegState, Forward
  <2>2. snapshots[l] = None /\ \A row \in LegRow : row.leg = l => row \notin legs
    BY <1>2, <2>1, NothingLater
  <2>3. IsLastOf(M, m) /\ IsLastOf(M, m)' /\ Over(M, m)'
    BY <1>1, <2>1 DEF Current, IsLastOf, Over
  <2>4. Wanted(m, r)'
    BY <1>1, <2>3 DEF Wanted
  <2>5. CASE match.finished
    <3>1. Stored(course[e], snapshots, legs) /\ UNCHANGED identity
      BY <1>2, <1>8, <2>5, StoreStores DEF NextLegState, Store, TypeOK
    <3>2. Over(M, m)
      BY <1>3, <2>5 DEF Over, Ends
    <3>3. snapshots[m] = course[M]
      <4>1. \A d \in handled : IsLastOf(d, m) => d = M
        BY <2>3 DEF IsLastOf, InOrder
      <4> QED BY <1>3, <2>3, <3>2, <4>1 DEF Wanted, IsLastOf
    <3>4. RowsOf(m, snapshots[m]) /\ \A x : x = snapshots[m] => Wanted(m, x)'
      BY <1>3, <2>4, <3>3
    <3>5. Prepared(l, snapshots, legs)
      BY <1>5, <2>2, <3>4 DEF Prepared, RowsOf
    <3> QED BY <1>6, <3>1, <3>5
  <2>6. CASE ~match.finished
    <3>1. PICK snaps, rows : /\ snaps = [snapshots EXCEPT ![m] = course[M]]
                             /\ rows = ApplyLegState(legs, m, course[M])
      OBVIOUS
    <3>2. Store(course[e], snaps, rows)
      BY <1>3, <1>8, <2>6, <3>1 DEF NextLegState
    <3>3. snaps \in [LegIds -> Reports \cup {None}] /\ rows \in SUBSET LegRow
      BY <1>3, <3>1, ArchiveType
    <3>4. Stored(course[e], snaps, rows) /\ UNCHANGED identity
      BY <1>2, <3>2, <3>3, StoreStores DEF Store
    <3>5. snaps[m] = course[M] /\ \A k \in LegIds \ {m} : snaps[k] = snapshots[k]
      BY <1>2, <3>1 DEF TypeOK
    <3>6. \A row \in LegRow : row.leg # m => (row \in rows <=> row \in legs)
      BY <3>1 DEF ApplyLegState, LegRows
    <3>7. \A row \in LegRow : row.leg = m => (row \in rows <=> row \in LegRows(m, course[M]))
      <4>1. CASE course[M].legWinner \in Slots
        BY <3>1, <4>1 DEF ApplyLegState
      <4>2. CASE course[M].legWinner \notin Slots
        <5>1. ASSUME NEW row \in legs, row.leg = m
              PROVE  FALSE
          <6>1. PICK j \in handled : course[j].leg = m /\ course[j].legWinner \in Slots
            BY <5>1 DEF Current
          <6>2. j \in Nat /\ j =< M
            BY DEF Current, InOrder
          <6>3. j = M \/ j < M
            BY <1>1, <6>2
          <6> QED BY <4>2, <6>1, <6>3 DEF InOrder, Forward
        <5> QED BY <3>1, <4>2, <5>1 DEF ApplyLegState, LegRows
      <4> QED BY <4>1, <4>2
    <3>8. course[M] # None
      BY DEF InOrder
    <3>9. ASSUME NEW k \in LegIds \ {l}
          PROVE  /\ \A x : x = snaps[k] => Wanted(k, x)'
                 /\ \A row \in LegRow : row.leg = k =>
                      (row \in rows <=> snaps[k] # None /\ row \in LegRows(k, snaps[k]))
      <4>1. CASE k = m
        BY <2>4, <3>5, <3>7, <3>8, <4>1
      <4>2. CASE k # m
        BY <1>5, <3>5, <3>6, <4>2 DEF RowsOf
      <4> QED BY <4>1, <4>2
    <3>10. snaps[l] = None /\ \A row \in LegRow : row.leg = l => row \notin rows
      BY <1>2, <2>1, <2>2, <3>5, <3>6
    <3>11. Prepared(l, snaps, rows)
      BY <3>9, <3>10 DEF Prepared
    <3> QED BY <1>6, <3>4, <3>11
  <2> QED BY <2>5, <2>6
<1> QED BY <1>3, <1>4, <1>7, <1>8 DEF Handles, HandleEvent, FirstState, StaleState

-----------------------------------------------------------------------------
(* The invariant *)

LEMMA DeliverKeeps ==
  ASSUME DeliveryInv, NEW e \in Stream!Open, Deliver(e), TypeOK'
  PROVE  UpToDate'
<1> SUFFICES ASSUME (handled \cap givenUp = {})'
             PROVE  \E M \in handled' : Current(M)'
  BY DEF UpToDate
<1>1. /\ Stream!Handle(e) /\ Handles(e) /\ e \in handled' /\ e \in 1 .. accepted
      /\ handled' \subseteq 1 .. accepted /\ handled \subseteq handled'
  BY DEF Deliver, Handles, Stream!Handle, Stream!Open, DeliveryInv, StreamInOrder
<1>2. InOrder(handled) /\ InOrder(handled') /\ InOrder({e})
  BY <1>1, HandledInOrder DEF DeliveryInv, StreamInOrder
<1>3. handled \cap givenUp = {} /\ UpToDate
  BY <1>1 DEF Deliver, Stream!Handle, DeliveryInv
<1>4. CASE NothingHandled
  BY <1>1, <1>2, <1>4, Begun DEF DeliveryInv
<1>5. ASSUME NEW M \in handled, Current(M), e \in handled
      PROVE  Current(M)'
  BY <1>1, <1>2, <1>5, Repeated DEF DeliveryInv
<1>6. ASSUME NEW M \in handled, Current(M), e \notin handled
      PROVE  Current(e)'
  <2>1. \A h \in handled : h =< last /\ h < e
    BY <1>1, <1>3, <1>6, NewStateFollows DEF DeliveryInv
  <2>2. last \in handled /\ \A h \in handled : h =< M
    BY <1>6 DEF DeliveryInv, StreamInOrder, Current
  <2>3. last = M
    BY <1>2, <2>1, <2>2 DEF InOrder
  <2> QED BY <1>1, <1>2, <1>6, <2>1, <2>3, Continued DEF DeliveryInv
<1>7. \A M \in handled : M \in handled'
  BY <1>1
<1> QED BY <1>1, <1>3, <1>4, <1>5, <1>6, <1>7 DEF UpToDate

\* A rebuild finds what the events left.
LEMMA RebuildKeeps ==
  ASSUME DeliveryInv, Rebuild, TypeOK'
  PROVE  UpToDate'
<1>1. /\ UNCHANGED <<handled, givenUp, last, course, snapshots, identity>>
      /\ match # None /\ legs' = SnapshotLegs /\ match' = [leg |-> match.raw.leg, finished |-> match.raw.finished, raw |-> match.raw]
  BY DEF Rebuild, Reprocess, streamVars
<1>2. CASE handled \cap givenUp = {}
  <2>1. PICK M \in handled : Current(M)
    BY <1>1, <1>2 DEF DeliveryInv, UpToDate, NothingHandled
  <2>2. match' # None /\ match'.raw = match.raw
    <3>1. match' \in MatchRow \cup {None} /\ match \in MatchRow
      BY <1>1 DEF DeliveryInv, TypeOK
    <3>2. match' \in MatchRow
      BY <1>1, <3>1 DEF MatchRow, Report
    <3> QED BY <1>1, <3>2
  <2>3. \A l, x : Wanted(l, x) => Wanted(l, x)'
    BY <1>1 DEF Wanted, IsLastOf, Over
  <2>4. \A row \in LegRow : row \in legs' <=> snapshots[row.leg] # None /\ row \in LegRows(row.leg, snapshots[row.leg])
    BY <1>1 DEF SnapshotLegs, LegRows, LegRow
  <2>5. \A l \in LegIds : RowsOf(l, snapshots[l])'
    <3> TAKE l \in LegIds
    <3>1. LegRows(l, snapshots[l])' = LegRows(l, snapshots[l])
      BY <1>1, SameRows
    <3>2. snapshots'[l] = snapshots[l]
      BY <1>1
    <3> QED BY <2>4, <3>1, <3>2 DEF RowsOf
  <2>6. \A l \in LegIds : Wanted(l, snapshots[l]) => Wanted(l, snapshots[l])'
    BY <1>1 DEF Wanted, IsLastOf, Over
  <2>7. \A row \in legs' : row.leg = course[M].leg =>
          \E j \in handled : course[j].leg = course[M].leg /\ course[j].legWinner \in Slots
    <3> SUFFICES ASSUME NEW row \in legs', row.leg = course[M].leg
                 PROVE  \E j \in handled : course[j].leg = course[M].leg /\ course[j].legWinner \in Slots
      OBVIOUS
    <3>1. row \in LegRow
      BY DEF TypeOK
    <3>2. snapshots[course[M].leg] # None /\ row \in LegRows(course[M].leg, snapshots[course[M].leg])
      BY <2>4, <3>1
    <3>3. PICK j \in handled : course[j].leg = course[M].leg /\ snapshots[course[M].leg] = course[j]
      BY <2>1, <3>2 DEF Current
    <3> QED BY <3>2, <3>3 DEF LegRows
  <2>8. course[M].leg \in LegIds
    BY CourseIs DEF DeliveryInv, StreamInOrder
  <2>9. Current(M)'
    BY <1>1, <2>1, <2>2, <2>5, <2>6, <2>7, <2>8 DEF Current
  <2> QED BY <1>1, <2>9 DEF UpToDate
<1>3. CASE handled \cap givenUp # {}
  BY <1>1, <1>3 DEF UpToDate
<1> QED BY <1>2, <1>3

\* Nothing the collector does alone touches the tables.
LEMMA CollectKeeps ==
  ASSUME DeliveryInv, UNCHANGED <<vars, course>>,
         Stream!Accept \/ Stream!Acknowledge \/ Stream!GiveUp \/ Stream!Lose \/ UNCHANGED streamVars
  PROVE  UpToDate'
<1>1. handled' = handled /\ last' = last /\ givenUp \subseteq givenUp' /\ course' = course
  BY DEF Stream!Accept, Stream!Acknowledge, Stream!GiveUp, Stream!Lose, streamVars
<1>2. \A M : Current(M) => Current(M)'
  BY <1>1, NothingChanges
<1>3. NothingHandled => NothingHandled'
  BY <1>1 DEF NothingHandled, vars, tables
<1>4. (handled \cap givenUp = {})' => handled \cap givenUp = {}
  BY <1>1
<1> QED BY <1>1, <1>2, <1>3, <1>4 DEF UpToDate, DeliveryInv

LEMMA DeliveryInductive == DeliveryInv /\ [DeliveryNext]_<<vars, streamVars, course>> => DeliveryInv'
<1> SUFFICES ASSUME DeliveryInv, [DeliveryNext]_<<vars, streamVars, course>>
             PROVE  DeliveryInv'
  OBVIOUS
<1>1. [Next]_vars /\ course' = course
  <2>1. ASSUME NEW e \in Stream!Open, Deliver(e)
        PROVE  [Next]_vars
    <3>1. course[e] \in Reports
      BY <2>1, CourseIs DEF DeliveryInv, Stream!Open
    <3> QED BY <2>1, <3>1 DEF Deliver, Next
  <2> QED BY <2>1 DEF DeliveryNext, Collect, Rebuild, Deliver, Next
<1>2. TypeOK' /\ RowMirrorsRaw'
  BY <1>1, NextType, MirrorsRawInductive DEF DeliveryInv
<1>3. Stream!Next \/ UNCHANGED streamVars
  BY DEF DeliveryNext, Collect, Deliver, Rebuild, Stream!Next
<1>4. StreamInOrder'
  BY <1>3, StreamStaysInOrder DEF DeliveryInv
<1>5. course' \in Courses /\ accepted' =< Len(course')
  <2>1. accepted' = accepted \/ (accepted < Len(course) /\ accepted' = accepted + 1)
    <3>1. CASE Collect
      BY <3>1 DEF Collect, Stream!Accept, Stream!Acknowledge, Stream!GiveUp, Stream!Lose
    <3>2. ASSUME NEW e \in Stream!Open, Deliver(e)
          PROVE  accepted' = accepted
      BY <3>2 DEF Deliver, Stream!Handle
    <3>3. CASE Rebuild \/ UNCHANGED <<vars, streamVars, course>>
      BY <3>3 DEF Rebuild, streamVars
    <3> QED BY <3>1, <3>2, <3>3 DEF DeliveryNext
  <2>2. accepted \in Nat /\ Len(course) \in Nat
    BY CoursesAssumption DEF DeliveryInv, StreamInOrder
  <2> QED BY <1>1, <2>1, <2>2 DEF DeliveryInv
<1>6. UpToDate'
  <2>1. ASSUME NEW e \in Stream!Open, Deliver(e)
        PROVE  UpToDate'
    BY <1>2, <2>1, DeliverKeeps
  <2>2. CASE Rebuild
    BY <1>2, <2>2, RebuildKeeps
  <2>3. CASE Collect \/ UNCHANGED <<vars, streamVars, course>>
    BY <2>3, CollectKeeps DEF Collect
  <2> QED BY <2>1, <2>2, <2>3 DEF DeliveryNext
<1> QED BY <1>2, <1>4, <1>5, <1>6 DEF DeliveryInv

LEMMA DeliveryStarts == DeliveryInit => DeliveryInv
<1> SUFFICES ASSUME DeliveryInit PROVE DeliveryInv
  OBVIOUS
<1>1. TypeOK /\ RowMirrorsRaw
  BY InitType DEF DeliveryInit, Init, RowMirrorsRaw
<1>2. StreamInOrder /\ accepted = 0
  BY DEF DeliveryInit, Stream!Init, Stream!Open, StreamInOrder
<1>3. course \in Courses /\ Len(course) \in Nat
  BY CoursesAssumption DEF DeliveryInit
<1>4. NothingHandled
  BY DEF DeliveryInit, Init, Stream!Init, NothingHandled
<1> QED BY <1>1, <1>2, <1>3, <1>4 DEF DeliveryInv, UpToDate

\* When the newest state was handled last, the invariant says what the tables are.
LEMMA TablesAreExpected == DeliveryInv => RepetitionChangesNothing
<1> SUFFICES ASSUME DeliveryInv, handled # {}, handled \cap givenUp = {}, \A e \in handled : e =< last
             PROVE  /\ match.raw = course[last]
                    /\ snapshots = [l \in LegIds |-> Expected(l)]
                    /\ legs = UNION {LegRows(l, Expected(l)) : l \in {k \in LegIds : Expected(k) # None}}
  BY DEF RepetitionChangesNothing
<1>1. PICK M \in handled : Current(M)
  BY DEF DeliveryInv, UpToDate, NothingHandled
<1>2. last = M
  <2>1. last \in handled
    BY DEF DeliveryInv, StreamInOrder
  <2>2. \A e \in handled : e \in Nat
    BY CourseIs DEF DeliveryInv, StreamInOrder
  <2> QED BY <1>1, <2>1, <2>2 DEF Current
<1>3. match.raw = course[last] /\ \A l \in LegIds : Wanted(l, snapshots[l]) /\ RowsOf(l, snapshots[l])
  BY <1>1, <1>2 DEF Current
<1>4. \A l \in LegIds : Expected(l) = snapshots[l]
  BY <1>3, WantedIsExpected DEF DeliveryInv
<1>5. snapshots = [l \in LegIds |-> Expected(l)]
  BY <1>4 DEF DeliveryInv, TypeOK
<1>6. \A row \in LegRow : row \in legs <=> Expected(row.leg) # None /\ row \in LegRows(row.leg, Expected(row.leg))
  BY <1>3, <1>4 DEF RowsOf, LegRow
<1>7. legs \subseteq LegRow /\ \A l, x : LegRows(l, x) \subseteq {row \in LegRow : row.leg = l}
  BY DEF DeliveryInv, TypeOK, LegRows
<1>8. legs = UNION {LegRows(l, Expected(l)) : l \in {k \in LegIds : Expected(k) # None}}
  <2>1. \A row \in LegRow : row.leg \in LegIds
    BY DEF LegRow
  <2> QED BY <1>6, <1>7, <2>1
<1> QED BY <1>3, <1>5, <1>8

\* However often states are repeated after a failure, and whatever is rebuilt in between:
\* once the newest state is the one handled last, the match, its archive and its legs are
\* what handling each state of the course once yields.
THEOREM RepetitionsChangeNothing == DeliverySpec => []RepetitionChangesNothing
<1> QED BY DeliveryStarts, DeliveryInductive, TablesAreExpected, PTL DEF DeliverySpec

=============================================================================
