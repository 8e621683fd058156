---------------------------- MODULE CheckinProofs ----------------------------
(* Theorems about Checkin, for every choice of players, boards, codes and *)
(* chips and all spans of time the code's constants may have.             *)
EXTENDS Checkin, WellFoundedInduction, TLAPS

-----------------------------------------------------------------------------
(* The inductive invariant *)

SameCode(c, d) == c.board = d.board /\ c.code = d.code

\* Some number bounds the ids given so far.
IdsBounded == \E n \in Nat : \A c \in checkins : c.id =< n

\* No row began in the future.
RowsBegun == \A c \in checkins : c.from =< now /\ c.from =< c.until

\* When a code is issued again its previous row is over, and it was issued earlier.
Succession ==
  \A c, d \in checkins : SameCode(c, d) /\ c.id < d.id => c.until =< now /\ c.from < d.from

\* No promise was made in the future.
PromisesBegun == \A q \in promises : q.from =< now /\ q.from =< q.until

\* The row of a promise is the same player's and lasts as long at least.
Covered == \A q \in promises, c \in checkins : IsOf(q, c) => q.player = c.player /\ q.until =< c.until

\* It is there for 30 days.
Kept == \A q \in promises : now =< q.until + Keep => \E c \in checkins : IsOf(q, c)

\* A code is issued again 24 hours after the promise at the earliest.
Spaced ==
  \A q \in promises, c \in checkins, d \in checkins :
    IsOf(q, c) /\ SameCode(c, d) /\ c.id < d.id => d.from >= q.until + Hold

IInv == /\ TypeOK /\ IdsBounded /\ RowsBegun /\ Succession /\ PromisesBegun
        /\ Covered /\ Kept /\ Spaced

-----------------------------------------------------------------------------
(* The id of the next row *)

\* A nonempty set of numbers has a smallest one.
LEMMA Smallest ==
  ASSUME NEW T, T \subseteq Nat, T # {}
  PROVE  \E x \in T : \A y \in T : x =< y
<1> DEFINE R == OpToRel(<, Nat)
<1>1. \E x \in T : \A y \in T : ~ (<<y, x>> \in R)
  <2> HIDE DEF R
  <2>1. IsWellFoundedOn(R, Nat)
    BY NatLessThanWellFounded DEF R
  <2> QED BY <2>1, WFMin
<1>2. \A y, x \in Nat : <<y, x>> \in R <=> y < x
  BY DEF OpToRel
<1>3. PICK x \in T : \A y \in T : ~ (<<y, x>> \in R)
  <2> HIDE DEF R
  <2> QED BY <1>1
<1>4. ASSUME NEW y \in T
      PROVE  x =< y
  <2>1. x \in Nat /\ y \in Nat
    OBVIOUS
  <2>2. ~ (y < x)
    <3> HIDE DEF R
    <3> QED BY <1>2, <1>3, <2>1
  <2> QED BY <2>1, <2>2
<1> QED BY <1>4

\* Some of the rows is the newest one.
LEMMA Newest ==
  ASSUME TypeOK, IdsBounded, NEW rows, rows \subseteq checkins, rows # {}
  PROVE  \E c \in rows : \A d \in rows : d.id =< c.id
<1>0. \A c \in rows : c.id \in Nat \ {0}
  BY DEF TypeOK, CheckinRow
<1> DEFINE T == {n \in Nat : \A c \in rows : c.id =< n}
<1>1. PICK n \in T : \A k \in T : n =< k
  <2>1. T # {}
    BY DEF IdsBounded
  <2> QED BY <2>1, Smallest
<1>2. \E c \in rows : c.id = n
  <2>1. SUFFICES ASSUME \A c \in rows : c.id # n
                 PROVE  FALSE
    OBVIOUS
  <2>2. \A c \in rows : c.id < n
    BY <1>0, <1>1, <2>1
  <2>3. n - 1 \in T
    BY <1>0, <1>1, <2>2
  <2> QED BY <1>1, <2>3
<1> QED BY <1>1, <1>2

\* A code's holder exists.
LEMMA HolderIsRegistered ==
  ASSUME TypeOK, IdsBounded, NEW b, NEW k, NEW t
  PROVE  Holder(b, k, t) \in registered \cup {Nobody}
<1> DEFINE V == ValidRows(b, k, t)
<1>1. V \subseteq checkins
  BY DEF ValidRows
<1>2. CASE V = {}
  BY <1>2 DEF Holder
<1>3. CASE V # {}
  <2>1. \E c \in V : \A d \in V : d.id =< c.id
    <3> HIDE DEF V
    <3> QED BY <1>1, <1>3, Newest
  <2>2. (CHOOSE c \in V : \A d \in V : d.id =< c.id) \in V
    <3> HIDE DEF V
    <3> QED BY <2>1
  <2>3. \A c \in V : c.player \in registered
    BY <1>1 DEF TypeOK
  <2> QED BY <1>3, <2>2, <2>3 DEF Holder
<1> QED BY <1>2, <1>3

\* NewId exceeds the ids of all rows: CHOOSE finds the largest one.
LEMMA NewIdIsNew ==
  ASSUME TypeOK, IdsBounded
  PROVE  NewId \in Nat \ {0} /\ \A c \in checkins : c.id < NewId
<1>0. \A c \in checkins : c.id \in Nat \ {0}
  BY DEF TypeOK, CheckinRow
<1>1. CASE checkins = {}
  BY <1>1 DEF NewId
<1>2. CASE checkins # {}
  <2> DEFINE top == CHOOSE i \in {c.id : c \in checkins} : \A d \in checkins : d.id =< i
  <2>3. \E n \in {c.id : c \in checkins} : \A d \in checkins : d.id =< n
    BY <1>2, Newest
  <2>4. top \in {c.id : c \in checkins} /\ \A d \in checkins : d.id =< top
    BY <2>3
  <2>5. NewId = 1 + top
    BY <1>2 DEF NewId
  <2> HIDE DEF top
  <2>6. top \in Nat \ {0}
    BY <1>0, <2>4
  <2>7. \A c \in checkins : c.id < top + 1
    BY <1>0, <2>4, <2>6
  <2> QED BY <2>5, <2>6, <2>7
<1> QED BY <1>1, <1>2

-----------------------------------------------------------------------------
(* The invariant keeps the promise *)

\* In a state of IInv the newest row that is valid at a time of the promise is its own.
LEMMA PromiseKept ==
  ASSUME ConstantsOK, IInv
  PROVE  PromisedCodeWorks
<1> SUFFICES ASSUME NEW q \in promises, now =< q.until + Keep,
                    NEW t \in (q.from - Early) .. (q.until - 1)
             PROVE  Holder(q.board, q.code, t) = q.player
  BY DEF PromisedCodeWorks
<1> DEFINE V == ValidRows(q.board, q.code, t)
<1>1. PICK c \in checkins : IsOf(q, c)
  BY DEF IInv, Kept
<1>2. /\ q.from \in Nat /\ q.until \in Nat /\ Early \in Nat /\ Hold \in Nat /\ Early =< Hold
      /\ \A d \in checkins : d.id \in Nat /\ d.from \in Nat /\ d.until \in Nat
  BY DEF IInv, TypeOK, Promise, CheckinRow, ConstantsOK
<1>3. c \in V
  <2>1. c.until >= q.until /\ c.from = q.from
    BY <1>1, <1>2 DEF IInv, Covered, IsOf
  <2> QED BY <1>1, <1>2, <2>1 DEF ValidRows, IsOf
<1>4. ASSUME NEW d \in V
      PROVE  d.id =< c.id
  <2>1. SUFFICES ASSUME c.id < d.id
                 PROVE  FALSE
    BY <1>2 DEF ValidRows
  <2>2. d.from >= q.until + Hold
    BY <1>1, <2>1 DEF IInv, Spaced, ValidRows, IsOf, SameCode
  <2>3. d.from =< t + Early
    BY DEF ValidRows
  <2> QED BY <1>2, <2>2, <2>3 DEF ValidRows
<1>5. ASSUME NEW e \in V, \A d \in V : d.id =< e.id
      PROVE  e = c
  <2>1. e.id = c.id
    BY <1>2, <1>3, <1>4, <1>5 DEF ValidRows
  <2> QED BY <2>1 DEF IInv, TypeOK, ValidRows
<1>6. Holder(q.board, q.code, t) = c.player
  <2> HIDE DEF V
  <2>1. V # {} /\ (CHOOSE e \in V : \A d \in V : d.id =< e.id) = c
    BY <1>3, <1>4, <1>5
  <2> QED BY <2>1 DEF Holder, V
<1> QED BY <1>1, <1>6 DEF IInv, Covered

-----------------------------------------------------------------------------
(* Every action keeps the invariant *)

\* The types as facts about the members.
LEMMA Members ==
  ASSUME ConstantsOK, TypeOK
  PROVE  /\ now \in Nat /\ TTL \in Nat \ {0} /\ Early \in Nat /\ Hold \in Nat \ {0} /\ Keep \in Nat
         /\ \A c \in checkins : c \in CheckinRow /\ c.id \in Nat \ {0} /\ c.player \in registered
                                /\ c.from \in Nat /\ c.until \in Nat
         /\ \A q \in promises : q \in Promise /\ q.from \in Nat /\ q.until \in Nat
BY DEF ConstantsOK, TypeOK, CheckinRow, Promise

\* Rows of one code that began at the same time are the same row.
LEMMA OneRow ==
  ASSUME ConstantsOK, IInv, NEW c \in checkins, NEW d \in checkins, SameCode(c, d), c.from = d.from
  PROVE  c = d
<1>1. c.id \in Nat /\ d.id \in Nat /\ c.from \in Nat /\ d.from \in Nat
  BY Members DEF IInv
<1>2. SameCode(d, c)
  BY DEF SameCode
<1>3. ~(c.id < d.id) /\ ~(d.id < c.id)
  BY <1>1, <1>2 DEF IInv, Succession
<1>4. c.id = d.id
  BY <1>1, <1>3
<1> QED BY <1>4 DEF IInv, TypeOK

LEMMA InitInductive ==
  ASSUME ConstantsOK, Init
  PROVE  IInv
<1>1. TypeOK
  BY DEF Init, TypeOK
<1>2. IdsBounded
  BY DEF Init, IdsBounded
<1> QED BY <1>1, <1>2 DEF Init, IInv, RowsBegun, Succession, PromisesBegun, Covered, Kept, Spaced

LEMMA TickInductive ==
  ASSUME ConstantsOK, IInv, Tick
  PROVE  IInv'
<1> USE Members DEF IInv, Tick
<1>1. TypeOK'
  BY DEF TypeOK
<1>2. IdsBounded'
  BY DEF IdsBounded
<1>3. RowsBegun' /\ PromisesBegun'
  BY DEF RowsBegun, PromisesBegun
<1>4. Succession'
  BY DEF Succession, SameCode
<1>5. Covered' /\ Spaced'
  BY DEF Covered, Spaced, IsOf, SameCode
<1>6. Kept'
  BY DEF Kept, IsOf
<1> QED BY <1>1, <1>2, <1>3, <1>4, <1>5, <1>6

\* Chips and new players do not touch check-ins.
LEMMA BystanderInductive ==
  ASSUME ConstantsOK, IInv, UNCHANGED <<now, checkins, promises>>,
         registered \subseteq registered', registered' \subseteq Players,
         chips' \in [Chips -> registered' \cup {Nobody}]
  PROVE  IInv'
<1>1. TypeOK'
  BY DEF IInv, TypeOK
<1>2. /\ IdsBounded' /\ RowsBegun' /\ Succession' /\ PromisesBegun'
      /\ Covered' /\ Kept' /\ Spaced'
  BY DEF IInv, IdsBounded, RowsBegun, Succession, PromisesBegun, Covered, Kept, Spaced, IsOf, SameCode
<1> QED BY <1>1, <1>2 DEF IInv

\* Check-ins and promises disappear together.
LEMMA RemovalInductive ==
  ASSUME ConstantsOK, IInv, now' = now,
         checkins' \subseteq checkins, promises' \subseteq promises,
         registered' \subseteq registered, \A c \in checkins' : c.player \in registered',
         chips' \in [Chips -> registered' \cup {Nobody}],
         \A q \in promises', c \in checkins : IsOf(q, c) => c \in checkins'
  PROVE  IInv'
<1>1. TypeOK'
  BY DEF IInv, TypeOK
<1>2. IdsBounded' /\ RowsBegun' /\ Succession' /\ PromisesBegun'
  BY DEF IInv, IdsBounded, RowsBegun, Succession, PromisesBegun, SameCode
<1>3. Covered' /\ Spaced'
  BY DEF IInv, Covered, Spaced, IsOf, SameCode
<1>4. Kept'
  <2> SUFFICES ASSUME NEW q \in promises', now' =< q.until + Keep
               PROVE  \E c \in checkins' : IsOf(q, c)
    BY DEF Kept, IsOf
  <2>1. PICK c \in checkins : IsOf(q, c)
    BY DEF IInv, Kept
  <2> QED BY <2>1
<1> QED BY <1>1, <1>2, <1>3, <1>4 DEF IInv

LEMMA RemovePlayerInductive ==
  ASSUME ConstantsOK, IInv, NEW p \in Players, RemovePlayer(p)
  PROVE  IInv'
<1>1. chips' \in [Chips -> registered' \cup {Nobody}]
  BY DEF IInv, TypeOK, RemovePlayer
<1>2. \A c \in checkins' : c.player \in registered'
  BY DEF IInv, TypeOK, RemovePlayer
<1>3. \A q \in promises', c \in checkins : IsOf(q, c) => c \in checkins'
  BY DEF IInv, Covered, RemovePlayer
<1>4. /\ now' = now /\ checkins' \subseteq checkins /\ promises' \subseteq promises
      /\ registered' \subseteq registered
  BY DEF RemovePlayer
<1> QED BY <1>1, <1>2, <1>3, <1>4, RemovalInductive

LEMMA RemoveBoardInductive ==
  ASSUME ConstantsOK, IInv, NEW b \in Boards, RemoveBoard(b)
  PROVE  IInv'
<1>1. \A q \in promises', c \in checkins : IsOf(q, c) => c \in checkins'
  BY DEF RemoveBoard, IsOf
<1>2. /\ now' = now /\ checkins' \subseteq checkins /\ promises' \subseteq promises
      /\ registered' \subseteq registered /\ \A c \in checkins' : c.player \in registered'
      /\ chips' \in [Chips -> registered' \cup {Nobody}]
  BY DEF IInv, TypeOK, RemoveBoard
<1> QED BY <1>1, <1>2, RemovalInductive

\* Merging renames rows and promises alike.
LEMMA MergePlayersInductive ==
  ASSUME ConstantsOK, IInv, NEW a \in Players, NEW b \in Players, MergePlayers(a, b)
  PROVE  IInv'
<1> DEFINE moved(p) == IF p = a THEN b ELSE p
           row(c) == [c EXCEPT !.player = moved(@)]
<1>1. /\ now' = now /\ a # b /\ a \in registered /\ b \in registered /\ registered' = registered \ {a}
      /\ chips' = [x \in Chips |-> moved(chips[x])]
      /\ checkins' = {row(c) : c \in checkins} /\ promises' = {row(q) : q \in promises}
  BY DEF MergePlayers
<1>2. ASSUME NEW c \in checkins
      PROVE  /\ row(c) \in CheckinRow /\ row(c).id = c.id /\ SameCode(row(c), c)
             /\ row(c).from = c.from /\ row(c).until = c.until /\ row(c).player = moved(c.player)
             /\ row(c).player \in registered'
             /\ row(c).board = c.board /\ row(c).code = c.code
  <2>1. c \in CheckinRow /\ c.player \in registered
    BY Members DEF IInv
  <2>2. b \in registered' /\ registered \subseteq Players
    BY <1>1 DEF IInv, TypeOK
  <2> QED BY <1>1, <2>1, <2>2 DEF CheckinRow, SameCode
<1>3. ASSUME NEW q \in promises
      PROVE  /\ row(q) \in Promise /\ row(q).from = q.from /\ row(q).until = q.until
             /\ row(q).player = moved(q.player) /\ row(q).board = q.board /\ row(q).code = q.code
  BY Members DEF IInv, Promise
<1> HIDE DEF row
<1>4. TypeOK'
  <2>1. chips' \in [Chips -> registered' \cup {Nobody}]
    BY <1>1 DEF IInv, TypeOK, ConstantsOK
  <2>2. \A c, d \in checkins' : c.id = d.id => c = d
    BY <1>1, <1>2 DEF IInv, TypeOK
  <2>3. checkins' \subseteq CheckinRow /\ promises' \subseteq Promise
    BY <1>1, <1>2, <1>3
  <2>4. \A c \in checkins' : c.player \in registered'
    BY <1>1, <1>2
  <2> QED BY <1>1, <2>1, <2>2, <2>3, <2>4 DEF IInv, TypeOK
<1>5. IdsBounded'
  BY <1>1, <1>2 DEF IInv, IdsBounded
<1>6. RowsBegun' /\ PromisesBegun'
  BY <1>1, <1>2, <1>3 DEF IInv, RowsBegun, PromisesBegun
<1>7. Succession'
  <2> SUFFICES ASSUME NEW c \in checkins, NEW d \in checkins, SameCode(row(c), row(d)), row(c).id < row(d).id
               PROVE  row(c).until =< now' /\ row(c).from < row(d).from
    BY <1>1 DEF Succession
  <2> QED BY <1>1, <1>2 DEF IInv, Succession, SameCode
<1>8. \A q \in promises, c \in checkins : IsOf(row(q), row(c)) <=> IsOf(q, c)
  BY <1>2, <1>3 DEF IsOf
<1>9. Covered'
  BY <1>1, <1>2, <1>3, <1>8 DEF IInv, Covered, IsOf
<1>10. Kept'
  <2> SUFFICES ASSUME NEW q \in promises, now =< q.until + Keep
               PROVE  \E c \in checkins' : IsOf(row(q), c)
    BY <1>1, <1>3 DEF Kept, IsOf
  <2>1. PICK c \in checkins : IsOf(q, c)
    BY DEF IInv, Kept
  <2> QED BY <1>1, <1>8, <2>1
<1>11. Spaced'
  <2> SUFFICES ASSUME NEW q \in promises, NEW c \in checkins, NEW d \in checkins,
                      IsOf(row(q), row(c)), SameCode(row(c), row(d)), row(c).id < row(d).id
               PROVE  row(d).from >= row(q).until + Hold
    BY <1>1 DEF Spaced, IsOf, SameCode
  <2>1. IsOf(q, c) /\ SameCode(c, d) /\ c.id < d.id
    BY <1>2, <1>8 DEF SameCode
  <2> QED BY <1>2, <1>3, <2>1 DEF IInv, Spaced
<1> QED BY <1>4, <1>5, <1>6, <1>7, <1>9, <1>10, <1>11 DEF IInv

\* An ended check-in ends its promise, if it was not over already.
LEMMA EndCheckinInductive ==
  ASSUME ConstantsOK, IInv, NEW c \in checkins, EndCheckin(c)
  PROVE  IInv'
<1> DEFINE e == [c EXCEPT !.until = now]
           end(q) == IF IsOf(q, c) /\ q.until > now THEN [q EXCEPT !.until = now] ELSE q
<1>1. /\ now' = now /\ registered' = registered /\ chips' = chips
      /\ checkins' = (checkins \ {c}) \cup {e}
      /\ promises' = {end(q) : q \in promises}
  BY DEF EndCheckin
<1>2. /\ e \in CheckinRow /\ e.id = c.id /\ e.player = c.player /\ e.board = c.board /\ e.code = c.code
      /\ e.from = c.from /\ e.until = now
  BY Members DEF IInv, CheckinRow
<1>3. ASSUME NEW q \in promises
      PROVE  /\ end(q) \in Promise /\ end(q).player = q.player /\ end(q).board = q.board /\ end(q).code = q.code
             /\ end(q).from = q.from /\ end(q).until =< q.until /\ end(q).until \in Nat
             /\ IsOf(q, c) => end(q).until =< now
             /\ end(q).until = q.until \/ end(q).until = now
  BY Members DEF IInv, Promise
<1> HIDE DEF e, end
\* Each row stands for one that was there before.
<1>4. ASSUME NEW d \in checkins'
      PROVE  \E o \in checkins :
               /\ d.id = o.id /\ d.player = o.player /\ d.board = o.board /\ d.code = o.code /\ d.from = o.from
               /\ (d = o /\ o # c) \/ (d = e /\ o = c)
  BY <1>1, <1>2
<1>5. TypeOK'
  <2>1. \A d, k \in checkins' : d.id = k.id => d = k
    BY <1>4 DEF IInv, TypeOK
  <2>2. checkins' \subseteq CheckinRow /\ promises' \subseteq Promise
    BY <1>1, <1>2, <1>3 DEF IInv, TypeOK
  <2>3. \A d \in checkins' : d.player \in registered
    BY <1>1, <1>2 DEF IInv, TypeOK
  <2> QED BY <1>1, <2>1, <2>2, <2>3 DEF IInv, TypeOK
<1>6. IdsBounded'
  BY <1>4 DEF IInv, IdsBounded
<1>7. RowsBegun' /\ PromisesBegun'
  BY <1>1, <1>2, <1>3 DEF IInv, RowsBegun, PromisesBegun
<1>8. Succession'
  <2> SUFFICES ASSUME NEW d \in checkins', NEW k \in checkins', SameCode(d, k), d.id < k.id
               PROVE  d.until =< now /\ d.from < k.from
    BY <1>1 DEF Succession
  <2> PICK o \in checkins : d.id = o.id /\ SameCode(d, o) /\ d.from = o.from /\ (d = o \/ d = e)
    BY <1>4 DEF SameCode
  <2> PICK p \in checkins : k.id = p.id /\ SameCode(k, p) /\ k.from = p.from
    BY <1>4 DEF SameCode
  <2>1. o.until =< now /\ o.from < p.from
    BY DEF IInv, Succession, SameCode
  <2> QED BY <1>2, <2>1, Members DEF IInv
<1>9. Covered'
  <2> SUFFICES ASSUME NEW q \in promises, NEW d \in checkins', IsOf(end(q), d)
               PROVE  end(q).player = d.player /\ end(q).until =< d.until
    BY <1>1 DEF Covered, IsOf
  <2> PICK o \in checkins : /\ d.player = o.player /\ d.board = o.board /\ d.code = o.code /\ d.from = o.from
                            /\ (d = o /\ o # c) \/ (d = e /\ o = c)
    BY <1>4
  <2>1. IsOf(q, o)
    BY <1>3 DEF IsOf
  <2>2. q.player = o.player /\ q.until =< o.until
    BY <2>1 DEF IInv, Covered
  <2>3. CASE d = o
    BY <1>3, <2>2, <2>3, Members DEF IInv
  <2>4. CASE d = e /\ o = c
    BY <1>2, <1>3, <2>1, <2>2, <2>4
  <2> QED BY <2>3, <2>4
<1>10. Kept'
  <2> SUFFICES ASSUME NEW q \in promises, now =< end(q).until + Keep
               PROVE  \E d \in checkins' : IsOf(end(q), d)
    BY <1>1 DEF Kept, IsOf
  <2>1. now =< q.until + Keep
    BY <1>3, Members DEF IInv
  <2>2. PICK o \in checkins : IsOf(q, o)
    BY <2>1 DEF IInv, Kept
  <2>3. CASE o = c
    BY <1>1, <1>2, <1>3, <2>2, <2>3 DEF IsOf
  <2>4. CASE o # c
    BY <1>1, <1>3, <2>2, <2>4 DEF IsOf
  <2> QED BY <2>3, <2>4
<1>11. Spaced'
  <2> SUFFICES ASSUME NEW q \in promises, NEW d \in checkins', NEW k \in checkins',
                      IsOf(end(q), d), SameCode(d, k), d.id < k.id
               PROVE  k.from >= end(q).until + Hold
    BY <1>1 DEF Spaced, IsOf, SameCode
  <2> PICK o \in checkins : d.id = o.id /\ d.board = o.board /\ d.code = o.code /\ d.from = o.from
    BY <1>4
  <2> PICK p \in checkins : k.id = p.id /\ k.board = p.board /\ k.code = p.code /\ k.from = p.from
    BY <1>4
  <2>1. IsOf(q, o) /\ SameCode(o, p) /\ o.id < p.id
    BY <1>3 DEF IsOf, SameCode
  <2>2. p.from >= q.until + Hold
    BY <2>1 DEF IInv, Spaced
  <2> QED BY <1>3, <2>2, Members DEF IInv
<1> QED BY <1>5, <1>6, <1>7, <1>8, <1>9, <1>10, <1>11 DEF IInv

\* The clean-up deletes no row a promise of the last 30 days needs.
LEMMA CleanedUpKeeps ==
  ASSUME ConstantsOK, TypeOK, NEW rows, NEW c \in rows, NEW u \in Nat, c.until \in Nat,
         u =< c.until, now =< u + Keep
  PROVE  c \in CleanedUp(rows)
BY Members DEF CleanedUp

\* The newest running row is the newest of its code; its promise grows with it.
LEMMA ExtendInductive ==
  ASSUME ConstantsOK, IInv, NEW b \in Boards, NEW p \in Players, Extend(b, p)
  PROVE  IInv'
<1>0. PICK c \in Running(b, p) :
        /\ checkins' = CleanedUp((checkins \ {c}) \cup {[c EXCEPT !.until = now + TTL]})
        /\ promises' = Told(c, now + TTL)
        /\ UNCHANGED <<now, registered, chips>>
  BY DEF Extend
<1> DEFINE e == [c EXCEPT !.until = now + TTL]
           rows == (checkins \ {c}) \cup {e}
           told(q) == IF IsOf(q, c) THEN [q EXCEPT !.until = now + TTL] ELSE q
<1>1. /\ now' = now /\ registered' = registered /\ chips' = chips
      /\ checkins' = CleanedUp(rows) /\ checkins' \subseteq rows
      /\ promises' = {told(q) : q \in promises}
  BY <1>0 DEF Told, CleanedUp
<1>2. /\ e \in CheckinRow /\ e.id = c.id /\ e.player = c.player /\ e.board = c.board /\ e.code = c.code
      /\ e.from = c.from /\ e.until = now + TTL /\ c \in checkins /\ c.until > now
  BY Members DEF IInv, CheckinRow, Running
<1>3. ASSUME NEW q \in promises
      PROVE  /\ told(q) \in Promise /\ told(q).player = q.player /\ told(q).board = q.board
             /\ told(q).code = q.code /\ told(q).from = q.from /\ told(q).until \in Nat
             /\ IsOf(q, c) => told(q).until = now + TTL
             /\ ~IsOf(q, c) => told(q) = q
  BY Members DEF IInv, Promise
<1> HIDE DEF e, told, rows
<1>4. ASSUME NEW d \in rows
      PROVE  \E o \in checkins :
               /\ d.id = o.id /\ d.player = o.player /\ d.board = o.board /\ d.code = o.code /\ d.from = o.from
               /\ (d = o /\ o # c) \/ (d = e /\ o = c)
  BY <1>1, <1>2 DEF rows
\* No row of the same code is newer than c: it would have come when c was over.
<1>5. ASSUME NEW d \in checkins, SameCode(c, d), c.id < d.id
      PROVE  FALSE
  BY <1>2, <1>5, Members DEF IInv, Succession
<1>6. TypeOK'
  <2>1. \A d, k \in rows : d.id = k.id => d = k
    BY <1>4 DEF IInv, TypeOK
  <2>2. rows \subseteq CheckinRow /\ promises' \subseteq Promise
    BY <1>1, <1>2, <1>3 DEF IInv, TypeOK, rows
  <2>3. \A d \in rows : d.player \in registered
    BY <1>2 DEF IInv, TypeOK, rows
  <2> QED BY <1>1, <2>1, <2>2, <2>3 DEF IInv, TypeOK
<1>7. IdsBounded'
  <2>1. PICK n \in Nat : \A d \in checkins : d.id =< n
    BY DEF IInv, IdsBounded
  <2>2. \A d \in rows : d.id =< n
    BY <1>4, <2>1
  <2> QED BY <1>1, <2>2 DEF IdsBounded
<1>8. RowsBegun'
  <2>1. \A d \in rows : d.from =< now /\ d.from =< d.until
    BY <1>2, Members DEF IInv, RowsBegun, rows
  <2> QED BY <1>1, <2>1 DEF RowsBegun
<1>9. PromisesBegun'
  <2> SUFFICES ASSUME NEW q \in promises
               PROVE  told(q).from =< now /\ told(q).from =< told(q).until
    BY <1>1 DEF PromisesBegun
  <2>1. q.from =< now /\ q.from =< q.until
    BY DEF IInv, PromisesBegun
  <2>2. CASE IsOf(q, c)
    BY <1>3, <2>1, <2>2, Members DEF IInv
  <2>3. CASE ~IsOf(q, c)
    BY <1>3, <2>1, <2>3
  <2> QED BY <2>2, <2>3
<1>10. Succession'
  <2> SUFFICES ASSUME NEW d \in rows, NEW k \in rows, SameCode(d, k), d.id < k.id
               PROVE  d.until =< now /\ d.from < k.from
    BY <1>1 DEF Succession
  <2> PICK o \in checkins : /\ d.id = o.id /\ d.board = o.board /\ d.code = o.code /\ d.from = o.from
                            /\ (d = o /\ o # c) \/ (d = e /\ o = c)
    BY <1>4
  <2> PICK m \in checkins : k.id = m.id /\ k.board = m.board /\ k.code = m.code /\ k.from = m.from
    BY <1>4
  <2>1. SameCode(o, m) /\ o.id < m.id
    BY DEF SameCode
  <2>2. o.until =< now /\ o.from < m.from
    BY <2>1 DEF IInv, Succession
  <2>3. o # c
    BY <1>5, <2>1
  <2> QED BY <2>2, <2>3
<1>11. Covered'
  <2> SUFFICES ASSUME NEW q \in promises, NEW d \in rows, IsOf(told(q), d)
               PROVE  told(q).player = d.player /\ told(q).until =< d.until
    BY <1>1 DEF Covered, IsOf
  <2> PICK o \in checkins : /\ d.player = o.player /\ d.board = o.board /\ d.code = o.code /\ d.from = o.from
                            /\ (d = o /\ o # c) \/ (d = e /\ o = c)
    BY <1>4
  <2>1. IsOf(q, o)
    BY <1>3 DEF IsOf
  <2>2. q.player = o.player /\ q.until =< o.until
    BY <2>1 DEF IInv, Covered
  <2>3. CASE d = o /\ o # c
    <3>1. ~IsOf(q, c)
      BY <1>2, <2>1, <2>3, OneRow DEF IsOf, SameCode
    <3> QED BY <1>3, <2>2, <2>3, <3>1
  <2>4. CASE d = e /\ o = c
    BY <1>2, <1>3, <2>1, <2>2, <2>4, Members DEF IInv
  <2> QED BY <2>3, <2>4
<1>12. Kept'
  <2> SUFFICES ASSUME NEW q \in promises, now =< told(q).until + Keep
               PROVE  \E d \in checkins' : IsOf(told(q), d)
    BY <1>1 DEF Kept, IsOf
  <2>1. CASE IsOf(q, c)
    <3>1. e \in CleanedUp(rows)
      BY <1>2, Members, CleanedUpKeeps DEF IInv, rows
    <3> QED BY <1>1, <1>2, <1>3, <2>1, <3>1 DEF IsOf
  <2>2. CASE ~IsOf(q, c)
    <3>1. told(q) = q
      BY <1>3, <2>2
    <3>2. PICK o \in checkins : IsOf(q, o)
      BY <3>1 DEF IInv, Kept
    <3>3. o \in rows /\ q.until =< o.until /\ q.until \in Nat /\ o.until \in Nat
      BY <2>2, <3>2, Members DEF IInv, Covered, rows
    <3>4. o \in CleanedUp(rows)
      BY <3>1, <3>3, CleanedUpKeeps DEF IInv
    <3> QED BY <1>1, <3>1, <3>2, <3>4
  <2> QED BY <2>1, <2>2
<1>13. Spaced'
  <2> SUFFICES ASSUME NEW q \in promises, NEW d \in rows, NEW k \in rows,
                      IsOf(told(q), d), SameCode(d, k), d.id < k.id
               PROVE  k.from >= told(q).until + Hold
    BY <1>1 DEF Spaced, IsOf, SameCode
  <2> PICK o \in checkins : d.id = o.id /\ d.board = o.board /\ d.code = o.code /\ d.from = o.from
    BY <1>4
  <2> PICK m \in checkins : k.id = m.id /\ k.board = m.board /\ k.code = m.code /\ k.from = m.from
    BY <1>4
  <2>1. IsOf(q, o) /\ SameCode(o, m) /\ o.id < m.id
    BY <1>3 DEF IsOf, SameCode
  <2>2. m.from >= q.until + Hold
    BY <2>1 DEF IInv, Spaced
  <2>3. ~IsOf(q, c)
    <3>1. SUFFICES ASSUME IsOf(q, c)
                   PROVE  FALSE
      OBVIOUS
    <3>2. o = c
      BY <1>2, <2>1, <3>1, OneRow DEF IsOf, SameCode
    <3> QED BY <1>5, <2>1, <3>2
  <2> QED BY <1>3, <2>2, <2>3
<1> QED BY <1>6, <1>7, <1>8, <1>9, <1>10, <1>11, <1>12, <1>13 DEF IInv

\* A new code: every earlier row of it ended a day ago.
LEMMA IssueInductive ==
  ASSUME ConstantsOK, IInv, NEW b \in Boards, NEW p \in Players, Issue(b, p)
  PROVE  IInv'
<1>0. PICK k \in FreeCodes(b) :
        /\ checkins' = CleanedUp(checkins \cup {[id |-> NewId, player |-> p, board |-> b, code |-> k,
                                                 from |-> now, until |-> now + TTL]})
        /\ promises' = promises \cup {[player |-> p, board |-> b, code |-> k, from |-> now, until |-> now + TTL]}
        /\ UNCHANGED <<now, registered, chips>> /\ p \in registered
  BY DEF Issue
<1> DEFINE e == [id |-> NewId, player |-> p, board |-> b, code |-> k, from |-> now, until |-> now + TTL]
           n == [player |-> p, board |-> b, code |-> k, from |-> now, until |-> now + TTL]
           rows == checkins \cup {e}
<1>1. /\ now' = now /\ registered' = registered /\ chips' = chips /\ p \in registered
      /\ checkins' = CleanedUp(rows) /\ checkins' \subseteq rows
      /\ promises' = promises \cup {n}
  BY <1>0 DEF CleanedUp
<1>2. /\ e \in CheckinRow /\ e.player = p /\ e.board = b /\ e.code = k /\ e.from = now /\ e.until = now + TTL
      /\ \A d \in checkins : d.id < e.id
  BY NewIdIsNew, Members DEF IInv, CheckinRow, FreeCodes
<1>3. n \in Promise /\ n.player = p /\ n.board = b /\ n.code = k /\ n.from = now /\ n.until = now + TTL
  BY Members DEF IInv, Promise, FreeCodes
<1> HIDE DEF e, n, rows
\* The code's earlier rows and promises.
<1>4. ASSUME NEW d \in checkins, SameCode(d, e)
      PROVE  d.until =< now - Hold /\ d.from < now
  <2>1. d.until =< now - Hold
    BY <1>2, <1>4 DEF FreeCodes, SameCode
  <2> QED BY <2>1, Members DEF IInv, RowsBegun
<1>5. ASSUME NEW q \in promises, q.board = b, q.code = k
      PROVE  q.from < now
  <2>1. CASE now =< q.until + Keep
    <3>1. PICK o \in checkins : IsOf(q, o)
      BY <2>1 DEF IInv, Kept
    <3> QED BY <1>2, <1>4, <1>5, <3>1 DEF IsOf, SameCode
  <2>2. CASE ~(now =< q.until + Keep)
    BY <2>2, Members DEF IInv, PromisesBegun
  <2> QED BY <2>1, <2>2
<1>6. \A q \in promises : ~IsOf(q, e)
  BY <1>2, <1>5, Members DEF IInv, IsOf
<1>7. \A d \in checkins : ~IsOf(n, d)
  BY <1>2, <1>3, <1>4, Members DEF IInv, IsOf, SameCode
<1>8. TypeOK'
  <2>1. \A c, d \in rows : c.id = d.id => c = d
    BY <1>2, Members DEF IInv, TypeOK, rows, CheckinRow
  <2>2. rows \subseteq CheckinRow /\ promises' \subseteq Promise
    BY <1>1, <1>2, <1>3 DEF IInv, TypeOK, rows
  <2>3. \A d \in rows : d.player \in registered
    BY <1>1, <1>2 DEF IInv, TypeOK, rows
  <2> QED BY <1>1, <2>1, <2>2, <2>3 DEF IInv, TypeOK
<1>9. IdsBounded'
  <2>1. \A d \in rows : d.id =< e.id
    BY <1>2, Members DEF IInv, rows, CheckinRow
  <2>2. e.id \in Nat
    BY <1>2 DEF CheckinRow
  <2> QED BY <1>1, <2>1, <2>2 DEF IdsBounded
<1>10. RowsBegun'
  <2>1. \A d \in rows : d.from =< now /\ d.from =< d.until
    BY <1>2, Members DEF IInv, RowsBegun, rows
  <2> QED BY <1>1, <2>1 DEF RowsBegun
<1>11. PromisesBegun'
  BY <1>1, <1>3, Members DEF IInv, PromisesBegun
<1>12. Succession'
  <2> SUFFICES ASSUME NEW c \in rows, NEW d \in rows, SameCode(c, d), c.id < d.id
               PROVE  c.until =< now /\ c.from < d.from
    BY <1>1 DEF Succession
  <2>1. CASE c \in checkins /\ d \in checkins
    BY <2>1 DEF IInv, Succession
  <2>2. CASE c \in checkins /\ d = e
    BY <1>2, <1>4, <2>2, Members DEF IInv
  <2>3. c # e
    <3>1. \A x \in rows : ~(e.id < x.id)
      BY <1>2, Members DEF IInv, rows, CheckinRow
    <3> QED BY <3>1
  <2> QED BY <2>1, <2>2, <2>3 DEF rows
<1>13. Covered'
  <2> SUFFICES ASSUME NEW q \in promises \cup {n}, NEW c \in rows, IsOf(q, c)
               PROVE  q.player = c.player /\ q.until =< c.until
    BY <1>1 DEF Covered, IsOf
  <2>1. CASE q \in promises /\ c \in checkins
    BY <2>1 DEF IInv, Covered
  <2>2. CASE q = n /\ c = e
    BY <1>2, <1>3, <2>2, Members DEF IInv
  <2> QED BY <1>6, <1>7, <2>1, <2>2 DEF rows
<1>14. Kept'
  <2> SUFFICES ASSUME NEW q \in promises \cup {n}, now =< q.until + Keep
               PROVE  \E c \in CleanedUp(rows) : IsOf(q, c)
    BY <1>1 DEF Kept, IsOf
  <2>1. CASE q \in promises
    <3>1. PICK o \in checkins : IsOf(q, o)
      BY <2>1 DEF IInv, Kept
    <3>2. o \in rows /\ q.until =< o.until /\ q.until \in Nat /\ o.until \in Nat
      BY <2>1, <3>1, Members DEF IInv, Covered, rows
    <3>3. o \in CleanedUp(rows)
      BY <3>2, CleanedUpKeeps DEF IInv
    <3> QED BY <3>1, <3>3
  <2>2. CASE q = n
    <3>1. e \in CleanedUp(rows)
      BY <1>2, Members, CleanedUpKeeps DEF IInv, rows
    <3> QED BY <1>2, <1>3, <2>2, <3>1 DEF IsOf
  <2> QED BY <2>1, <2>2
<1>15. Spaced'
  <2> SUFFICES ASSUME NEW q \in promises \cup {n}, NEW c \in rows, NEW d \in rows,
                      IsOf(q, c), SameCode(c, d), c.id < d.id
               PROVE  d.from >= q.until + Hold
    BY <1>1 DEF Spaced, IsOf, SameCode
  <2>1. c \in checkins
    <3>1. \A x \in rows : ~(e.id < x.id)
      BY <1>2, Members DEF IInv, rows, CheckinRow
    <3> QED BY <3>1 DEF rows
  <2>2. q \in promises
    BY <1>7, <2>1
  <2>3. CASE d \in checkins
    BY <2>1, <2>2, <2>3 DEF IInv, Spaced
  <2>4. CASE d = e
    <3>1. c.until =< now - Hold /\ q.until =< c.until
      BY <1>4, <2>1, <2>2, <2>4 DEF IInv, Covered
    <3> QED BY <1>2, <2>1, <2>2, <2>4, <3>1, Members DEF IInv
  <2> QED BY <2>3, <2>4 DEF rows
<1> QED BY <1>8, <1>9, <1>10, <1>11, <1>12, <1>13, <1>14, <1>15 DEF IInv

-----------------------------------------------------------------------------
(* The theorems *)

LEMMA NextInductive ==
  ASSUME ConstantsOK, IInv, [Next]_vars
  PROVE  IInv'
<1>1. CASE Tick
  BY <1>1, TickInductive
<1>2. ASSUME NEW b \in Boards, NEW p \in Players, CheckinPlayer(b, p)
      PROVE  IInv'
  BY <1>2, ExtendInductive, IssueInductive DEF CheckinPlayer
<1>3. ASSUME NEW b \in Boards, NEW x \in Chips, CheckinByChip(b, x)
      PROVE  IInv'
  <2>1. chips[x] \in Players
    BY <1>3 DEF CheckinByChip, IInv, TypeOK
  <2> QED BY <1>2, <1>3, <2>1 DEF CheckinByChip
<1>4. ASSUME NEW b \in Boards, RemoveBoard(b)
      PROVE  IInv'
  BY <1>4, RemoveBoardInductive
<1>5. ASSUME NEW c \in checkins, EndCheckin(c)
      PROVE  IInv'
  BY <1>5, EndCheckinInductive
<1>6. ASSUME NEW x \in Chips, DeleteChip(x) \/ \E p \in Players : RegisterChip(x, p)
      PROVE  IInv'
  <2>1. /\ UNCHANGED <<now, checkins, promises>> /\ registered' = registered
        /\ chips' \in [Chips -> registered' \cup {Nobody}]
    BY <1>6 DEF DeleteChip, RegisterChip, IInv, TypeOK
  <2> QED BY <2>1, BystanderInductive DEF IInv, TypeOK
<1>7. ASSUME NEW p \in Players, AddPlayer(p)
      PROVE  IInv'
  <2>1. /\ UNCHANGED <<now, checkins, promises>> /\ registered' = registered \cup {p}
        /\ chips' \in [Chips -> registered' \cup {Nobody}]
    BY <1>7 DEF AddPlayer, IInv, TypeOK
  <2> QED BY <2>1, BystanderInductive DEF IInv, TypeOK
<1>8. ASSUME NEW p \in Players, RemovePlayer(p)
      PROVE  IInv'
  BY <1>8, RemovePlayerInductive
<1>9. ASSUME NEW p \in Players, NEW a \in Players, MergePlayers(a, p)
      PROVE  IInv'
  BY <1>9, MergePlayersInductive
<1>10. CASE UNCHANGED vars
  BY <1>10, BystanderInductive DEF vars, IInv, TypeOK
<1> QED BY <1>1, <1>2, <1>3, <1>4, <1>5, <1>6, <1>7, <1>8, <1>9, <1>10 DEF Next

\* The table keeps its types, its keys and its foreign keys.
THEOREM CheckinTypeCorrect == ASSUME ConstantsOK PROVE Spec => []TypeOK
<1>1. Init => IInv
  BY InitInductive
<1>2. IInv /\ [Next]_vars => IInv'
  BY NextInductive
<1>3. IInv => TypeOK
  BY DEF IInv
<1> QED BY <1>1, <1>2, <1>3, PTL DEF Spec

\* A code once told to a player is his for every time of play from ten minutes before
\* his check-in to its end, until 30 days after it (lookupToken), whatever the spans
\* are as long as a code rests no shorter than it counts ahead.
THEOREM PromisesAreKept == ASSUME ConstantsOK PROVE Spec => []PromisedCodeWorks
<1>1. Init => IInv
  BY InitInductive
<1>2. IInv /\ [Next]_vars => IInv'
  BY NextInductive
<1>3. IInv => PromisedCodeWorks
  BY PromiseKept
<1> QED BY <1>1, <1>2, <1>3, PTL DEF Spec

=============================================================================
