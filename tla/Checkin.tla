------------------------------- MODULE Checkin -------------------------------
(***************************************************************************)
(* Check-ins at the boards: server/internal/ingest/checkin.go and           *)
(* server/internal/api/checkin.go.                                          *)
(*                                                                         *)
(* A player who holds his chip to the reader of a board gets a four-digit   *)
(* code that he appends to his name in Autodarts ("Tim#4831").  lookupToken *)
(* decides by board, code and TIME OF PLAY whose code it is, possibly long   *)
(* after the check-in expired: states wait in a collector's queue, and       *)
(* matches are computed anew.                                               *)
(*                                                                         *)
(* Every operation is one transaction.  CheckinByChip reads the chip's owner *)
(* before its transaction; an owner who lost the chip in between is checked  *)
(* in as adminManualCheckin would do it, and one who was deleted is refused  *)
(* by the foreign key.  An unregistered chip is only noted (unknown_chips),  *)
(* which nothing else reads but the list administrators bind chips from.     *)
(***************************************************************************)
EXTENDS Integers

CONSTANTS
  Players,    \* the ids players may have
  Boards, Codes, Chips,
  Nobody,     \* no player
  TTL,        \* how long a check-in lasts
  Early,      \* a code counts that much before it was issued (10 minutes)
  Hold,       \* a code is not issued again for that long (24 hours)
  Keep        \* expired check-ins are deleted after that time (30 days)

\* What the code's constants satisfy.
ConstantsOK ==
  /\ TTL \in Nat \ {0} /\ Early \in Nat /\ Hold \in Nat \ {0} /\ Keep \in Nat
  /\ Early =< Hold
  /\ Nobody \notin Players

CheckinRow == [id : Nat \ {0}, player : Players, board : Boards, code : Codes,
               from : Nat, until : Nat]
Promise    == [player : Players, board : Boards, code : Codes, from : Nat, until : Nat]

VARIABLES
  now,
  registered,  \* the ids of table players
  chips,       \* player_chips: the owner of each chip, or Nobody
  checkins,    \* table checkins
  promises     \* what players were told: the check-ins without the clean-up

vars == <<now, registered, chips, checkins, promises>>

-----------------------------------------------------------------------------
\* lookupToken: whose code it is on board b at time t, as far as the table knows.
ValidRows(b, k, t) ==
  {c \in checkins : c.board = b /\ c.code = k /\ c.from =< t + Early /\ c.until > t}

Holder(b, k, t) ==
  IF ValidRows(b, k, t) = {} THEN Nobody
  ELSE (CHOOSE c \in ValidRows(b, k, t) : \A d \in ValidRows(b, k, t) : d.id =< c.id).player

\* The id SQLite gives the next row.
NewId == IF checkins = {} THEN 1 ELSE 1 + (CHOOSE i \in {c.id : c \in checkins} :
                                             \A d \in checkins : d.id =< i)

\* Faulty variant: only the codes of running check-ins are taken.
FreeAtOnce(b) == {k \in Codes : \A c \in checkins : c.board = b /\ c.code = k => c.until =< now}

\* freshToken draws until it finds one of these.
FreeCodes(b) ==
  {k \in Codes : \A c \in checkins : c.board = b /\ c.code = k => c.until =< now - Hold}

Running(b, p) == {c \in checkins : c.player = p /\ c.board = b /\ c.until > now}

\* CheckinPlayer cleans up in the same transaction.
CleanedUp(rows) == {c \in rows : c.until >= now - Keep}

\* What player was told about the row.
IsOf(q, c) == q.board = c.board /\ q.code = c.code /\ q.from = c.from

Told(c, t) == {IF IsOf(q, c) THEN [q EXCEPT !.until = t] ELSE q : q \in promises}

-----------------------------------------------------------------------------
Init ==
  /\ now = 0
  /\ registered \in SUBSET Players
  /\ chips = [x \in Chips |-> Nobody]
  /\ checkins = {}
  /\ promises = {}

Tick == now' = now + 1 /\ UNCHANGED <<registered, chips, checkins, promises>>

\* CheckinPlayer, first case: the newest running check-in is extended.
Extend(b, p) ==
  \E c \in Running(b, p) :
    /\ \A d \in Running(b, p) : d.id =< c.id
    /\ checkins' = CleanedUp((checkins \ {c}) \cup {[c EXCEPT !.until = now + TTL]})
    /\ promises' = Told(c, now + TTL)
    /\ UNCHANGED <<now, registered, chips>>

\* CheckinPlayer, second case: a new code.  Without a free one it fails.
Issue(b, p) ==
  /\ Running(b, p) = {}
  /\ p \in registered
  /\ \E k \in FreeCodes(b) :
       LET new == [player |-> p, board |-> b, code |-> k, from |-> now, until |-> now + TTL]
           row == [id |-> NewId, player |-> p, board |-> b, code |-> k, from |-> now,
                   until |-> now + TTL]
       IN /\ checkins' = CleanedUp(checkins \cup {row})
          /\ promises' = promises \cup {new}
  /\ UNCHANGED <<now, registered, chips>>

\* adminManualCheckin
CheckinPlayer(b, p) == Extend(b, p) \/ Issue(b, p)

CheckinByChip(b, x) == chips[x] # Nobody /\ CheckinPlayer(b, chips[x])

\* EndCheckin: an expired check-in ends now, too.
EndCheckin(c) ==
  /\ checkins' = (checkins \ {c}) \cup {[c EXCEPT !.until = now]}
  /\ promises' = {IF IsOf(q, c) /\ q.until > now THEN [q EXCEPT !.until = now] ELSE q :
                    q \in promises}
  /\ UNCHANGED <<now, registered, chips>>

\* RegisterChip
RegisterChip(x, p) ==
  /\ p \in registered /\ chips[x] = Nobody
  /\ chips' = [chips EXCEPT ![x] = p]
  /\ UNCHANGED <<now, registered, checkins, promises>>

\* adminDeleteChip
DeleteChip(x) ==
  /\ chips[x] # Nobody
  /\ chips' = [chips EXCEPT ![x] = Nobody]
  /\ UNCHANGED <<now, registered, checkins, promises>>

-----------------------------------------------------------------------------
(* What the administration of players and boards does to check-ins *)

AddPlayer(p) ==
  /\ p \notin registered
  /\ registered' = registered \cup {p}
  /\ UNCHANGED <<now, chips, checkins, promises>>

\* Chips and check-ins go with their player.
RemovePlayer(p) ==
  /\ p \in registered
  /\ registered' = registered \ {p}
  /\ chips' = [x \in Chips |-> IF chips[x] = p THEN Nobody ELSE chips[x]]
  /\ checkins' = {c \in checkins : c.player # p}
  /\ promises' = {q \in promises : q.player # p}
  /\ UNCHANGED now

\* Chips and check-ins of a become b's.
MergePlayers(a, b) ==
  LET moved(p) == IF p = a THEN b ELSE p
  IN /\ {a, b} \subseteq registered /\ a # b
     /\ registered' = registered \ {a}
     /\ chips' = [x \in Chips |-> moved(chips[x])]
     /\ checkins' = {[c EXCEPT !.player = moved(@)] : c \in checkins}
     /\ promises' = {[q EXCEPT !.player = moved(@)] : q \in promises}
     /\ UNCHANGED now

\* The board may be created again, even with the same id.
RemoveBoard(b) ==
  /\ checkins' = {c \in checkins : c.board # b}
  /\ promises' = {q \in promises : q.board # b}
  /\ UNCHANGED <<now, registered, chips>>

Next ==
  \/ Tick
  \/ \E b \in Boards : \/ \E p \in Players : CheckinPlayer(b, p)
                       \/ \E x \in Chips : CheckinByChip(b, x)
                       \/ RemoveBoard(b)
  \/ \E c \in checkins : EndCheckin(c)
  \/ \E x \in Chips : DeleteChip(x) \/ \E p \in Players : RegisterChip(x, p)
  \/ \E p \in Players : AddPlayer(p) \/ RemovePlayer(p) \/ \E a \in Players : MergePlayers(a, p)

Spec == Init /\ [][Next]_vars

-----------------------------------------------------------------------------
(* Properties *)

\* Every row has its columns' types, ids are unique, and no chip or check-in outlives
\* its player.
TypeOK ==
  /\ now \in Nat
  /\ registered \subseteq Players
  /\ chips \in [Chips -> registered \cup {Nobody}]
  /\ checkins \subseteq CheckinRow
  /\ promises \subseteq Promise
  /\ \A c \in checkins : c.player \in registered
  /\ \A c, d \in checkins : c.id = d.id => c = d

\* "Die Spielzeit (playedAt) zaehlt, nicht der Verarbeitungszeitpunkt" (checkin.go
\* 199-201): for 30 days after it ended, a check-in's code is its player's for every
\* time of play from ten minutes before the check-in to its end, although codes are
\* issued again, and check-ins extended, ended early or late, merged and cleaned up.
PromisedCodeWorks ==
  \A q \in promises : now =< q.until + Keep =>
    \A t \in (q.from - Early) .. (q.until - 1) : Holder(q.board, q.code, t) = q.player

=============================================================================
