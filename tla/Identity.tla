------------------------------ MODULE Identity ------------------------------
(***************************************************************************)
(* Who a slot of a match is: resolvePlayer of                              *)
(* server/internal/ingest/ingest.go, and everything administrators do to     *)
(* names, aliases, accounts, protection and assignments between two events.  *)
(*                                                                         *)
(* Each match has one slot here (MatchIngest shows what several slots of one *)
(* match do to each other).  Its "entry" is what Autodarts knows of the      *)
(* player: a name, perhaps with a check-in code, and perhaps an account.     *)
(* Names are normalised names: <<base, 1>>, and <<base, i>> for "base (i)".  *)
(* Display names decide nothing (adminRenamePlayer changes them only).       *)
(* The database has one connection, so a transaction is one step; what an    *)
(* operation does in several transactions are several steps.                 *)
(***************************************************************************)
EXTENDS Integers

CONSTANTS
  Players, Boards, Codes, Chips, Nobody, TTL, Early, Hold, Keep,  \* as in Checkin
  Matches,
  Bases,      \* what guests and accounts may be called
  Accounts,   \* Autodarts user ids
  Variants,   \* how many players of one name there may be
  MaxDelay,   \* how late a match's first state may be handled
  None, NoName, NoCode, NoAccount, NoBoard, Ignored

ASSUME BoundsAssumption == Players \subseteq Nat /\ Variants \in Nat \ {0} /\ MaxDelay \in Nat

ASSUME AbsenceAssumption ==
  /\ None \notin Players \cup {Ignored} /\ Ignored \notin Players
  /\ NoName \notin Bases \cup Accounts
  /\ NoCode \notin Codes /\ NoAccount \notin Accounts /\ NoBoard \notin Boards

VARIABLES
  now, chips, checkins, promises,   \* as in Checkin
  person,    \* table players: a function from the ids in use
  alias,     \* player_aliases: the player of each name, or Nobody
  match,     \* table matches: board, time of play and entry, or None
  override,  \* match_overrides, or None
  pending,   \* match_pending: does the slot wait for approval?
  booked,    \* match_players: the players the slot counts for
  aliasing,  \* what adminAddAlias has tested and not inserted yet, or None
  touched    \* matches whose slot somebody changed since the last rebuild

registered == DOMAIN person

C == INSTANCE Checkin

ASSUME CheckinAssumption == C!ConstantsOK

checkinVars == <<now, chips, checkins, promises>>
nameVars    == <<person, alias>>
matchVars   == <<match, override, pending, booked>>
vars        == <<checkinVars, nameVars, matchVars, aliasing, touched>>

Names == (Bases \cup Accounts \cup {NoName}) \X (1 .. Variants)

Person   == [name : Names, account : Accounts \cup {NoAccount}, protected : BOOLEAN]
Entry    == [name : Bases \cup {NoName}, code : Codes \cup {NoCode},
             account : Accounts \cup {NoAccount}]
Match    == [board : Boards \cup {NoBoard}, played : Int, entry : Entry]
Override == [player : Players \cup {Ignored}, source : {"admin", "checkin"}]

ASSUME RowAssumption == None \notin Match /\ None \notin Override

Main(e) == <<e.name, 1>>

-----------------------------------------------------------------------------
(* resolvePlayer: the rule that decides a slot *)

Owners(x) == {p \in registered : person[p].account = x}

Named(n) == {p \in registered : person[p].name = n}

\* Faulty variant: the main name decides before the alias.
CandidateByMainName(n) ==
  IF Named(n) # {} THEN CHOOSE p \in Named(n) : TRUE
  ELSE alias[n]

\* The alias decides before the main name (SQLite looks at the terms of the OR in their
\* order).
Candidate(n) ==
  IF alias[n] # Nobody THEN alias[n]
  ELSE IF Named(n) # {} THEN CHOOSE p \in Named(n) : TRUE
  ELSE Nobody

\* Faulty variant: whoever brings an account along passes for a protected player.
MustWaitAsGuest(c, e) == person[c].protected /\ e.account = NoAccount

\* A protected player's name needs a code or his account.
MustWait(c, e) == person[c].protected

\* s is the match's row with the board whose check-ins count; c is the candidate.
Rule(m, s, e, c) ==
  IF override[m] # None THEN "override"
  ELSE IF e.name = NoName /\ e.account = NoAccount THEN "ignore"
  ELSE IF e.code # NoCode
       THEN IF C!Holder(s.board, e.code, s.played) # Nobody THEN "code" ELSE "wait"
  ELSE IF e.account # NoAccount /\ Owners(e.account) # {} THEN "account"
  ELSE IF e.name = NoName \/ c = Nobody THEN "new"
  ELSE IF MustWait(c, e) THEN "wait"
  ELSE IF e.account # NoAccount /\ person[c].account # NoAccount THEN "new"
  ELSE "name"

RuleOf(m, s) ==
  Rule(m, s, s.entry, IF s.entry.name = NoName THEN Nobody ELSE Candidate(Main(s.entry)))

\* The player that rule leads to, if he exists already.
OwnerOf(m, s) ==
  CASE RuleOf(m, s) = "override" -> override[m].player
    [] RuleOf(m, s) = "code"     -> C!Holder(s.board, s.entry.code, s.played)
    [] RuleOf(m, s) = "account"  -> CHOOSE p \in Owners(s.entry.account) : TRUE
    [] RuleOf(m, s) = "name"     -> Candidate(Main(s.entry))
    [] OTHER                     -> Nobody

Taken(n) == Named(n) # {}

\* The first free one of "Tim", "Tim (2)", ...; an account without a name is called after
\* its id, and "(2)" if somebody has that name.
FreeNames(e) ==
  LET first == IF e.name = NoName THEN <<e.account, 1>> ELSE Main(e)
      later == {i \in 2 .. Variants : ~Taken(<<e.name, i>>)}
  IN IF ~Taken(first) THEN {first}
     ELSE {<<e.name, i>> : i \in {j \in later : \A k \in later : j =< k}}

\* SQLite gives a new row the id after the greatest one.
NewIds == {p \in Players : (p = 1 \/ p - 1 \in registered) /\ \A q \in registered : q < p}

\* INSERT OR IGNORE INTO player_aliases
AliasIfFree(n, p) == [alias EXCEPT ![n] = IF @ = Nobody THEN p ELSE @]

AddPerson(p, n, x, protect) ==
  /\ person' = [q \in registered \cup {p} |->
                  IF q = p THEN [name |-> n, account |-> x, protected |-> protect] ELSE person[q]]
  /\ alias' = AliasIfFree(n, p)

\* An account is taken over by a player who has none, if nobody else has it.
TakeOver(p, x) ==
  IF x # NoAccount /\ person[p].account = NoAccount /\ Owners(x) = {}
  THEN [person EXCEPT ![p].account = x]
  ELSE person

-----------------------------------------------------------------------------
(* resolvePlayer: one action per rule.  "kept" are the players the match counted for
   before, "waits" tells whether its slot waited. *)

Counts(m, p, kept, waits) ==
  /\ booked' = [booked EXCEPT ![m] = kept \cup ({p} \ {Ignored})]
  /\ pending' = [pending EXCEPT ![m] = waits]

ByOverride(m, s, kept, waits) ==
  /\ RuleOf(m, s) = "override"
  /\ Counts(m, override[m].player, kept, waits)
  /\ UNCHANGED <<nameVars, override>>

Unnamed(m, s, kept, waits) ==
  /\ RuleOf(m, s) = "ignore"
  /\ Counts(m, Ignored, kept, waits)
  /\ UNCHANGED <<nameVars, override>>

\* The code's holder is remembered as the slot's override.
ByCode(m, s, kept) ==
  /\ RuleOf(m, s) = "code"
  /\ override' = [override EXCEPT ![m] = [player |-> OwnerOf(m, s), source |-> "checkin"]]
  /\ Counts(m, OwnerOf(m, s), kept, FALSE)
  /\ UNCHANGED nameVars

\* pending(): an unknown code, or a protected name without a code.
Wait(m, s, kept) ==
  /\ RuleOf(m, s) = "wait"
  /\ Counts(m, Ignored, kept, TRUE)
  /\ UNCHANGED <<nameVars, override>>

ByAccount(m, s, kept, waits) ==
  /\ RuleOf(m, s) = "account"
  /\ Counts(m, OwnerOf(m, s), kept, waits)
  /\ UNCHANGED <<nameVars, override>>

ByName(m, s, kept, waits) ==
  /\ RuleOf(m, s) = "name"
  /\ person' = TakeOver(OwnerOf(m, s), s.entry.account)
  /\ Counts(m, OwnerOf(m, s), kept, waits)
  /\ UNCHANGED <<alias, override>>

ByNewPlayer(m, s, kept, waits) ==
  /\ RuleOf(m, s) = "new"
  /\ \E p \in NewIds, n \in FreeNames(s.entry) :
       /\ AddPerson(p, n, s.entry.account, FALSE)
       /\ Counts(m, p, kept, waits)
  /\ UNCHANGED override

Resolve(m, s, kept, waits) ==
  /\ \/ ByOverride(m, s, kept, waits) \/ Unnamed(m, s, kept, waits)
     \/ ByCode(m, s, kept) \/ Wait(m, s, kept)
     \/ ByAccount(m, s, kept, waits) \/ ByName(m, s, kept, waits)
     \/ ByNewPlayer(m, s, kept, waits)
  /\ UNCHANGED <<checkinVars, aliasing>>

\* HandleEvent, first state of a match.
FirstState(m, b, t, e) ==
  /\ match[m] = None
  /\ match' = [match EXCEPT ![m] = [board |-> b, played |-> t, entry |-> e]]
  /\ Resolve(m, [board |-> b, played |-> t, entry |-> e], {}, FALSE)
  /\ UNCHANGED touched

\* HandleEvent, a later state: the codes of the board that delivers it count, and a match
\* whose board was deleted is that board's from now on.
LaterState(m, b) ==
  /\ match[m] # None
  /\ Resolve(m, [match[m] EXCEPT !.board = b], booked[m], pending[m])
  /\ match' = [match EXCEPT ![m].board = IF @ = NoBoard THEN b ELSE @]
  /\ UNCHANGED touched

\* ReprocessMatch: the codes of the board the match was first reported by count.
Reprocess(m) ==
  /\ match[m] # None
  /\ Resolve(m, match[m], {}, FALSE)
  /\ touched' = [touched EXCEPT ![m] = FALSE]
  /\ UNCHANGED match

-----------------------------------------------------------------------------
(* Administrators *)

Touch(ms) == touched' = [m \in Matches |-> touched[m] \/ m \in ms]

EntriesNamed(n) == {m \in Matches : match[m] # None /\ Main(match[m].entry) = n}

CountingFor(p) == {m \in Matches : p \in booked[m]}

\* ResolvePending and adminReassign, first transaction; the second one is Reprocess.
ResolvePending(m, x) ==
  /\ match[m] # None
  /\ x \in registered \cup {Ignored}
  /\ override' = [override EXCEPT ![m] = [player |-> x, source |-> "admin"]]
  /\ pending' = [pending EXCEPT ![m] = FALSE]
  /\ person' = IF pending[m] /\ x # Ignored THEN TakeOver(x, match[m].entry.account) ELSE person
  /\ Touch({m})
  /\ UNCHANGED <<checkinVars, alias, match, booked, aliasing>>

\* CreatePlayer, by adminCreatePlayer and adminRegisterChip.
CreatePlayer(n, protect) ==
  /\ ~Taken(n)
  /\ \E p \in NewIds : AddPerson(p, n, NoAccount, protect)
  /\ UNCHANGED <<checkinVars, matchVars, aliasing, touched>>

\* adminProtect
Protect(p, on) ==
  /\ p \in registered
  /\ person' = [person EXCEPT ![p].protected = on]
  /\ Touch(CountingFor(p))
  /\ UNCHANGED <<checkinVars, alias, matchVars, aliasing>>

\* adminAddAlias tests that the name is nobody else's ...
CheckAlias(n, p) ==
  /\ aliasing = None
  /\ p \in registered /\ Named(n) \subseteq {p}
  /\ aliasing' = <<n, p>>
  /\ UNCHANGED <<checkinVars, nameVars, matchVars, touched>>

\* ... and inserts the alias in a second statement, which fails if p is gone.
InsertAlias ==
  /\ aliasing # None
  /\ LET n == aliasing[1]  p == aliasing[2]
     IN IF p \in registered
        THEN alias' = [alias EXCEPT ![n] = p] /\ Touch(EntriesNamed(n))
        ELSE UNCHANGED <<alias, touched>>
  /\ aliasing' = None
  /\ UNCHANGED <<checkinVars, person, matchVars>>

\* adminDeleteAlias: any alias but the player's main name.
DeleteAlias(n) ==
  /\ alias[n] # Nobody /\ person[alias[n]].name # n
  /\ alias' = [alias EXCEPT ![n] = Nobody]
  /\ Touch(EntriesNamed(n))
  /\ UNCHANGED <<checkinVars, person, matchVars, aliasing>>

Moved(x, a, b) == IF x = a THEN b ELSE x

\* a's aliases become b's, and a's name an alias of b unless it is one already.
MergedAliases(a, b) ==
  [n \in Names |-> IF n = person[a].name /\ alias[n] = Nobody THEN b ELSE Moved(alias[n], a, b)]

\* adminMerge.  The slots of a that a rebuild would book otherwise: b is protected, or
\* b has an account of his own.
Merge(a, b) ==
  /\ {a, b} \subseteq registered /\ a # b
  /\ person' = [p \in registered \ {a} |->
                  IF p = b /\ person[b].account = NoAccount
                  THEN [person[b] EXCEPT !.account = person[a].account] ELSE person[p]]
  /\ alias' = MergedAliases(a, b)
  /\ override' = [m \in Matches |-> IF override[m] # None /\ override[m].player = a
                                    THEN [override[m] EXCEPT !.player = b] ELSE override[m]]
  /\ booked' = [m \in Matches |-> {Moved(p, a, b) : p \in booked[m]}]
  /\ Touch(IF person[b].protected \/ (person[a].account # NoAccount /\ person[b].account # NoAccount)
           THEN CountingFor(a) ELSE {})
  /\ C!MergePlayers(a, b)
  /\ UNCHANGED <<match, pending, aliasing>>

\* Faulty variant: the aliases stay.
DeletePlayerKeepingAliases(p) ==
  /\ p \in registered
  /\ person' = [q \in registered \ {p} |-> person[q]]
  /\ override' = [m \in Matches |-> IF override[m] # None /\ override[m].player = p
                                    THEN None ELSE override[m]]
  /\ booked' = [m \in Matches |-> booked[m] \ {p}]
  /\ C!RemovePlayer(p)
  /\ UNCHANGED <<alias, match, pending, aliasing, touched>>

\* adminDeletePlayer: everything that refers to the player goes with him.
DeletePlayer(p) ==
  /\ p \in registered
  /\ person' = [q \in registered \ {p} |-> person[q]]
  /\ alias' = [n \in Names |-> IF alias[n] = p THEN Nobody ELSE alias[n]]
  /\ override' = [m \in Matches |-> IF override[m] # None /\ override[m].player = p
                                    THEN None ELSE override[m]]
  /\ booked' = [m \in Matches |-> booked[m] \ {p}]
  /\ C!RemovePlayer(p)
  /\ UNCHANGED <<match, pending, aliasing, touched>>

\* adminDeleteBoard
DeleteBoard(b) ==
  /\ match' = [m \in Matches |-> IF match[m] # None /\ match[m].board = b
                                 THEN [match[m] EXCEPT !.board = NoBoard] ELSE match[m]]
  /\ UNCHANGED <<nameVars, override, pending, booked, aliasing, touched>>
  /\ C!RemoveBoard(b)

\* adminDeleteMatch
DeleteMatch(m) ==
  /\ match[m] # None
  /\ match' = [match EXCEPT ![m] = None]
  /\ override' = [override EXCEPT ![m] = None]
  /\ pending' = [pending EXCEPT ![m] = FALSE]
  /\ booked' = [booked EXCEPT ![m] = {}]
  /\ touched' = [touched EXCEPT ![m] = FALSE]
  /\ UNCHANGED <<checkinVars, nameVars, aliasing>>

\* The operations of Checkin that leave players and boards alone.
CheckinStep(b) ==
  /\ UNCHANGED <<nameVars, matchVars, aliasing, touched>>
  /\ (\E p \in registered : C!CheckinPlayer(b, p)) \/ (\E x \in Chips : C!CheckinByChip(b, x))

ManageCheckins ==
  /\ UNCHANGED <<nameVars, matchVars, aliasing, touched>>
  /\ \/ \E c \in checkins : C!EndCheckin(c)
     \/ \E x \in Chips : C!DeleteChip(x) \/ \E p \in registered : C!RegisterChip(x, p)

Tick == UNCHANGED <<nameVars, matchVars, aliasing, touched>> /\ C!Tick

Report(m, b, delays, entries) ==
  LaterState(m, b) \/ \E d \in delays, e \in entries : FirstState(m, b, now - d, e)

Administer(names) ==
  \/ \E m \in Matches : DeleteMatch(m) \/ \E x \in registered \cup {Ignored} : ResolvePending(m, x)
  \/ \E n \in names : \/ DeleteAlias(n)
                      \/ \E on \in BOOLEAN : CreatePlayer(n, on)
                      \/ \E p \in registered : CheckAlias(n, p)
  \/ \E p \in registered : \/ DeletePlayer(p)
                           \/ \E on \in BOOLEAN : Protect(p, on)
                           \/ \E b \in registered : Merge(p, b)

Init ==
  /\ person = << >>
  /\ alias = [n \in Names |-> Nobody]
  /\ C!Init
  /\ match = [m \in Matches |-> None]
  /\ override = [m \in Matches |-> None]
  /\ pending = [m \in Matches |-> FALSE]
  /\ booked = [m \in Matches |-> {}]
  /\ aliasing = None
  /\ touched = [m \in Matches |-> FALSE]

Next ==
  \/ \E m \in Matches : Reprocess(m) \/ \E b \in Boards : Report(m, b, 0 .. MaxDelay, Entry)
  \/ Administer(Names) \/ InsertAlias \/ \E b \in Boards : DeleteBoard(b)
  \/ (\E b \in Boards : CheckinStep(b)) \/ ManageCheckins \/ Tick

Spec == Init /\ [][Next]_vars

-----------------------------------------------------------------------------
(* Properties *)

Open(m) == match[m] # None /\ ~touched[m]

\* Names and accounts are unique, whatever is merged, taken over and created, and
\* nothing refers to a player who is gone.
TypeOK ==
  /\ person \in [registered -> Person] /\ registered \subseteq Players
  /\ alias \in [Names -> registered \cup {Nobody}]
  /\ match \in [Matches -> Match \cup {None}]
  /\ override \in [Matches -> Override \cup {None}]
  /\ \A m \in Matches : override[m] # None => override[m].player \in registered \cup {Ignored}
  /\ pending \in [Matches -> BOOLEAN]
  /\ booked \in [Matches -> SUBSET registered]
  /\ touched \in [Matches -> BOOLEAN]
  /\ \A p, q \in registered : p # q => /\ person[p].name # person[q].name
                                       /\ person[p].account = person[q].account =>
                                            person[p].account = NoAccount

\* What players were told of their codes stays true under everything administrators do
\* to players and boards.
PromisedCodeWorks == C!PromisedCodeWorks

\* "damit die Zuordnung beim Ingest stabil bleibt" (admin.go 129-130): unless somebody
\* assigned the slot, protected its player or changed its name's alias since the last
\* rebuild, a slot that counts is booked for the one player every later state, from any
\* board, and every rebuild will book it for.
BookingStable ==
  \A m \in Matches : Open(m) /\ booked[m] # {} =>
    \A b \in Boards \cup {match[m].board} :
      booked[m] = {OwnerOf(m, [match[m] EXCEPT !.board = b])}

\* "von einem fremden Autodarts-Account mit gleichem Namen landen in der Freigabe-Queue"
\* (README 99-102): no state and no rebuild starts to count a slot for a protected player
\* without a code, an assignment, or the account he had before; only a merge hands slots on.
ProtectedNeedsProof ==
  [][\A m \in Matches : \A p \in (booked'[m] \ booked[m]) \cap registered :
       person[p].protected =>
         \/ override'[m] # None /\ override'[m].player = p
         \/ match'[m].entry.account \in Accounts \cap {person[p].account}
         \/ booked[m] \ registered' # {}]_vars

\* "Matches unter ihrem Namen zaehlen nur mit gueltigem Check-in-Code oder passender
\* Autodarts-User-ID, sonst Freigabe-Queue" (002_checkin.sql 1-2): no slot of a guest without
\* code or assignment begins to count while a protected player bears the guest's name.
ProtectedNameWaits ==
  [][\A m \in Matches :
       /\ booked[m] = {} /\ booked'[m] # {}
       /\ override'[m] = None /\ match'[m].entry.account = NoAccount
       => \A p \in registered : person[p].protected => person[p].name # Main(match'[m].entry)]_vars

=============================================================================
