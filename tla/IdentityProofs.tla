---------------------------- MODULE IdentityProofs ----------------------------
(* Identity implements Checkin: whatever happens to players, names and      *)
(* matches, chips and check-ins behave as Checkin says.  So codes keep their *)
(* promise in the whole system, too.                                        *)
EXTENDS Identity, TLAPS

P == INSTANCE CheckinProofs

USE CheckinAssumption

-----------------------------------------------------------------------------
(* Each step of Identity is one of Checkin or leaves its variables alone *)

\* Only the bound on the ids is needed of the state.
Bounded == registered \subseteq Players

\* A step that only involves names and matches, or adds a player.
LEMMA NamesDoNotMatter ==
  ASSUME UNCHANGED checkinVars,
         \/ registered' = registered
         \/ \E p \in Players : p \notin registered /\ registered' = registered \cup {p}
  PROVE  [P!Next]_(P!vars)
BY DEF checkinVars, P!Next, P!vars, P!AddPlayer, registered

LEMMA TakeOverKeepsIds ==
  ASSUME NEW p, NEW x
  PROVE  DOMAIN TakeOver(p, x) = registered
BY DEF TakeOver, registered

LEMMA NewIdsAreNew ==
  ASSUME NEW p \in NewIds
  PROVE  p \in Players /\ p \notin registered
BY BoundsAssumption DEF NewIds

\* resolvePlayer never changes the set of players but by adding one.
LEMMA ResolveAddsAtMostOne ==
  ASSUME NEW m, NEW s, NEW kept, NEW waits, Resolve(m, s, kept, waits)
  PROVE  [P!Next]_(P!vars)
<1>1. UNCHANGED checkinVars
  BY DEF Resolve
<1>2. CASE person' = person
  BY <1>1, <1>2, NamesDoNotMatter DEF registered
<1>3. CASE ByName(m, s, kept, waits)
  BY <1>1, <1>3, TakeOverKeepsIds, NamesDoNotMatter DEF ByName, registered
<1>4. CASE ByNewPlayer(m, s, kept, waits)
  <2>1. PICK p \in NewIds, n \in FreeNames(s.entry) : AddPerson(p, n, s.entry.account, FALSE)
    BY <1>4 DEF ByNewPlayer
  <2>2. registered' = registered \cup {p}
    BY <2>1 DEF AddPerson, registered
  <2> QED BY <1>1, <2>2, NewIdsAreNew, NamesDoNotMatter
<1> QED BY <1>2, <1>3, <1>4 DEF Resolve, ByOverride, Unnamed, ByCode, Wait, ByAccount, nameVars

-----------------------------------------------------------------------------
(* Steps that change chips and check-ins *)

LEMMA MergeIsMergePlayers ==
  ASSUME Bounded, NEW a, NEW b, Merge(a, b)
  PROVE  [P!Next]_(P!vars)
<1>1. C!MergePlayers(a, b)
  BY DEF Merge
<1>2. P!MergePlayers(a, b)
  BY <1>1 DEF C!MergePlayers, P!MergePlayers
<1>3. a \in Players /\ b \in Players
  BY DEF Merge, Bounded
<1> QED BY <1>2, <1>3 DEF P!Next

LEMMA DeletePlayerIsRemovePlayer ==
  ASSUME Bounded, NEW p, DeletePlayer(p)
  PROVE  [P!Next]_(P!vars)
<1>1. C!RemovePlayer(p)
  BY DEF DeletePlayer
<1>2. P!RemovePlayer(p)
  BY <1>1 DEF C!RemovePlayer, P!RemovePlayer
<1>3. p \in Players
  BY DEF DeletePlayer, Bounded
<1> QED BY <1>2, <1>3 DEF P!Next

LEMMA DeleteBoardIsRemoveBoard ==
  ASSUME NEW b \in Boards, DeleteBoard(b)
  PROVE  [P!Next]_(P!vars)
<1>1. C!RemoveBoard(b)
  BY DEF DeleteBoard
<1>2. P!RemoveBoard(b)
  BY <1>1 DEF C!RemoveBoard, P!RemoveBoard
<1> QED BY <1>2 DEF P!Next

\* The two instances of Checkin speak of the same check-ins.
LEMMA SameExtend ==
  ASSUME NEW b, NEW p, C!Extend(b, p)
  PROVE  P!Extend(b, p)
<1>1. C!Running(b, p) = P!Running(b, p)
  BY DEF C!Running, P!Running
<1>2. \A rows : C!CleanedUp(rows) = P!CleanedUp(rows)
  BY DEF C!CleanedUp, P!CleanedUp
<1>3. \A c, t : C!Told(c, t) = P!Told(c, t)
  BY DEF C!Told, P!Told, C!IsOf, P!IsOf
<1> QED BY <1>1, <1>2, <1>3 DEF C!Extend, P!Extend

LEMMA SameIssue ==
  ASSUME NEW b, NEW p, C!Issue(b, p)
  PROVE  P!Issue(b, p)
<1>1. C!Running(b, p) = P!Running(b, p)
  BY DEF C!Running, P!Running
<1>2. \A rows : C!CleanedUp(rows) = P!CleanedUp(rows)
  BY DEF C!CleanedUp, P!CleanedUp
<1>3. C!FreeCodes(b) = P!FreeCodes(b)
  BY DEF C!FreeCodes, P!FreeCodes
<1>4. C!NewId = P!NewId
  BY DEF C!NewId, P!NewId
<1> QED BY <1>1, <1>2, <1>3, <1>4 DEF C!Issue, P!Issue

LEMMA SameCheckinPlayer ==
  ASSUME NEW b, NEW p, C!CheckinPlayer(b, p)
  PROVE  P!CheckinPlayer(b, p)
BY SameExtend, SameIssue DEF C!CheckinPlayer, P!CheckinPlayer

LEMMA CheckinStepIsCheckin ==
  ASSUME Bounded, NEW b \in Boards, CheckinStep(b)
  PROVE  [P!Next]_(P!vars)
<1>1. CASE \E p \in registered : C!CheckinPlayer(b, p)
  BY <1>1, SameCheckinPlayer DEF P!Next, Bounded
<1>2. CASE \E x \in Chips : C!CheckinByChip(b, x)
  BY <1>2, SameCheckinPlayer DEF C!CheckinByChip, P!CheckinByChip, P!Next
<1> QED BY <1>1, <1>2 DEF CheckinStep

LEMMA ManageCheckinsIsCheckin ==
  ASSUME Bounded, ManageCheckins
  PROVE  [P!Next]_(P!vars)
<1>1. CASE \E c \in checkins : C!EndCheckin(c)
  <2>1. PICK c \in checkins : C!EndCheckin(c)
    BY <1>1
  <2>2. \A q : C!IsOf(q, c) <=> P!IsOf(q, c)
    BY DEF C!IsOf, P!IsOf
  <2>3. P!EndCheckin(c)
    BY <2>1, <2>2 DEF C!EndCheckin, P!EndCheckin
  <2> QED BY <2>3 DEF P!Next
<1>2. CASE \E x \in Chips : C!DeleteChip(x)
  BY <1>2 DEF C!DeleteChip, P!DeleteChip, P!Next
<1>3. CASE \E x \in Chips : \E p \in registered : C!RegisterChip(x, p)
  BY <1>3 DEF C!RegisterChip, P!RegisterChip, P!Next, Bounded
<1> QED BY <1>1, <1>2, <1>3 DEF ManageCheckins

-----------------------------------------------------------------------------
(* The refinement *)

LEMMA AdministerIsCheckin ==
  ASSUME Bounded, NEW names, Administer(names)
  PROVE  [P!Next]_(P!vars)
<1>1. CASE \E m \in Matches : DeleteMatch(m)
  BY <1>1, NamesDoNotMatter DEF DeleteMatch, nameVars, registered
<1>2. CASE \E m \in Matches : \E x \in registered \cup {Ignored} : ResolvePending(m, x)
  BY <1>2, NamesDoNotMatter, TakeOverKeepsIds DEF ResolvePending, registered
<1>3. CASE \E n \in names : DeleteAlias(n)
  BY <1>3, NamesDoNotMatter DEF DeleteAlias, registered
<1>4. CASE \E n \in names : \E on \in BOOLEAN : CreatePlayer(n, on)
  <2>1. PICK n \in names, on \in BOOLEAN, p \in NewIds : AddPerson(p, n, NoAccount, on)
    BY <1>4 DEF CreatePlayer
  <2>2. registered' = registered \cup {p}
    BY <2>1 DEF AddPerson, registered
  <2> QED BY <1>4, <2>2, NewIdsAreNew, NamesDoNotMatter DEF CreatePlayer
<1>5. CASE \E n \in names : \E p \in registered : CheckAlias(n, p)
  BY <1>5, NamesDoNotMatter DEF CheckAlias, nameVars, registered
<1>6. CASE \E p \in registered : DeletePlayer(p)
  BY <1>6, DeletePlayerIsRemovePlayer
<1>7. CASE \E p \in registered : \E on \in BOOLEAN : Protect(p, on)
  BY <1>7, NamesDoNotMatter DEF Protect, registered
<1>8. CASE \E p \in registered : \E b \in registered : Merge(p, b)
  BY <1>8, MergeIsMergePlayers
<1> QED BY <1>1, <1>2, <1>3, <1>4, <1>5, <1>6, <1>7, <1>8 DEF Administer

LEMMA StepIsCheckinStep == Bounded /\ [Next]_vars => [P!Next]_(P!vars)
<1> SUFFICES ASSUME Bounded, [Next]_vars PROVE [P!Next]_(P!vars)
  OBVIOUS
<1>1. CASE \E m \in Matches : Reprocess(m)
  BY <1>1, ResolveAddsAtMostOne DEF Reprocess
<1>2. CASE \E m \in Matches : \E b \in Boards : Report(m, b, 0 .. MaxDelay, Entry)
  BY <1>2, ResolveAddsAtMostOne DEF Report, FirstState, LaterState
<1>3. CASE Administer(Names)
  BY <1>3, AdministerIsCheckin
<1>4. CASE InsertAlias
  BY <1>4, NamesDoNotMatter DEF InsertAlias, registered
<1>5. CASE \E b \in Boards : DeleteBoard(b)
  BY <1>5, DeleteBoardIsRemoveBoard
<1>6. CASE \E b \in Boards : CheckinStep(b)
  BY <1>6, CheckinStepIsCheckin
<1>7. CASE ManageCheckins
  BY <1>7, ManageCheckinsIsCheckin
<1>8. CASE Tick
  BY <1>8 DEF Tick, C!Tick, P!Tick, P!Next
<1>9. CASE UNCHANGED vars
  BY <1>9 DEF vars, checkinVars, nameVars, P!vars, registered
<1> QED BY <1>1, <1>2, <1>3, <1>4, <1>5, <1>6, <1>7, <1>8, <1>9 DEF Next

LEMMA CheckinKeepsIds == Bounded /\ [P!Next]_(P!vars) => Bounded'
BY DEF Bounded, P!Next, P!vars, P!Tick, P!CheckinPlayer, P!Extend, P!Issue, P!CheckinByChip,
       P!EndCheckin, P!RegisterChip, P!DeleteChip, P!AddPlayer, P!RemovePlayer, P!MergePlayers,
       P!RemoveBoard

LEMMA InitIsCheckinInit == Init => P!Init /\ Bounded
BY DEF Init, C!Init, P!Init, Bounded, registered

\* Identity implements Checkin: what is done to players, names and matches looks to
\* chips and check-ins like one of the steps Checkin names, or like nothing.
THEOREM ImplementsCheckin == Spec => P!Spec
<1>1. Init => P!Init /\ Bounded
  BY InitIsCheckinInit
<1>2. Bounded /\ [Next]_vars => [P!Next]_(P!vars) /\ Bounded'
  BY StepIsCheckinStep, CheckinKeepsIds
<1> QED BY <1>1, <1>2, PTL DEF Spec, P!Spec

LEMMA ConstantsFit == P!ConstantsOK
BY CheckinAssumption DEF C!ConstantsOK, P!ConstantsOK

LEMMA SameHolder ==
  ASSUME NEW b, NEW k, NEW t
  PROVE  P!Holder(b, k, t) = C!Holder(b, k, t)
<1>1. P!ValidRows(b, k, t) = C!ValidRows(b, k, t)
  BY DEF P!ValidRows, C!ValidRows
<1> QED BY <1>1 DEF P!Holder, C!Holder

LEMMA SamePromise == P!PromisedCodeWorks => PromisedCodeWorks
BY SameHolder DEF P!PromisedCodeWorks, C!PromisedCodeWorks, PromisedCodeWorks

\* Whatever administrators do to players, names and matches, a code is its player's
\* for the time he was told (lookupToken, CheckinPlayer, adminMerge, adminDeletePlayer).
THEOREM CodesKeepTheirPromise == Spec => []PromisedCodeWorks
<1>1. P!Spec => []P!PromisedCodeWorks
  BY P!PromisesAreKept, ConstantsFit
<1>2. P!PromisedCodeWorks => PromisedCodeWorks
  BY SamePromise
<1> QED BY <1>1, <1>2, ImplementsCheckin, PTL

-----------------------------------------------------------------------------
(* The parts of TypeOK *)

\* Names and accounts belong to one player each.
PeopleOK ==
  /\ person \in [registered -> Person] /\ registered \subseteq Players
  /\ \A p, q \in registered : p # q => /\ person[p].name # person[q].name
                                       /\ person[p].account = person[q].account =>
                                            person[p].account = NoAccount

\* Aliases and slots refer to players who exist.
AliasOK == alias \in [Names -> registered \cup {Nobody}]

OverrideOK ==
  /\ override \in [Matches -> Override \cup {None}]
  /\ \A m \in Matches : override[m] # None => override[m].player \in registered \cup {Ignored}

SlotOK == pending \in [Matches -> BOOLEAN] /\ booked \in [Matches -> SUBSET registered]

MatchOK == match \in [Matches -> Match \cup {None}] /\ touched \in [Matches -> BOOLEAN]

LEMMA Parts == TypeOK <=> PeopleOK /\ AliasOK /\ OverrideOK /\ SlotOK /\ MatchOK
BY DEF TypeOK, PeopleOK, AliasOK, OverrideOK, SlotOK, MatchOK

LEMMA NextParts == TypeOK' <=> PeopleOK' /\ AliasOK' /\ OverrideOK' /\ SlotOK' /\ MatchOK'
BY DEF TypeOK, PeopleOK, AliasOK, OverrideOK, SlotOK, MatchOK

\* The references of a state, which more players do not disturb.
RefsOK == PeopleOK /\ AliasOK /\ OverrideOK /\ SlotOK

LEMMA AddPersonOK ==
  ASSUME PeopleOK, AliasOK, NEW p \in NewIds, NEW n \in Names, ~Taken(n),
         NEW x \in Accounts \cup {NoAccount}, x = NoAccount \/ Owners(x) = {},
         NEW protect \in BOOLEAN, AddPerson(p, n, x, protect)
  PROVE  PeopleOK' /\ AliasOK' /\ registered' = registered \cup {p}
<1>1. registered' = registered \cup {p} /\ p \in Players /\ p \notin registered
  BY NewIdsAreNew DEF AddPerson, registered
<1>2. /\ DOMAIN person' = registered'
      /\ person'[p] = [name |-> n, account |-> x, protected |-> protect]
      /\ \A q \in registered : person'[q] = person[q]
  BY <1>1 DEF AddPerson, registered
<1>3. person' \in [registered' -> Person]
  BY <1>1, <1>2 DEF PeopleOK, Person, AddPerson
<1>4. \A q \in registered : person[q].name # n /\ (person[q].account = x => x = NoAccount)
  BY DEF Taken, Named, Owners
<1>5. AliasOK'
  BY <1>1 DEF AliasOK, AddPerson, AliasIfFree
<1>6. PeopleOK'
  BY <1>1, <1>2, <1>3, <1>4 DEF PeopleOK
<1> QED BY <1>1, <1>5, <1>6

LEMMA TakeOverOK ==
  ASSUME PeopleOK, NEW p \in registered, NEW x \in Accounts \cup {NoAccount},
         person' = TakeOver(p, x)
  PROVE  PeopleOK' /\ registered' = registered
<1>1. registered' = registered
  BY TakeOverKeepsIds DEF registered
<1>2. CASE person' = person
  BY <1>1, <1>2 DEF PeopleOK
<1>3. CASE person' # person
  <2>1. /\ x # NoAccount /\ person[p].account = NoAccount /\ Owners(x) = {}
        /\ person' = [person EXCEPT ![p].account = x]
    BY <1>3 DEF TakeOver
  <2>2. person' \in [registered' -> Person]
    BY <1>1, <2>1 DEF PeopleOK, Person
  <2>3. /\ person'[p].account = x /\ person'[p].name = person[p].name
        /\ \A q \in registered : q # p => person'[q] = person[q]
    BY <2>1 DEF PeopleOK, Person
  <2>4. \A q \in registered : person[q].account # x
    BY <2>1 DEF Owners
  <2> QED BY <1>1, <2>1, <2>2, <2>3, <2>4 DEF PeopleOK
<1> QED BY <1>2, <1>3

-----------------------------------------------------------------------------
(* resolvePlayer keeps the references *)

LEMMA FreeNamesAreFree ==
  ASSUME NEW e \in Entry, e.name # NoName \/ e.account # NoAccount, NEW n \in FreeNames(e)
  PROVE  n \in Names /\ ~Taken(n)
<1> DEFINE first == IF e.name = NoName THEN <<e.account, 1>> ELSE Main(e)
           later == {i \in 2 .. Variants : ~Taken(<<e.name, i>>)}
<1>1. e.name \in Bases \cup {NoName} /\ e.account \in Accounts \cup {NoAccount}
  BY DEF Entry
<1>2. CASE ~Taken(first)
  BY <1>1, <1>2, BoundsAssumption DEF FreeNames, Names, Main
<1>3. CASE Taken(first)
  <2>1. PICK i \in later : n = <<e.name, i>>
    BY <1>3 DEF FreeNames
  <2> QED BY <1>1, <2>1, BoundsAssumption DEF Names
<1> QED BY <1>2, <1>3

\* A candidate is a player.
LEMMA CandidateIsRegistered ==
  ASSUME AliasOK, NEW n \in Names
  PROVE  Candidate(n) \in registered \cup {Nobody}
<1>1. CASE alias[n] # Nobody
  BY <1>1 DEF Candidate, AliasOK
<1>2. CASE alias[n] = Nobody /\ Named(n) # {}
  <2>1. (CHOOSE p \in Named(n) : TRUE) \in Named(n)
    BY <1>2
  <2> QED BY <1>2, <2>1 DEF Candidate, Named
<1>3. CASE alias[n] = Nobody /\ Named(n) = {}
  BY <1>3 DEF Candidate
<1> QED BY <1>1, <1>2, <1>3

LEMMA ResolveKeepsRefs ==
  ASSUME P!IInv, RefsOK, NEW m \in Matches, NEW s \in Match,
         NEW kept \in SUBSET registered, NEW waits \in BOOLEAN, Resolve(m, s, kept, waits)
  PROVE  RefsOK'
<1> DEFINE e == s.entry
<1>1. e \in Entry /\ e.name \in Bases \cup {NoName} /\ e.account \in Accounts \cup {NoAccount}
  BY DEF Match, Entry
<1>2. ASSUME registered \subseteq registered', NEW p \in registered' \cup {Ignored},
             NEW w \in BOOLEAN, Counts(m, p, kept, w)
      PROVE  SlotOK'
  BY <1>2 DEF Counts, RefsOK, SlotOK
<1>3. CASE ByOverride(m, s, kept, waits)
  <2>1. override[m] # None
    BY <1>3 DEF ByOverride, RuleOf, Rule
  <2>2. UNCHANGED <<person, alias, override>>
    BY <1>3 DEF ByOverride, nameVars
  <2>3. SlotOK'
    BY <1>2, <1>3, <2>1, <2>2 DEF ByOverride, RefsOK, OverrideOK, registered
  <2> QED BY <2>2, <2>3 DEF RefsOK, PeopleOK, AliasOK, OverrideOK, registered, Named
<1>4. CASE Unnamed(m, s, kept, waits)
  <2>1. UNCHANGED <<person, alias, override>>
    BY <1>4 DEF Unnamed, nameVars
  <2>2. SlotOK'
    BY <1>2, <1>4, <2>1 DEF Unnamed, registered
  <2> QED BY <2>1, <2>2 DEF RefsOK, PeopleOK, AliasOK, OverrideOK, registered
<1>5. CASE ByCode(m, s, kept)
  <2>1. UNCHANGED <<person, alias>>
    BY <1>5 DEF ByCode, nameVars
  <2>2. OwnerOf(m, s) \in registered
    <3>1. RuleOf(m, s) = "code" /\ C!Holder(s.board, e.code, s.played) # Nobody
      BY <1>5 DEF ByCode, RuleOf, Rule
    <3>2. P!Holder(s.board, e.code, s.played) \in registered \cup {Nobody}
      BY P!HolderIsRegistered DEF P!IInv
    <3> QED BY <3>1, <3>2, SameHolder DEF OwnerOf
  <2>3. override' = [override EXCEPT ![m] = [player |-> OwnerOf(m, s), source |-> "checkin"]]
    BY <1>5 DEF ByCode
  <2>4. OverrideOK'
    BY <2>1, <2>2, <2>3 DEF RefsOK, OverrideOK, Override, PeopleOK, registered
  <2>5. SlotOK'
    BY <1>2, <1>5, <2>1, <2>2 DEF ByCode, registered
  <2> QED BY <2>1, <2>4, <2>5 DEF RefsOK, PeopleOK, AliasOK, registered
<1>6. CASE Wait(m, s, kept)
  <2>1. UNCHANGED <<person, alias, override>>
    BY <1>6 DEF Wait, nameVars
  <2>2. SlotOK'
    BY <1>2, <1>6, <2>1 DEF Wait, registered
  <2> QED BY <2>1, <2>2 DEF RefsOK, PeopleOK, AliasOK, OverrideOK, registered
<1>7. CASE ByAccount(m, s, kept, waits)
  <2>1. UNCHANGED <<person, alias, override>>
    BY <1>7 DEF ByAccount, nameVars
  <2>2. OwnerOf(m, s) \in registered
    <3>1. RuleOf(m, s) = "account" /\ Owners(e.account) # {}
      BY <1>7 DEF ByAccount, RuleOf, Rule
    <3>2. (CHOOSE p \in Owners(e.account) : TRUE) \in Owners(e.account)
      BY <3>1
    <3> QED BY <3>1, <3>2 DEF OwnerOf, Owners
  <2>3. SlotOK'
    BY <1>2, <1>7, <2>1, <2>2 DEF ByAccount, registered
  <2> QED BY <2>1, <2>3 DEF RefsOK, PeopleOK, AliasOK, OverrideOK, registered
<1>8. CASE ByName(m, s, kept, waits)
  <2>1. UNCHANGED <<alias, override>> /\ person' = TakeOver(OwnerOf(m, s), e.account)
    BY <1>8 DEF ByName
  <2>2. OwnerOf(m, s) \in registered
    <3>1. RuleOf(m, s) = "name" /\ e.name # NoName /\ Candidate(Main(e)) # Nobody
      BY <1>8 DEF ByName, RuleOf, Rule
    <3>2. Main(e) \in Names
      BY <1>1, BoundsAssumption DEF Main, Names
    <3> QED BY <3>1, <3>2, CandidateIsRegistered DEF RefsOK, OwnerOf
  <2>3. PeopleOK' /\ registered' = registered
    BY <1>1, <2>1, <2>2, TakeOverOK DEF RefsOK
  <2>4. SlotOK'
    BY <1>2, <1>8, <2>2, <2>3 DEF ByName
  <2> QED BY <2>1, <2>3, <2>4 DEF RefsOK, AliasOK, OverrideOK
<1>9. CASE ByNewPlayer(m, s, kept, waits)
  <2>1. /\ e.name # NoName \/ e.account # NoAccount
        /\ e.account = NoAccount \/ Owners(e.account) = {}
    BY <1>9 DEF ByNewPlayer, RuleOf, Rule
  <2>2. PICK p \in NewIds, n \in FreeNames(e) :
          AddPerson(p, n, e.account, FALSE) /\ Counts(m, p, kept, waits)
    BY <1>9 DEF ByNewPlayer
  <2>3. n \in Names /\ ~Taken(n)
    BY <1>1, <2>1, FreeNamesAreFree
  <2>4. PeopleOK' /\ AliasOK' /\ registered' = registered \cup {p}
    BY <1>1, <2>1, <2>2, <2>3, AddPersonOK DEF RefsOK
  <2>5. SlotOK'
    BY <1>2, <2>2, <2>4
  <2>6. override' = override
    BY <1>9 DEF ByNewPlayer
  <2> QED BY <2>4, <2>5, <2>6 DEF RefsOK, OverrideOK
<1> QED BY <1>3, <1>4, <1>5, <1>6, <1>7, <1>8, <1>9 DEF Resolve

-----------------------------------------------------------------------------
(* Every action keeps the references *)

\* A later state gives the match at most a board.
LEMMA LaterStateKeepsRow ==
  ASSUME MatchOK, NEW m \in Matches, NEW b \in Boards, LaterState(m, b)
  PROVE  /\ match[m] # None /\ match[m] \in Match /\ MatchOK'
         /\ match'[m] # None /\ match'[m].entry = match[m].entry
         /\ \A k \in Matches \ {m} : match'[k] = match[k]
<1>1. match[m] # None /\ match[m] \in Match
  BY DEF LaterState, MatchOK
<1>2. PICK c \in Boards \cup {NoBoard} : match' = [match EXCEPT ![m] = [match[m] EXCEPT !.board = c]]
  <2>1. match[m].board \in Boards \cup {NoBoard}
    BY <1>1 DEF Match
  <2>2. match' = [match EXCEPT ![m] = [match[m] EXCEPT !.board = IF match[m].board = NoBoard THEN b ELSE match[m].board]]
    BY DEF LaterState
  <2> QED BY <2>1, <2>2
<1>3. [match[m] EXCEPT !.board = c] \in Match /\ [match[m] EXCEPT !.board = c].entry = match[m].entry
  BY <1>1, <1>2 DEF Match
<1>4. [match[m] EXCEPT !.board = c] # None
  BY <1>3, RowAssumption
<1>5. match \in [Matches -> Match \cup {None}]
  BY DEF MatchOK
<1>6. PICK r \in Match : r = [match[m] EXCEPT !.board = c] /\ r.entry = match[m].entry /\ r # None
  BY <1>3, <1>4
<1>7. match' = [match EXCEPT ![m] = r] /\ touched' = touched
  BY <1>2, <1>6 DEF LaterState
<1> QED BY <1>1, <1>5, <1>6, <1>7 DEF MatchOK

LEMMA StatesKeepTypes ==
  ASSUME P!IInv, TypeOK, NEW m \in Matches,
         Reprocess(m) \/ \E b \in Boards : Report(m, b, 0 .. MaxDelay, Entry)
  PROVE  TypeOK'
<1> USE DEF MatchOK
<1>0. RefsOK /\ MatchOK
  BY Parts DEF RefsOK
<1>1. CASE Reprocess(m)
  <2>1. match[m] \in Match /\ Resolve(m, match[m], {}, FALSE)
    BY <1>0, <1>1 DEF Reprocess
  <2>2. RefsOK'
    BY <1>0, <2>1, ResolveKeepsRefs
  <2>3. MatchOK'
    BY <1>0, <1>1 DEF Reprocess
  <2> QED BY <2>2, <2>3, NextParts DEF RefsOK
<1>2. ASSUME NEW b \in Boards, LaterState(m, b)
      PROVE  TypeOK'
  <2>1. /\ [match[m] EXCEPT !.board = b] \in Match
        /\ Resolve(m, [match[m] EXCEPT !.board = b], booked[m], pending[m])
    BY <1>0, <1>2 DEF LaterState, Match
  <2>2. RefsOK'
    BY <1>0, <2>1, ResolveKeepsRefs DEF RefsOK, SlotOK
  <2>3. MatchOK'
    BY <1>0, <1>2, LaterStateKeepsRow
  <2> QED BY <2>2, <2>3, NextParts DEF RefsOK
<1>3. ASSUME NEW b \in Boards, NEW d \in 0 .. MaxDelay, NEW e \in Entry, FirstState(m, b, now - d, e)
      PROVE  TypeOK'
  <2> DEFINE s == [board |-> b, played |-> now - d, entry |-> e]
  <2>1. now \in Nat
    BY DEF P!IInv, P!TypeOK
  <2>2. s \in Match
    BY <2>1, BoundsAssumption DEF Match
  <2>3. Resolve(m, s, {}, FALSE) /\ match' = [match EXCEPT ![m] = s] /\ touched' = touched
    BY <1>3 DEF FirstState
  <2> HIDE DEF s
  <2>4. RefsOK'
    BY <1>0, <2>2, <2>3, ResolveKeepsRefs
  <2>5. MatchOK'
    BY <1>0, <2>2, <2>3
  <2> QED BY <2>4, <2>5, NextParts DEF RefsOK
<1> QED BY <1>1, <1>2, <1>3 DEF Report

LEMMA ResolvePendingKeepsTypes ==
  ASSUME TypeOK, NEW m \in Matches, NEW x \in registered \cup {Ignored}, ResolvePending(m, x)
  PROVE  TypeOK'
<1>0. RefsOK /\ MatchOK
  BY Parts DEF RefsOK
<1>1. match[m].entry.account \in Accounts \cup {NoAccount}
  BY <1>0 DEF ResolvePending, MatchOK, Match, Entry
<1>2. PeopleOK' /\ registered' = registered
  <2>1. CASE person' = person
    BY <1>0, <2>1 DEF RefsOK, PeopleOK, registered
  <2>2. CASE x # Ignored /\ person' = TakeOver(x, match[m].entry.account)
    BY <1>0, <1>1, <2>2, TakeOverOK DEF RefsOK
  <2> QED BY <2>1, <2>2 DEF ResolvePending
<1>3. AliasOK' /\ SlotOK'
  BY <1>0, <1>2 DEF ResolvePending, RefsOK, AliasOK, SlotOK
<1>4. OverrideOK'
  <2>1. [player |-> x, source |-> "admin"] \in Override
    BY <1>0 DEF Override, RefsOK, PeopleOK
  <2> QED BY <1>0, <1>2, <2>1 DEF ResolvePending, RefsOK, OverrideOK
<1>5. MatchOK'
  BY <1>0 DEF ResolvePending, MatchOK, Touch
<1> QED BY <1>2, <1>3, <1>4, <1>5, NextParts

LEMMA NamesKeepTypes ==
  ASSUME TypeOK, NEW n \in Names,
         \/ DeleteAlias(n)
         \/ \E on \in BOOLEAN : CreatePlayer(n, on)
         \/ \E p \in registered : CheckAlias(n, p)
  PROVE  TypeOK'
<1>0. RefsOK /\ MatchOK
  BY Parts DEF RefsOK
<1>1. CASE DeleteAlias(n)
  <2>1. AliasOK'
    BY <1>0, <1>1 DEF DeleteAlias, RefsOK, AliasOK, registered
  <2>2. PeopleOK' /\ OverrideOK' /\ SlotOK' /\ MatchOK'
    BY <1>0, <1>1 DEF DeleteAlias, matchVars, Touch, RefsOK, PeopleOK, OverrideOK, SlotOK, MatchOK,
                      registered
  <2> QED BY <2>1, <2>2, NextParts
<1>3. ASSUME NEW on \in BOOLEAN, CreatePlayer(n, on)
      PROVE  TypeOK'
  <2>1. PICK p \in NewIds : AddPerson(p, n, NoAccount, on)
    BY <1>3 DEF CreatePlayer
  <2>2. PeopleOK' /\ AliasOK' /\ registered' = registered \cup {p}
    BY <1>0, <1>3, <2>1, AddPersonOK DEF CreatePlayer, RefsOK
  <2>3. OverrideOK' /\ SlotOK' /\ MatchOK'
    BY <1>0, <1>3, <2>2 DEF CreatePlayer, matchVars, RefsOK, OverrideOK, SlotOK, MatchOK
  <2> QED BY <2>2, <2>3, NextParts
<1>4. CASE \E p \in registered : CheckAlias(n, p)
  <2>1. UNCHANGED <<person, alias, matchVars, touched>>
    BY <1>4 DEF CheckAlias, nameVars
  <2> QED BY <2>1 DEF matchVars, TypeOK, registered
<1> QED BY <1>1, <1>3, <1>4

LEMMA InsertAliasKeepsTypes ==
  ASSUME TypeOK, InsertAlias
  PROVE  TypeOK'
<1>0. RefsOK /\ MatchOK
  BY Parts DEF RefsOK
<1>1. UNCHANGED <<person, matchVars>>
  BY DEF InsertAlias
<1>2. PeopleOK' /\ OverrideOK' /\ SlotOK'
  BY <1>0, <1>1 DEF matchVars, RefsOK, PeopleOK, OverrideOK, SlotOK, registered
<1>3. MatchOK'
  BY <1>0, <1>1 DEF InsertAlias, matchVars, Touch, MatchOK
<1>4. AliasOK'
  BY <1>0, <1>1 DEF InsertAlias, RefsOK, AliasOK, registered
<1> QED BY <1>2, <1>3, <1>4, NextParts

LEMMA ProtectKeepsTypes ==
  ASSUME TypeOK, NEW p \in registered, NEW on \in BOOLEAN, Protect(p, on)
  PROVE  TypeOK'
<1>0. RefsOK /\ MatchOK
  BY Parts DEF RefsOK
<1>1. person' = [person EXCEPT ![p].protected = on] /\ registered' = registered
  BY DEF Protect, registered
<1>2. person' \in [registered' -> Person]
  BY <1>0, <1>1 DEF RefsOK, PeopleOK, Person
<1>3. \A q \in registered : person'[q].name = person[q].name /\ person'[q].account = person[q].account
  BY <1>0, <1>1 DEF RefsOK, PeopleOK, Person
<1>4. PeopleOK'
  BY <1>0, <1>1, <1>2, <1>3 DEF RefsOK, PeopleOK
<1>5. AliasOK' /\ OverrideOK' /\ SlotOK' /\ MatchOK'
  BY <1>0, <1>1 DEF Protect, matchVars, Touch, RefsOK, AliasOK, OverrideOK, SlotOK, MatchOK
<1> QED BY <1>4, <1>5, NextParts

\* What referred to the merged player refers to the other one, who takes over his
\* account if he has none.
LEMMA MergeKeepsTypes ==
  ASSUME TypeOK, NEW a, NEW b, Merge(a, b)
  PROVE  TypeOK'
<1>0. RefsOK /\ MatchOK
  BY Parts DEF RefsOK
<1> DEFINE merged == [person[b] EXCEPT !.account = person[a].account]
<1>1. /\ a \in registered /\ b \in registered /\ a # b /\ registered' = registered \ {a}
      /\ \A p \in registered' :
           person'[p] = IF p = b /\ person[b].account = NoAccount THEN merged ELSE person[p]
      /\ DOMAIN person' = registered'
  BY DEF Merge, registered
<1>2. /\ merged \in Person /\ merged.name = person[b].name /\ merged.account = person[a].account
  BY <1>0, <1>1 DEF RefsOK, PeopleOK, Person
<1> HIDE DEF merged
<1>3. \A p \in registered' : person'[p] \in Person /\ person'[p].name = person[p].name
  BY <1>0, <1>1, <1>2 DEF RefsOK, PeopleOK
<1>4. person' \in [registered' -> Person]
  BY <1>1, <1>3 DEF Merge
<1>5. \A p, q \in registered' : p # q /\ person'[p].account = person'[q].account =>
                                 person'[p].account = NoAccount
  BY <1>0, <1>1, <1>2 DEF RefsOK, PeopleOK
<1>6. PeopleOK'
  BY <1>0, <1>1, <1>3, <1>4, <1>5 DEF RefsOK, PeopleOK
<1>7. AliasOK'
  BY <1>0, <1>1, CheckinAssumption DEF Merge, MergedAliases, Moved, RefsOK, PeopleOK, AliasOK, C!ConstantsOK
<1>8. OverrideOK'
  <2>1. ASSUME NEW m \in Matches
        PROVE  /\ override'[m] \in Override \cup {None}
               /\ override'[m] # None => override'[m].player \in registered' \cup {Ignored}
    <3>1. CASE override[m] # None /\ override[m].player = a
      <4>1. override'[m] = [override[m] EXCEPT !.player = b]
        BY <3>1 DEF Merge
      <4> QED BY <1>0, <1>1, <3>1, <4>1 DEF RefsOK, OverrideOK, PeopleOK, Override
    <3>2. CASE ~(override[m] # None /\ override[m].player = a)
      <4>1. override'[m] = override[m]
        BY <3>2 DEF Merge
      <4> QED BY <1>0, <1>1, <3>2, <4>1 DEF RefsOK, OverrideOK
    <3> QED BY <3>1, <3>2
  <2>2. override' = [m \in Matches |-> override'[m]]
    BY DEF Merge
  <2> QED BY <2>1, <2>2 DEF OverrideOK
<1>9. SlotOK'
  <2>1. \A m \in Matches : \A p \in booked[m] : Moved(p, a, b) \in registered'
    BY <1>0, <1>1 DEF Moved, RefsOK, SlotOK
  <2>2. \A m \in Matches : {Moved(p, a, b) : p \in booked[m]} \in SUBSET registered'
    BY <2>1
  <2>3. booked' = [m \in Matches |-> {Moved(p, a, b) : p \in booked[m]}] /\ pending' = pending
    BY DEF Merge
  <2> QED BY <1>0, <2>2, <2>3 DEF RefsOK, SlotOK
<1>10. MatchOK'
  BY <1>0 DEF Merge, Touch, MatchOK
<1> QED BY <1>6, <1>7, <1>8, <1>9, <1>10, NextParts

LEMMA DeletePlayerKeepsTypes ==
  ASSUME TypeOK, NEW p \in registered, DeletePlayer(p)
  PROVE  TypeOK'
<1>0. RefsOK /\ MatchOK
  BY Parts DEF RefsOK
<1>1. /\ registered' = registered \ {p} /\ \A q \in registered' : person'[q] = person[q]
      /\ person' = [q \in registered \ {p} |-> person[q]]
  BY DEF DeletePlayer, registered
<1>2. PeopleOK'
  BY <1>0, <1>1 DEF RefsOK, PeopleOK
<1>3. AliasOK'
  BY <1>0, <1>1 DEF DeletePlayer, RefsOK, AliasOK
<1>4. OverrideOK' /\ SlotOK'
  BY <1>0, <1>1 DEF DeletePlayer, RefsOK, OverrideOK, SlotOK
<1>5. MatchOK'
  BY <1>0 DEF DeletePlayer, MatchOK
<1> QED BY <1>2, <1>3, <1>4, <1>5, NextParts

LEMMA RowsKeepTypes ==
  ASSUME TypeOK, \/ \E b \in Boards : DeleteBoard(b)
                 \/ \E m \in Matches : DeleteMatch(m)
  PROVE  TypeOK'
<1>0. RefsOK /\ MatchOK
  BY Parts DEF RefsOK
<1>1. ASSUME NEW b \in Boards, DeleteBoard(b)
      PROVE  TypeOK'
  <2>1. \A m \in Matches : match[m] # None => [match[m] EXCEPT !.board = NoBoard] \in Match
    BY <1>0 DEF MatchOK, Match
  <2>2. MatchOK'
    BY <1>0, <1>1, <2>1 DEF DeleteBoard, MatchOK
  <2>3. RefsOK'
    BY <1>0, <1>1 DEF DeleteBoard, nameVars, RefsOK, PeopleOK, AliasOK, OverrideOK, SlotOK, registered
  <2> QED BY <2>2, <2>3, NextParts DEF RefsOK
<1>2. ASSUME NEW m \in Matches, DeleteMatch(m)
      PROVE  TypeOK'
  <2>1. MatchOK'
    BY <1>0, <1>2 DEF DeleteMatch, MatchOK
  <2>2. OverrideOK' /\ SlotOK'
    BY <1>0, <1>2 DEF DeleteMatch, nameVars, RefsOK, OverrideOK, SlotOK, registered
  <2>3. UNCHANGED <<person, alias>>
    BY <1>2 DEF DeleteMatch, nameVars
  <2>4. PeopleOK' /\ AliasOK'
    BY <1>0, <2>3 DEF RefsOK, PeopleOK, AliasOK, registered
  <2> QED BY <2>1, <2>2, <2>4, NextParts
<1> QED BY <1>1, <1>2

LEMMA BystandersKeepTypes ==
  ASSUME TypeOK, UNCHANGED <<person, alias, match, override, pending, booked, touched>>
  PROVE  TypeOK'
BY DEF TypeOK, registered

-----------------------------------------------------------------------------
(* The invariant *)

LEMMA TypesInductive == P!IInv /\ TypeOK /\ [Next]_vars => TypeOK'
<1> SUFFICES ASSUME P!IInv, TypeOK, [Next]_vars PROVE TypeOK'
  OBVIOUS
<1>1. ASSUME NEW m \in Matches, Reprocess(m) \/ \E b \in Boards : Report(m, b, 0 .. MaxDelay, Entry)
      PROVE  TypeOK'
  BY <1>1, StatesKeepTypes
<1>2. CASE Administer(Names)
  <2>1. ASSUME NEW m \in Matches, DeleteMatch(m) \/ \E x \in registered \cup {Ignored} : ResolvePending(m, x)
        PROVE  TypeOK'
    BY <2>1, RowsKeepTypes, ResolvePendingKeepsTypes
  <2>2. ASSUME NEW n \in Names, \/ DeleteAlias(n) \/ \E on \in BOOLEAN : CreatePlayer(n, on)
                                \/ \E p \in registered : CheckAlias(n, p)
        PROVE  TypeOK'
    BY <2>2, NamesKeepTypes
  <2>3. ASSUME NEW p \in registered, \/ DeletePlayer(p) \/ \E on \in BOOLEAN : Protect(p, on)
                                     \/ \E b \in registered : Merge(p, b)
        PROVE  TypeOK'
    BY <2>3, DeletePlayerKeepsTypes, ProtectKeepsTypes, MergeKeepsTypes
  <2> QED BY <1>2, <2>1, <2>2, <2>3 DEF Administer
<1>3. CASE InsertAlias
  BY <1>3, InsertAliasKeepsTypes
<1>4. ASSUME NEW b \in Boards, DeleteBoard(b)
      PROVE  TypeOK'
  BY <1>4, RowsKeepTypes
<1>5. CASE (\E b \in Boards : CheckinStep(b)) \/ ManageCheckins \/ Tick
  BY <1>5, BystandersKeepTypes DEF CheckinStep, ManageCheckins, Tick, nameVars, matchVars
<1>6. CASE UNCHANGED vars
  BY <1>6, BystandersKeepTypes DEF vars, nameVars, matchVars
<1> QED BY <1>1, <1>2, <1>3, <1>4, <1>5, <1>6 DEF Next

LEMMA TypesInitially == Init => P!IInv /\ TypeOK
<1> SUFFICES ASSUME Init PROVE P!IInv /\ TypeOK
  OBVIOUS
<1>1. P!IInv
  BY InitIsCheckinInit, ConstantsFit, P!InitInductive
<1>2. TypeOK
  BY DEF Init, TypeOK, registered
<1> QED BY <1>1, <1>2

LEMMA CheckinInductive == P!IInv /\ TypeOK /\ [Next]_vars => P!IInv'
<1> SUFFICES ASSUME P!IInv, TypeOK, [Next]_vars PROVE P!IInv'
  OBVIOUS
<1>1. [P!Next]_(P!vars)
  BY StepIsCheckinStep DEF Bounded, TypeOK
<1> QED BY <1>1, ConstantsFit, P!NextInductive

\* Names and accounts are unique, and nothing refers to a player who is gone, whatever
\* is reported, merged, taken over, protected and deleted (resolvePlayer, adminMerge,
\* adminDeletePlayer, the primary and foreign keys).
THEOREM IdentityTypeCorrect == Spec => []TypeOK
<1>1. P!IInv /\ TypeOK /\ [Next]_vars => P!IInv' /\ TypeOK'
  BY CheckinInductive, TypesInductive
<1> QED BY <1>1, TypesInitially, PTL DEF Spec

-----------------------------------------------------------------------------
(* Why a slot that counts keeps counting for the same player *)

\* What books entry e for p without an override: his account, or else the name, which
\* leads to him and to nobody else, and does not need a code.
Backed(p, e) ==
  /\ e.code = NoCode
  /\ IF e.account # NoAccount THEN person[p].account = e.account
     ELSE e.name # NoName /\ Candidate(Main(e)) = p /\ ~person[p].protected

Settles(m, e) ==
  booked[m] # {} =>
    \E p \in booked[m] : /\ booked[m] = {p}
                         /\ IF override[m] # None THEN override[m].player = p ELSE Backed(p, e)

\* BookingStable is not inductive: it says who will be booked and not why.
SlotsSettled == \A m \in Matches : Open(m) => Settles(m, match[m].entry)

LEMMA MainIsName ==
  ASSUME NEW e \in Entry, e.name # NoName
  PROVE  Main(e) \in Names
BY BoundsAssumption DEF Entry, Main, Names

LEMMA NobodyIsNoPlayer == PeopleOK => Nobody \notin registered
BY CheckinAssumption DEF PeopleOK, C!ConstantsOK

LEMMA BackedIsOwner ==
  ASSUME PeopleOK, NEW m, NEW s, s.entry \in Entry, NEW p \in registered,
         override[m] = None, Backed(p, s.entry)
  PROVE  RuleOf(m, s) \in {"account", "name"} /\ OwnerOf(m, s) = p
<1>1. CASE s.entry.account # NoAccount
  <2>1. p \in Owners(s.entry.account)
    BY <1>1 DEF Backed, Owners
  <2>2. \A q \in Owners(s.entry.account) : q = p
    BY <1>1, <2>1 DEF Owners, PeopleOK
  <2>3. RuleOf(m, s) = "account"
    BY <1>1, <2>1 DEF Backed, RuleOf, Rule
  <2>4. OwnerOf(m, s) = CHOOSE q \in Owners(s.entry.account) : TRUE
    BY <2>3 DEF OwnerOf
  <2> QED BY <2>1, <2>2, <2>3, <2>4
<1>2. CASE s.entry.account = NoAccount
  <2>1. /\ s.entry.code = NoCode /\ s.entry.name # NoName
        /\ Candidate(Main(s.entry)) = p /\ ~person[p].protected
    BY <1>2 DEF Backed
  <2>2. RuleOf(m, s) = "name"
    BY <1>2, <2>1, NobodyIsNoPlayer DEF RuleOf, Rule, MustWait
  <2>3. OwnerOf(m, s) = Candidate(Main(s.entry))
    BY <2>2 DEF OwnerOf
  <2> QED BY <2>1, <2>2, <2>3
<1> QED BY <1>1, <1>2

LEMMA SettledIsStable == TypeOK /\ SlotsSettled => BookingStable
<1> SUFFICES ASSUME TypeOK, SlotsSettled,
                    NEW m \in Matches, Open(m), booked[m] # {},
                    NEW b \in Boards \cup {match[m].board}
             PROVE  booked[m] = {OwnerOf(m, [match[m] EXCEPT !.board = b])}
  BY DEF BookingStable
<1>0. PeopleOK /\ SlotOK /\ match[m] \in Match
  BY Parts DEF MatchOK, Open
<1> DEFINE s == [match[m] EXCEPT !.board = b]
<1>1. s.entry = match[m].entry /\ s.entry \in Entry
  BY <1>0 DEF Match
<1>2. PICK p \in booked[m] :
        /\ booked[m] = {p}
        /\ IF override[m] # None THEN override[m].player = p ELSE Backed(p, match[m].entry)
  BY DEF SlotsSettled, Settles
<1>3. p \in registered
  BY <1>0 DEF SlotOK
<1>4. booked[m] = {OwnerOf(m, s)}
  <2> HIDE DEF s
  <2>1. CASE override[m] # None
    BY <1>2, <2>1 DEF OwnerOf, RuleOf, Rule
  <2>2. CASE override[m] = None
    BY <1>0, <1>1, <1>2, <1>3, <2>2, BackedIsOwner
  <2> QED BY <2>1, <2>2
<1> QED BY <1>4

-----------------------------------------------------------------------------
(* resolvePlayer settles a slot *)

LEMMA CountsOne ==
  ASSUME SlotOK, NEW m \in Matches, NEW p, NEW kept, kept \subseteq {p}, NEW waits,
         Counts(m, p, kept, waits)
  PROVE  booked'[m] \subseteq {p} /\ (p # Ignored => booked'[m] = {p})
BY DEF Counts, SlotOK

LEMMA ResolveSettles ==
  ASSUME P!IInv, RefsOK, NEW m \in Matches, NEW s \in Match, NEW kept \in SUBSET registered,
         NEW waits \in BOOLEAN, kept = {} \/ (kept = booked[m] /\ Settles(m, s.entry)),
         Resolve(m, s, kept, waits)
  PROVE  Settles(m, s.entry)'
<1> DEFINE e == s.entry
<1> PICK o : o = OwnerOf(m, s)
  OBVIOUS
<1>0. e \in Entry /\ PeopleOK /\ AliasOK /\ OverrideOK /\ SlotOK /\ PeopleOK' /\ SlotOK'
  BY ResolveKeepsRefs DEF Match, RefsOK
<1>1. kept = {} \/ (kept = {o} /\ RuleOf(m, s) \in {"override", "account", "name"})
  <2> SUFFICES ASSUME kept # {} PROVE kept = {o} /\ RuleOf(m, s) \in {"override", "account", "name"}
    OBVIOUS
  <2>1. PICK p \in booked[m] :
          /\ kept = {p} /\ booked[m] = {p}
          /\ IF override[m] # None THEN override[m].player = p ELSE Backed(p, e)
    BY DEF Settles
  <2>2. p \in registered
    BY <1>0 DEF SlotOK
  <2>3. CASE override[m] # None
    BY <2>1, <2>3 DEF OwnerOf, RuleOf, Rule
  <2>4. CASE override[m] = None
    BY <1>0, <2>1, <2>2, <2>4, BackedIsOwner
  <2> QED BY <2>3, <2>4
<1>2. CASE ByOverride(m, s, kept, waits)
  <2>1. /\ override[m] # None /\ override' = override /\ o = override[m].player
        /\ Counts(m, o, kept, waits)
    BY <1>2 DEF ByOverride, RuleOf, Rule, OwnerOf
  <2>2. booked'[m] \subseteq {o}
    BY <1>0, <1>1, <2>1, CountsOne
  <2> QED BY <2>1, <2>2 DEF Settles
<1>3. CASE Unnamed(m, s, kept, waits) \/ Wait(m, s, kept)
  <2>1. kept = {} /\ \E w : Counts(m, Ignored, kept, w)
    BY <1>1, <1>3 DEF Unnamed, Wait
  <2>2. booked'[m] = {}
    BY <1>0, <2>1 DEF Counts, SlotOK
  <2> QED BY <2>2 DEF Settles
<1>4. CASE ByCode(m, s, kept)
  <2>1. kept = {} /\ Counts(m, o, kept, FALSE)
    BY <1>1, <1>4 DEF ByCode
  <2>2. booked'[m] \subseteq {o}
    BY <1>0, <2>1, CountsOne
  <2>3. override'[m] = [player |-> o, source |-> "checkin"]
    BY <1>0, <1>4 DEF ByCode, OverrideOK
  <2>4. ASSUME booked'[m] # {}
        PROVE  override'[m] # None
    <3>1. o \in Players
      BY <1>0, <2>2, <2>4 DEF SlotOK, PeopleOK
    <3> QED BY <2>3, <3>1, RowAssumption DEF Override
  <2> QED BY <2>2, <2>3, <2>4 DEF Settles
<1>5. CASE ByAccount(m, s, kept, waits)
  <2>1. /\ Counts(m, o, kept, waits) /\ UNCHANGED <<person, override>>
        /\ RuleOf(m, s) = "account"
    BY <1>5 DEF ByAccount, nameVars
  <2>2. override[m] = None /\ e.code = NoCode /\ e.account # NoAccount /\ Owners(e.account) # {}
    BY <2>1 DEF RuleOf, Rule
  <2>3. o \in Owners(e.account)
    BY <2>1, <2>2 DEF OwnerOf
  <2>4. Backed(o, e)'
    BY <2>1, <2>2, <2>3 DEF Backed, Owners
  <2>5. booked'[m] \subseteq {o}
    BY <1>0, <1>1, <2>1, CountsOne
  <2> QED BY <2>1, <2>2, <2>4, <2>5 DEF Settles
<1>6. CASE ByName(m, s, kept, waits)
  <2>1. /\ Counts(m, o, kept, waits) /\ UNCHANGED <<alias, override>>
        /\ RuleOf(m, s) = "name" /\ person' = TakeOver(o, e.account)
    BY <1>6 DEF ByName
  <2>2. /\ override[m] = None /\ e.code = NoCode /\ e.name # NoName
        /\ o = Candidate(Main(e)) /\ o # Nobody /\ ~person[o].protected
        /\ e.account # NoAccount => Owners(e.account) = {} /\ person[o].account = NoAccount
    BY <2>1 DEF RuleOf, Rule, MustWait, OwnerOf
  <2>3. o \in registered
    BY <1>0, <2>2, MainIsName, CandidateIsRegistered
  <2>4. Backed(o, e)'
    <3>1. CASE e.account # NoAccount
      BY <1>0, <2>1, <2>2, <2>3, <3>1 DEF TakeOver, Backed, PeopleOK, Person
    <3>2. CASE e.account = NoAccount
      <4>1. person' = person
        BY <2>1, <3>2 DEF TakeOver
      <4>2. Candidate(Main(e))' = Candidate(Main(e))
        BY <2>1, <4>1 DEF Candidate, Named, registered
      <4> QED BY <2>2, <3>2, <4>1, <4>2 DEF Backed
    <3> QED BY <3>1, <3>2
  <2>5. booked'[m] \subseteq {o}
    BY <1>0, <1>1, <2>1, CountsOne
  <2> QED BY <2>1, <2>2, <2>4, <2>5 DEF Settles
<1>7. CASE ByNewPlayer(m, s, kept, waits)
  <2>1. kept = {} /\ override' = override /\ RuleOf(m, s) = "new"
    BY <1>1, <1>7 DEF ByNewPlayer
  <2>2. PICK p \in NewIds, n \in FreeNames(e) :
          AddPerson(p, n, e.account, FALSE) /\ Counts(m, p, kept, waits)
    BY <1>7 DEF ByNewPlayer
  <2>3. /\ override[m] = None /\ e.code = NoCode
        /\ e.account = NoAccount => e.name # NoName /\ Candidate(Main(e)) = Nobody
    <3>1. /\ override[m] = None /\ ~(e.name = NoName /\ e.account = NoAccount) /\ e.code = NoCode
          /\ LET c == IF e.name = NoName THEN Nobody ELSE Candidate(Main(e))
             IN e.name = NoName \/ c = Nobody \/ e.account # NoAccount
      BY <2>1 DEF RuleOf, Rule
    <3> QED BY <3>1
  <2>4. Backed(p, e)'
    <3>1. person'[p] = [name |-> n, account |-> e.account, protected |-> FALSE]
      BY <2>2 DEF AddPerson
    <3>2. CASE e.account # NoAccount
      BY <2>3, <3>1, <3>2 DEF Backed
    <3>3. CASE e.account = NoAccount
      <4>1. e.name # NoName /\ Main(e) \in Names
        BY <1>0, <2>3, <3>3, MainIsName
      <4>2. alias[Main(e)] = Nobody /\ Named(Main(e)) = {}
        <5>1. ASSUME Named(Main(e)) # {} PROVE FALSE
          <6>1. Candidate(Main(e)) \in registered
            BY <1>0, <2>3, <3>3, <4>1, <5>1, CandidateIsRegistered, NobodyIsNoPlayer DEF Candidate, Named
          <6> QED BY <1>0, <2>3, <3>3, <6>1, NobodyIsNoPlayer
        <5> QED BY <2>3, <3>3, <5>1 DEF Candidate
      <4>3. n = Main(e)
        BY <4>1, <4>2 DEF FreeNames, Taken
      <4>4. alias'[Main(e)] = p
        BY <1>0, <2>2, <4>1, <4>2, <4>3 DEF AddPerson, AliasIfFree, AliasOK
      <4>5. p # Nobody
        BY <1>0, <2>2, NewIdsAreNew, CheckinAssumption DEF C!ConstantsOK
      <4>6. Candidate(Main(e))' = p
        BY <4>4, <4>5 DEF Candidate
      <4> QED BY <2>3, <3>1, <3>3, <4>1, <4>6 DEF Backed
    <3> QED BY <3>2, <3>3
  <2>5. booked'[m] \subseteq {p}
    BY <1>0, <2>1, <2>2, CountsOne
  <2> QED BY <2>1, <2>3, <2>4, <2>5 DEF Settles
<1> QED BY <1>2, <1>3, <1>4, <1>5, <1>6, <1>7 DEF Resolve

-----------------------------------------------------------------------------
(* Steps that take nothing from players: the other slots stay settled *)

CandidateKept(k) == \A q \in registered : Candidate(k) = q => Candidate(k)' = q

\* Whoever is there stays there, with his account, his protection and the names that
\* lead to him.
PeopleKept ==
  /\ \A q \in registered :
       /\ q \in registered'
       /\ person[q].account # NoAccount => person'[q].account = person[q].account
       /\ person'[q].protected = person[q].protected
  /\ \A k \in Names : CandidateKept(k)

LEMMA SameNamesSameCandidates ==
  ASSUME registered' = registered, \A q \in registered : person'[q].name = person[q].name,
         NEW k, alias'[k] = alias[k]
  PROVE  Candidate(k)' = Candidate(k)
<1>1. Named(k)' = Named(k)
  BY DEF Named
<1> QED BY <1>1 DEF Candidate

LEMMA SettlesKept ==
  ASSUME SlotOK, PeopleKept, NEW m \in Matches, NEW e \in Entry, Settles(m, e),
         booked'[m] = booked[m], override'[m] = override[m]
  PROVE  Settles(m, e)'
<1> SUFFICES ASSUME booked[m] # {}
             PROVE  \E p \in booked[m] : /\ booked[m] = {p}
                                         /\ IF override[m] # None THEN override[m].player = p
                                            ELSE Backed(p, e)'
  BY DEF Settles
<1>1. PICK p \in booked[m] :
        /\ booked[m] = {p}
        /\ IF override[m] # None THEN override[m].player = p ELSE Backed(p, e)
  BY DEF Settles
<1>2. p \in registered
  BY DEF SlotOK
<1>3. Backed(p, e) => Backed(p, e)'
  BY <1>2, MainIsName DEF PeopleKept, CandidateKept, Backed
<1> QED BY <1>1, <1>3

LEMMA AddPersonKeepsPeople ==
  ASSUME PeopleOK, AliasOK, NEW p \in NewIds, NEW n \in Names, ~Taken(n), NEW x, NEW protect,
         AddPerson(p, n, x, protect)
  PROVE  PeopleKept
<1>1. registered' = registered \cup {p} /\ p \notin registered
  BY NewIdsAreNew DEF AddPerson, registered
<1>2. \A q \in registered : person'[q] = person[q]
  BY <1>1 DEF AddPerson
<1>3. ASSUME NEW k \in Names, NEW q \in registered, Candidate(k) = q
      PROVE  Candidate(k)' = q
  <2>1. CASE alias[k] # Nobody
    <3>1. alias'[k] = alias[k]
      BY <2>1 DEF AddPerson, AliasIfFree, AliasOK
    <3> QED BY <1>3, <2>1, <3>1 DEF Candidate
  <2>2. CASE alias[k] = Nobody
    <3>1. Named(k) # {}
      BY <1>3, <2>2, NobodyIsNoPlayer DEF Candidate
    <3>2. k # n
      BY <3>1 DEF Taken
    <3>3. alias'[k] = Nobody
      BY <2>2, <3>2 DEF AddPerson, AliasIfFree, AliasOK
    <3>4. person'[p].name = n
      BY <1>1 DEF AddPerson
    <3>5. Named(k)' = Named(k)
      BY <1>1, <1>2, <3>2, <3>4 DEF Named
    <3> QED BY <1>3, <2>2, <3>1, <3>3, <3>5 DEF Candidate
  <2> QED BY <2>1, <2>2
<1> QED BY <1>1, <1>2, <1>3 DEF PeopleKept, CandidateKept

LEMMA TakeOverKeepsPeople ==
  ASSUME PeopleOK, NEW p \in registered, NEW x, person' = TakeOver(p, x), alias' = alias
  PROVE  PeopleKept
<1>1. registered' = registered
  BY TakeOverKeepsIds DEF registered
<1>2. \A q \in registered :
        /\ person[q].account # NoAccount => person'[q].account = person[q].account
        /\ person'[q].protected = person[q].protected
        /\ person'[q].name = person[q].name
  <2>1. CASE person' = person
    BY <2>1
  <2>2. CASE person[p].account = NoAccount /\ person' = [person EXCEPT ![p].account = x]
    BY <2>2 DEF PeopleOK, Person
  <2> QED BY <2>1, <2>2 DEF TakeOver
<1>3. \A k : Candidate(k)' = Candidate(k)
  BY <1>1, <1>2, SameNamesSameCandidates
<1> QED BY <1>1, <1>2, <1>3 DEF PeopleKept, CandidateKept

LEMMA NothingChangedKeepsPeople == UNCHANGED <<person, alias>> => PeopleKept
BY DEF PeopleKept, CandidateKept, Candidate, Named, registered

LEMMA ResolveKeepsPeople ==
  ASSUME RefsOK, NEW m \in Matches, NEW s \in Match, NEW kept, NEW waits, Resolve(m, s, kept, waits)
  PROVE  PeopleKept
<1> DEFINE e == s.entry
<1>0. e \in Entry /\ PeopleOK /\ AliasOK
  BY DEF Match, RefsOK
<1>1. CASE UNCHANGED <<person, alias>>
  BY <1>1, NothingChangedKeepsPeople
<1>2. CASE ByName(m, s, kept, waits)
  <2>1. e.name # NoName /\ OwnerOf(m, s) = Candidate(Main(e)) /\ Candidate(Main(e)) # Nobody
    BY <1>2 DEF ByName, RuleOf, Rule, OwnerOf
  <2>2. OwnerOf(m, s) \in registered
    BY <1>0, <2>1, MainIsName, CandidateIsRegistered
  <2> QED BY <1>0, <1>2, <2>2, TakeOverKeepsPeople DEF ByName
<1>3. CASE ByNewPlayer(m, s, kept, waits)
  <2>1. e.name # NoName \/ e.account # NoAccount
    BY <1>3 DEF ByNewPlayer, RuleOf, Rule
  <2>2. PICK p \in NewIds, n \in FreeNames(e) : AddPerson(p, n, e.account, FALSE)
    BY <1>3 DEF ByNewPlayer
  <2> QED BY <1>0, <2>1, <2>2, FreeNamesAreFree, AddPersonKeepsPeople
<1> QED BY <1>1, <1>2, <1>3 DEF Resolve, ByOverride, Unnamed, ByCode, Wait, ByAccount, nameVars

-----------------------------------------------------------------------------
(* Every action keeps the slots settled *)

LEMMA EntryOfOpen ==
  ASSUME MatchOK, NEW m \in Matches, match[m] # None
  PROVE  match[m] \in Match /\ match[m].entry \in Entry
BY DEF MatchOK, Match

\* The slots of other matches in a step of resolvePlayer, and all but one in an assignment.
LEMMA OthersSettled ==
  ASSUME TypeOK, SlotsSettled, PeopleKept, NEW m \in Matches, Open(m)', match'[m] = match[m],
         touched'[m] = touched[m], booked'[m] = booked[m], override'[m] = override[m]
  PROVE  Settles(m, match[m].entry)'
<1>1. Open(m) /\ SlotOK /\ MatchOK
  BY Parts DEF Open
<1>2. PICK e \in Entry : e = match[m].entry
  BY <1>1, EntryOfOpen DEF Open
<1>3. Settles(m, e)
  BY <1>1, <1>2 DEF SlotsSettled
<1>4. Settles(m, e)'
  BY <1>1, <1>3, SettlesKept
<1>5. e = match'[m].entry
  BY <1>2
<1> QED BY <1>4, <1>5 DEF Settles, Backed

LEMMA ResolveSettlesAll ==
  ASSUME P!IInv, TypeOK, SlotsSettled, NEW m \in Matches, NEW s \in Match,
         NEW kept \in SUBSET registered, NEW waits \in BOOLEAN, Resolve(m, s, kept, waits),
         match'[m].entry = s.entry,
         \A k \in Matches \ {m} : match'[k] = match[k] /\ touched'[k] = touched[k],
         Open(m)' => kept = {} \/ (kept = booked[m] /\ Open(m) /\ s.entry = match[m].entry)
  PROVE  SlotsSettled'
<1>0. RefsOK /\ SlotOK /\ OverrideOK
  BY Parts DEF RefsOK
<1>1. ASSUME Open(m)'
      PROVE  Settles(m, match[m].entry)'
  <2>1. kept = {} \/ (kept = booked[m] /\ Settles(m, s.entry))
    BY <1>1 DEF SlotsSettled
  <2>2. Settles(m, s.entry)'
    BY <1>0, <2>1, ResolveSettles
  <2> QED BY <2>2 DEF Settles, Backed
<1>2. ASSUME NEW k \in Matches \ {m}, Open(k)'
      PROVE  Settles(k, match[k].entry)'
  <2>1. PeopleKept
    BY <1>0, ResolveKeepsPeople
  <2>2. booked'[k] = booked[k] /\ override'[k] = override[k]
    BY <1>0 DEF Resolve, ByOverride, Unnamed, ByCode, Wait, ByAccount, ByName, ByNewPlayer,
                Counts, SlotOK, OverrideOK
  <2> QED BY <1>2, <2>1, <2>2, OthersSettled
<1> QED BY <1>1, <1>2 DEF SlotsSettled

LEMMA StatesSettle ==
  ASSUME P!IInv, TypeOK, SlotsSettled, NEW m \in Matches,
         Reprocess(m) \/ \E b \in Boards : Report(m, b, 0 .. MaxDelay, Entry)
  PROVE  SlotsSettled'
<1>0. RefsOK /\ MatchOK /\ SlotOK
  BY Parts DEF RefsOK
<1>1. CASE Reprocess(m)
  <2>1. PICK s \in Match : s = match[m]
    BY <1>0, <1>1 DEF Reprocess, MatchOK
  <2>2. Resolve(m, s, {}, FALSE) /\ match' = match
    BY <1>1, <2>1 DEF Reprocess
  <2>3. \A k \in Matches \ {m} : touched'[k] = touched[k]
    BY <1>0, <1>1 DEF Reprocess, MatchOK
  <2> QED BY <2>1, <2>2, <2>3, ResolveSettlesAll
<1>2. ASSUME NEW b \in Boards, LaterState(m, b)
      PROVE  SlotsSettled'
  <2>0. [match[m] EXCEPT !.board = b] \in Match
    <3>1. match[m] \in Match
      BY <1>0, <1>2 DEF LaterState, MatchOK
    <3> QED BY <3>1 DEF Match
  <2>1. PICK s \in Match : s = [match[m] EXCEPT !.board = b]
    BY <2>0
  <2>2. s.entry = match[m].entry
    BY <1>0, <1>2, <2>1 DEF LaterState, MatchOK, Match
  <2>5. /\ match[m] # None /\ match'[m].entry = match[m].entry
        /\ \A k \in Matches \ {m} : match'[k] = match[k]
    BY <1>0, <1>2, LaterStateKeepsRow
  <2>3. PICK kept \in SUBSET registered, waits \in BOOLEAN : kept = booked[m] /\ waits = pending[m]
    BY <1>0 DEF SlotOK
  <2>4. Resolve(m, s, kept, waits) /\ UNCHANGED touched
    BY <1>2, <2>1, <2>3 DEF LaterState
  <2> QED BY <2>2, <2>3, <2>4, <2>5, ResolveSettlesAll DEF Open
<1>3. ASSUME NEW b \in Boards, NEW d \in 0 .. MaxDelay, NEW e \in Entry, FirstState(m, b, now - d, e)
      PROVE  SlotsSettled'
  <2>1. now \in Nat
    BY DEF P!IInv, P!TypeOK
  <2>2. PICK s \in Match : s = [board |-> b, played |-> now - d, entry |-> e]
    <3>1. [board |-> b, played |-> now - d, entry |-> e] \in Match
      BY <2>1, BoundsAssumption DEF Match
    <3> QED BY <3>1
  <2>3. Resolve(m, s, {}, FALSE) /\ match' = [match EXCEPT ![m] = s] /\ touched' = touched
    BY <1>3, <2>2 DEF FirstState
  <2>4. match'[m] = s /\ \A k \in Matches \ {m} : match'[k] = match[k]
    BY <1>0, <2>3 DEF MatchOK
  <2> QED BY <2>3, <2>4, ResolveSettlesAll
<1> QED BY <1>1, <1>2, <1>3 DEF Report

LEMMA AssigningSettles ==
  ASSUME TypeOK, SlotsSettled, NEW m \in Matches, NEW x \in registered \cup {Ignored},
         ResolvePending(m, x)
  PROVE  SlotsSettled'
<1>0. PeopleOK /\ OverrideOK /\ MatchOK
  BY Parts
<1>1. PeopleKept
  <2>1. CASE person' = person
    BY <2>1, NothingChangedKeepsPeople DEF ResolvePending
  <2>2. CASE x # Ignored /\ person' = TakeOver(x, match[m].entry.account)
    <3>1. PICK y : y = match[m].entry.account
      OBVIOUS
    <3> QED BY <1>0, <2>2, <3>1, TakeOverKeepsPeople DEF ResolvePending
  <2> QED BY <2>1, <2>2 DEF ResolvePending
<1>2. ASSUME NEW k \in Matches, Open(k)'
      PROVE  Settles(k, match[k].entry)'
  <2>1. touched'[k] = (touched[k] \/ k = m)
    BY DEF ResolvePending, Touch
  <2>2. k # m /\ touched'[k] = touched[k]
    BY <1>0, <1>2, <2>1 DEF Open, MatchOK
  <2>3. match'[k] = match[k] /\ booked'[k] = booked[k] /\ override'[k] = override[k]
    BY <1>0, <2>2 DEF ResolvePending, OverrideOK
  <2> QED BY <1>1, <1>2, <2>2, <2>3, OthersSettled
<1> QED BY <1>2 DEF SlotsSettled

LEMMA CreatingSettles ==
  ASSUME TypeOK, SlotsSettled, NEW n \in Names, NEW on \in BOOLEAN, CreatePlayer(n, on)
  PROVE  SlotsSettled'
<1>0. PeopleOK /\ AliasOK
  BY Parts
<1>1. PeopleKept
  BY <1>0, AddPersonKeepsPeople DEF CreatePlayer
<1> QED BY <1>1, OthersSettled DEF CreatePlayer, matchVars, SlotsSettled

\* Whoever changes where a name leads to touches the matches played under it.
LEMMA AliasesSettle ==
  ASSUME TypeOK, SlotsSettled, NEW n, NEW z, UNCHANGED <<person, matchVars>>,
         alias' = [alias EXCEPT ![n] = z], Touch(EntriesNamed(n))
  PROVE  SlotsSettled'
<1>0. AliasOK /\ SlotOK /\ MatchOK
  BY Parts
<1>1. ASSUME NEW m \in Matches, Open(m)'
      PROVE  Settles(m, match[m].entry)'
  <2>1. Open(m) /\ match' = match /\ m \notin EntriesNamed(n)
    BY <1>1 DEF matchVars, Touch, Open
  <2>2. PICK e \in Entry : e = match[m].entry
    BY <1>0, <2>1, EntryOfOpen DEF Open
  <2>3. Main(e) # n
    BY <2>1, <2>2 DEF EntriesNamed, Open
  <2>4. e.name # NoName => Candidate(Main(e))' = Candidate(Main(e))
    BY <1>0, <2>3, MainIsName, SameNamesSameCandidates DEF AliasOK, registered
  <2>5. Settles(m, e)
    BY <2>1, <2>2 DEF SlotsSettled
  <2>6. Settles(m, e)'
    BY <2>4, <2>5 DEF Settles, Backed, matchVars
  <2> QED BY <2>1, <2>2, <2>6 DEF Settles, Backed
<1> QED BY <1>1 DEF SlotsSettled

LEMMA ProtectingSettles ==
  ASSUME TypeOK, SlotsSettled, NEW p \in registered, NEW on \in BOOLEAN, Protect(p, on)
  PROVE  SlotsSettled'
<1>0. PeopleOK /\ SlotOK
  BY Parts
<1>1. ASSUME NEW m \in Matches, Open(m)'
      PROVE  Settles(m, match[m].entry)'
  <2>1. Open(m) /\ UNCHANGED <<alias, matchVars>> /\ m \notin CountingFor(p)
    BY <1>1 DEF Protect, matchVars, Touch, Open
  <2>2. PICK e : e = match[m].entry
    OBVIOUS
  <2>3. /\ registered' = registered
        /\ \A q \in registered : person'[q].name = person[q].name /\ person'[q].account = person[q].account
        /\ \A q \in booked[m] : q \in registered /\ person'[q] = person[q]
    BY <1>0, <2>1 DEF Protect, PeopleOK, Person, SlotOK, CountingFor, registered
  <2>4. Candidate(Main(e))' = Candidate(Main(e))
    BY <2>1, <2>3, SameNamesSameCandidates
  <2>5. Settles(m, e)
    BY <2>1, <2>2 DEF SlotsSettled
  <2>6. Settles(m, e)'
    BY <2>1, <2>3, <2>4, <2>5 DEF Settles, Backed, matchVars
  <2> QED BY <2>1, <2>2, <2>6 DEF Settles, Backed, matchVars
<1> QED BY <1>1 DEF SlotsSettled

LEMMA MergingSettles ==
  ASSUME TypeOK, SlotsSettled, NEW a, NEW b, Merge(a, b)
  PROVE  SlotsSettled'
<1>0. PeopleOK /\ AliasOK /\ OverrideOK /\ SlotOK /\ MatchOK
  BY Parts
<1>1. /\ a \in registered /\ b \in registered /\ a # b /\ registered' = registered \ {a}
      /\ match' = match
  BY DEF Merge, registered
<1>2. \A q \in registered' : /\ person'[q].name = person[q].name
                             /\ person'[q].protected = person[q].protected
  BY <1>0, <1>1 DEF Merge, PeopleOK, Person
<1>3. \A q \in registered' : person[q].account # NoAccount => person'[q].account = person[q].account
  BY <1>0, <1>1 DEF Merge, PeopleOK, Person
<1>4. person[b].account = NoAccount => person'[b].account = person[a].account
  BY <1>0, <1>1 DEF Merge, PeopleOK, Person
<1>5. ASSUME NEW k \in Names, NEW q \in registered, Candidate(k) = q
      PROVE  Candidate(k)' = Moved(q, a, b)
  <2>1. alias'[k] = IF k = person[a].name /\ alias[k] = Nobody THEN b ELSE Moved(alias[k], a, b)
    BY DEF Merge, MergedAliases
  <2>2. CASE alias[k] # Nobody
    <3>1. alias[k] = q /\ alias'[k] = Moved(q, a, b)
      BY <1>5, <2>1, <2>2 DEF Candidate
    <3> QED BY <1>0, <1>1, <3>1, NobodyIsNoPlayer DEF Candidate, Moved
  <2>3. CASE alias[k] = Nobody
    <3>1. Named(k) = {q}
      <4>1. Named(k) # {} /\ q = CHOOSE r \in Named(k) : TRUE
        BY <1>5, <2>3, NobodyIsNoPlayer, <1>0 DEF Candidate
      <4>2. q \in Named(k)
        BY <4>1
      <4> QED BY <1>0, <4>2 DEF Named, PeopleOK
    <3>2. CASE q = a
      <4>1. alias'[k] = b
        BY <2>1, <2>3, <3>1, <3>2 DEF Named
      <4> QED BY <1>0, <1>1, <3>2, <4>1, NobodyIsNoPlayer DEF Candidate, Moved
    <3>3. CASE q # a
      <4>1. k # person[a].name
        BY <1>1, <3>1, <3>3 DEF Named
      <4>2. alias'[k] = Nobody
        BY <1>0, <1>1, <2>1, <2>3, <4>1, NobodyIsNoPlayer DEF Moved
      <4>3. Named(k)' = {q}
        BY <1>1, <1>2, <3>1, <3>3 DEF Named
      <4>4. (CHOOSE r \in {q} : TRUE) = q
        OBVIOUS
      <4> QED BY <3>3, <4>2, <4>3, <4>4 DEF Candidate, Moved
    <3> QED BY <3>2, <3>3
  <2> QED BY <2>2, <2>3
<1>6. ASSUME NEW m \in Matches, Open(m)'
      PROVE  Settles(m, match[m].entry)'
  <2>1. /\ Open(m)
        /\ a \in booked[m] =>
             /\ ~person[b].protected
             /\ person[a].account = NoAccount \/ person[b].account = NoAccount
    BY <1>1, <1>6 DEF Merge, Touch, CountingFor, Open
  <2>2. PICK e \in Entry : e = match[m].entry
    BY <1>0, <2>1, EntryOfOpen DEF Open
  <2>3. Settles(m, e)
    BY <2>1, <2>2 DEF SlotsSettled
  <2>4. booked'[m] = {Moved(p, a, b) : p \in booked[m]}
    BY DEF Merge
  <2> SUFFICES Settles(m, e)'
    BY <1>1, <2>2 DEF Settles, Backed
  <2>5. CASE booked[m] = {}
    BY <2>4, <2>5 DEF Settles
  <2>6. CASE booked[m] # {}
    <3>1. PICK p \in booked[m] :
            /\ booked[m] = {p}
            /\ IF override[m] # None THEN override[m].player = p ELSE Backed(p, e)
      BY <2>3, <2>6 DEF Settles
    <3>2. PICK q : q = Moved(p, a, b)
      OBVIOUS
    <3>3. booked'[m] = {q} /\ p \in registered /\ q \in registered'
      BY <1>0, <1>1, <2>4, <3>1, <3>2 DEF SlotOK, Moved
    <3>4. CASE override[m] # None
      <4>1. override'[m].player = q
        BY <1>0, <3>1, <3>2, <3>4 DEF Merge, Moved, OverrideOK, Override
      <4>2. override'[m] # None
        <5>1. CASE p = a
          <6>1. override[m] \in Override /\ b \in Players
            BY <1>0, <1>1, <3>4 DEF OverrideOK, PeopleOK
          <6>2. override'[m] = [override[m] EXCEPT !.player = b]
            BY <3>1, <3>4, <5>1 DEF Merge
          <6>3. override'[m] \in Override
            BY <6>1, <6>2 DEF Override
          <6> QED BY <6>3, RowAssumption
        <5>2. CASE p # a
          BY <3>1, <3>4, <5>2 DEF Merge
        <5> QED BY <5>1, <5>2
      <4> QED BY <3>3, <4>1, <4>2 DEF Settles
    <3>5. CASE override[m] = None
      <4>1. override'[m] = None
        BY <3>5 DEF Merge
      <4>2. Backed(p, e)
        BY <3>1, <3>5
      <4>3. CASE e.account # NoAccount
        <5>1. person[p].account = e.account /\ e.code = NoCode
          BY <4>2, <4>3 DEF Backed
        <5>2. person'[q].account = e.account
          <6>1. CASE p = a
            BY <1>4, <2>1, <3>1, <3>2, <4>3, <5>1, <6>1 DEF Moved
          <6>2. CASE p # a
            BY <1>1, <1>3, <3>2, <3>3, <4>3, <5>1, <6>2 DEF Moved
          <6> QED BY <6>1, <6>2
        <5>3. Backed(q, e)'
          BY <4>3, <5>1, <5>2 DEF Backed
        <5> QED BY <3>3, <4>1, <5>3 DEF Settles
      <4>4. CASE e.account = NoAccount
        <5>1. e.code = NoCode /\ e.name # NoName /\ Candidate(Main(e)) = p /\ ~person[p].protected
          BY <4>2, <4>4 DEF Backed
        <5>2. PICK k \in Names : k = Main(e)
          BY <5>1, MainIsName
        <5>3. Candidate(k)' = q
          BY <1>5, <3>2, <3>3, <5>1, <5>2
        <5>4. ~person'[q].protected
          BY <1>1, <1>2, <2>1, <3>1, <3>2, <3>3, <5>1 DEF Moved
        <5>5. Backed(q, e)'
          BY <4>4, <5>1, <5>2, <5>3, <5>4 DEF Backed
        <5> QED BY <3>3, <4>1, <5>5 DEF Settles
      <4> QED BY <4>3, <4>4
    <3> QED BY <3>4, <3>5
  <2> QED BY <2>5, <2>6
<1> QED BY <1>6 DEF SlotsSettled

LEMMA DeletingSettles ==
  ASSUME TypeOK, SlotsSettled, NEW p \in registered, DeletePlayer(p)
  PROVE  SlotsSettled'
<1>0. PeopleOK /\ SlotOK /\ MatchOK
  BY Parts
<1>1. ASSUME NEW m \in Matches, Open(m)'
      PROVE  Settles(m, match[m].entry)'
  <2>1. Open(m) /\ match' = match
    BY <1>1 DEF DeletePlayer, Open
  <2>2. PICK e \in Entry : e = match[m].entry
    BY <1>0, <2>1, EntryOfOpen DEF Open
  <2>3. Settles(m, e)
    BY <2>1, <2>2 DEF SlotsSettled
  <2> SUFFICES ASSUME booked'[m] # {} PROVE Settles(m, e)'
    BY <2>1, <2>2 DEF Settles, Backed
  <2>4. booked'[m] = booked[m] \ {p}
    BY DEF DeletePlayer
  <2>5. PICK q \in booked[m] :
          /\ booked[m] = {q}
          /\ IF override[m] # None THEN override[m].player = q ELSE Backed(q, e)
    BY <2>3, <2>4 DEF Settles
  <2>6. q # p /\ q \in registered /\ q # Nobody /\ booked'[m] = {q}
    BY <1>0, <2>4, <2>5, NobodyIsNoPlayer DEF SlotOK
  <2>7. override'[m] = override[m]
    BY <2>5, <2>6 DEF DeletePlayer
  <2>8. registered' = registered \ {p} /\ \A r \in registered' : person'[r] = person[r]
    BY DEF DeletePlayer, registered
  <2>9. ASSUME e.name # NoName, Candidate(Main(e)) = q
        PROVE  Candidate(Main(e))' = q
    <3>1. PICK k \in Names : k = Main(e)
      BY <2>9, MainIsName
    <3>2. alias'[k] = IF alias[k] = p THEN Nobody ELSE alias[k]
      BY DEF DeletePlayer
    <3>3. CASE alias[k] # Nobody
      BY <2>6, <2>9, <3>1, <3>2, <3>3 DEF Candidate
    <3>4. CASE alias[k] = Nobody
      <4>1. Named(k) # {} /\ q = CHOOSE r \in Named(k) : TRUE
        BY <2>6, <2>9, <3>1, <3>4 DEF Candidate
      <4>2. q \in Named(k)
        BY <4>1
      <4>3. Named(k) = {q}
        BY <1>0, <4>2 DEF Named, PeopleOK
      <4>4. Named(k)' = {q}
        BY <2>6, <2>8, <4>3 DEF Named
      <4>5. alias'[k] = Nobody
        BY <3>2, <3>4
      <4>6. (CHOOSE r \in {q} : TRUE) = q
        OBVIOUS
      <4> QED BY <3>1, <4>4, <4>5, <4>6 DEF Candidate
    <3> QED BY <3>3, <3>4
  <2>10. Backed(q, e) => Backed(q, e)'
    BY <2>6, <2>8, <2>9 DEF Backed
  <2> QED BY <2>5, <2>6, <2>7, <2>10 DEF Settles
<1> QED BY <1>1 DEF SlotsSettled

LEMMA RowsStaySettled ==
  ASSUME TypeOK, SlotsSettled, \/ \E b \in Boards : DeleteBoard(b)
                               \/ \E m \in Matches : DeleteMatch(m)
  PROVE  SlotsSettled'
<1>0. OverrideOK /\ SlotOK /\ MatchOK
  BY Parts
<1>1. UNCHANGED <<person, alias>>
  BY DEF DeleteBoard, DeleteMatch, nameVars
<1> DEFINE Same(k) == /\ Open(k) /\ match'[k].entry = match[k].entry
                      /\ booked'[k] = booked[k] /\ override'[k] = override[k]
<1>2. ASSUME NEW k \in Matches, Open(k)'
      PROVE  Same(k)
  <2>1. ASSUME NEW b \in Boards, DeleteBoard(b)
        PROVE  Same(k)
    <3>1. match[k] # None
      BY <1>2, <2>1 DEF DeleteBoard, Open
    <3>2. match[k] \in Match
      BY <1>0, <3>1 DEF MatchOK
    <3> QED BY <1>2, <2>1, <3>1, <3>2 DEF DeleteBoard, Open, Match
  <2>2. ASSUME NEW m \in Matches, DeleteMatch(m)
        PROVE  Same(k)
    <3>1. k # m
      BY <1>0, <1>2, <2>2 DEF DeleteMatch, Open, MatchOK
    <3>2. match'[k] = match[k] /\ touched'[k] = touched[k]
      BY <1>0, <2>2, <3>1 DEF DeleteMatch, MatchOK
    <3>3. booked'[k] = booked[k] /\ override'[k] = override[k]
      BY <1>0, <2>2, <3>1 DEF DeleteMatch, OverrideOK, SlotOK
    <3> QED BY <1>2, <3>2, <3>3 DEF Open
  <2> QED BY <2>1, <2>2
<1>3. ASSUME NEW k \in Matches, Open(k)'
      PROVE  Settles(k, match[k].entry)'
  <2>1. PICK e : e = match[k].entry
    OBVIOUS
  <2>2. Settles(k, e) /\ e = match'[k].entry
    BY <1>2, <1>3, <2>1 DEF SlotsSettled
  <2>3. Settles(k, e)'
    BY <1>1, <1>2, <1>3, <2>2 DEF Settles, Backed, Candidate, Named, registered
  <2> QED BY <2>2, <2>3 DEF Settles, Backed
<1> QED BY <1>3 DEF SlotsSettled

LEMMA BystandersStaySettled ==
  ASSUME SlotsSettled, UNCHANGED <<person, alias, match, override, booked, touched>>
  PROVE  SlotsSettled'
BY DEF SlotsSettled, Settles, Backed, Candidate, Named, registered, Open

LEMMA SettledInductive == P!IInv /\ TypeOK /\ SlotsSettled /\ [Next]_vars => SlotsSettled'
<1> SUFFICES ASSUME P!IInv, TypeOK, SlotsSettled, [Next]_vars PROVE SlotsSettled'
  OBVIOUS
<1>1. ASSUME NEW m \in Matches, Reprocess(m) \/ \E b \in Boards : Report(m, b, 0 .. MaxDelay, Entry)
      PROVE  SlotsSettled'
  BY <1>1, StatesSettle
<1>2. CASE Administer(Names)
  <2>1. ASSUME NEW m \in Matches, DeleteMatch(m) \/ \E x \in registered \cup {Ignored} : ResolvePending(m, x)
        PROVE  SlotsSettled'
    BY <2>1, RowsStaySettled, AssigningSettles
  <2>2. ASSUME NEW n \in Names, DeleteAlias(n)
        PROVE  SlotsSettled'
    BY <2>2, AliasesSettle DEF DeleteAlias
  <2>3. ASSUME NEW n \in Names, NEW on \in BOOLEAN, CreatePlayer(n, on)
        PROVE  SlotsSettled'
    BY <2>3, CreatingSettles
  <2>4. ASSUME NEW n \in Names, NEW p \in registered, CheckAlias(n, p)
        PROVE  SlotsSettled'
    BY <2>4, BystandersStaySettled DEF CheckAlias, nameVars, matchVars
  <2>5. ASSUME NEW p \in registered, \/ DeletePlayer(p) \/ \E on \in BOOLEAN : Protect(p, on)
                                     \/ \E b \in registered : Merge(p, b)
        PROVE  SlotsSettled'
    BY <2>5, DeletingSettles, ProtectingSettles, MergingSettles
  <2> QED BY <1>2, <2>1, <2>2, <2>3, <2>4, <2>5 DEF Administer
<1>3. CASE InsertAlias
  <2>1. PICK n, p : n = aliasing[1] /\ p = aliasing[2]
    OBVIOUS
  <2>2. CASE p \in registered
    BY <1>3, <2>1, <2>2, AliasesSettle DEF InsertAlias
  <2>3. CASE p \notin registered
    BY <1>3, <2>1, <2>3, BystandersStaySettled DEF InsertAlias, matchVars
  <2> QED BY <2>2, <2>3
<1>4. ASSUME NEW b \in Boards, DeleteBoard(b)
      PROVE  SlotsSettled'
  BY <1>4, RowsStaySettled
<1>5. CASE (\E b \in Boards : CheckinStep(b)) \/ ManageCheckins \/ Tick
  BY <1>5, BystandersStaySettled DEF CheckinStep, ManageCheckins, Tick, nameVars, matchVars
<1>6. CASE UNCHANGED vars
  BY <1>6, BystandersStaySettled DEF vars, nameVars, matchVars
<1> QED BY <1>1, <1>2, <1>3, <1>4, <1>5, <1>6 DEF Next

LEMMA InvariantOfIdentity == Spec => [](P!IInv /\ TypeOK /\ SlotsSettled)
<1>1. Init => P!IInv /\ TypeOK /\ SlotsSettled
  BY TypesInitially DEF Init, SlotsSettled, Open
<1>2. P!IInv /\ TypeOK /\ SlotsSettled /\ [Next]_vars => (P!IInv /\ TypeOK /\ SlotsSettled)'
  BY CheckinInductive, TypesInductive, SettledInductive
<1> QED BY <1>1, <1>2, PTL DEF Spec

\* "damit die Zuordnung beim Ingest stabil bleibt" (admin.go 129-130): whoever a slot
\* counts for, every later state and every rebuild of the match finds him again, until
\* an administrator assigns the slot, protects him or changes where the name leads to.
THEOREM BookingsAreStable == Spec => []BookingStable
BY InvariantOfIdentity, SettledIsStable, PTL

-----------------------------------------------------------------------------
(* Protected players *)

NewlyProtected(m, p) ==
  p \in (booked'[m] \ booked[m]) \cap registered /\ person[p].protected

HasProof(m, p) ==
  \/ override'[m] # None /\ override'[m].player = p
  \/ match'[m].entry.account \in Accounts \cap {person[p].account}
  \/ booked[m] \ registered' # {}

\* resolvePlayer books a protected player for an assignment, a code or his account only.
LEMMA ResolveNeedsProof ==
  ASSUME P!IInv, RefsOK, NEW m \in Matches, NEW s \in Match,
         NEW kept \in SUBSET booked[m], NEW waits \in BOOLEAN, Resolve(m, s, kept, waits),
         match'[m].entry = s.entry, NEW k \in Matches, NEW p, NewlyProtected(k, p)
  PROVE  HasProof(k, p)
<1> DEFINE e == s.entry
<1> PICK o : o = OwnerOf(m, s)
  OBVIOUS
<1>0. /\ e \in Entry /\ PeopleOK /\ AliasOK /\ OverrideOK /\ SlotOK
      /\ kept \in SUBSET registered /\ PeopleOK'
  <2>1. kept \in SUBSET registered
    BY DEF RefsOK, SlotOK
  <2> QED BY <2>1, ResolveKeepsRefs DEF Match, RefsOK
<1>1. ASSUME NEW q, NEW w, Counts(m, q, kept, w)
      PROVE  k = m /\ p = q
  BY <1>0, <1>1 DEF Counts, SlotOK, NewlyProtected
<1>2. p \in registered /\ p \in Players /\ p # Ignored /\ person[p].protected
  BY <1>0, AbsenceAssumption DEF NewlyProtected, PeopleOK
<1>3. CASE ByOverride(m, s, kept, waits)
  BY <1>1, <1>2, <1>3 DEF ByOverride, RuleOf, Rule, HasProof
<1>4. CASE Unnamed(m, s, kept, waits) \/ Wait(m, s, kept)
  BY <1>1, <1>2, <1>4 DEF Unnamed, Wait
<1>5. CASE ByCode(m, s, kept)
  <2>1. k = m /\ p = o /\ override'[m] = [player |-> o, source |-> "checkin"]
    BY <1>0, <1>1, <1>5 DEF ByCode, OverrideOK
  <2>2. override'[m] \in Override
    BY <1>2, <2>1 DEF Override
  <2> QED BY <2>1, <2>2, RowAssumption DEF HasProof
<1>6. CASE ByAccount(m, s, kept, waits)
  <2>1. e.account # NoAccount /\ Owners(e.account) # {} /\ o = CHOOSE q \in Owners(e.account) : TRUE
    BY <1>6 DEF ByAccount, RuleOf, Rule, OwnerOf
  <2>2. k = m /\ p = o
    BY <1>1, <1>6 DEF ByAccount
  <2>3. o \in Owners(e.account)
    BY <2>1
  <2> QED BY <1>0, <2>1, <2>2, <2>3 DEF Owners, HasProof, Entry
<1>7. CASE ByName(m, s, kept, waits)
  <2>1. o = Candidate(Main(e)) /\ ~person[o].protected
    BY <1>7 DEF ByName, RuleOf, Rule, MustWait, OwnerOf
  <2> QED BY <1>1, <1>2, <1>7, <2>1 DEF ByName
<1>8. CASE ByNewPlayer(m, s, kept, waits)
  BY <1>1, <1>2, <1>8, NewIdsAreNew DEF ByNewPlayer
<1> QED BY <1>3, <1>4, <1>5, <1>6, <1>7, <1>8 DEF Resolve

LEMMA StepNeedsProof ==
  ASSUME P!IInv, TypeOK, [Next]_vars, NEW m \in Matches, NEW p, NewlyProtected(m, p)
  PROVE  HasProof(m, p)
<1>0. RefsOK /\ MatchOK /\ SlotOK
  BY Parts DEF RefsOK
<1>1. booked' # booked
  BY <1>0 DEF NewlyProtected, SlotOK
<1>2. ASSUME NEW k \in Matches, Reprocess(k)
      PROVE  HasProof(m, p)
  <2>1. PICK s \in Match : s = match[k]
    BY <1>0, <1>2 DEF Reprocess, MatchOK
  <2> QED BY <1>0, <1>2, <2>1, ResolveNeedsProof DEF Reprocess
<1>3. ASSUME NEW k \in Matches, NEW b \in Boards, LaterState(k, b)
      PROVE  HasProof(m, p)
  <2>1. match[k] \in Match
    BY <1>0, <1>3 DEF LaterState, MatchOK
  <2>2. [match[k] EXCEPT !.board = b] \in Match /\ [match[k] EXCEPT !.board = b].entry = match[k].entry
    BY <2>1 DEF Match
  <2>3. PICK s \in Match : s = [match[k] EXCEPT !.board = b] /\ s.entry = match[k].entry
    BY <2>2
  <2>4. PICK kept \in SUBSET booked[k], waits \in BOOLEAN : kept = booked[k] /\ waits = pending[k]
    BY <1>0 DEF SlotOK
  <2>5. Resolve(k, s, kept, waits)
    BY <1>3, <2>3, <2>4 DEF LaterState
  <2>6. match'[k].entry = s.entry
    BY <1>0, <1>3, <2>3, LaterStateKeepsRow
  <2> QED BY <1>0, <2>5, <2>6, ResolveNeedsProof
<1>4. ASSUME NEW k \in Matches, NEW b \in Boards, NEW d \in 0 .. MaxDelay, NEW e \in Entry,
             FirstState(k, b, now - d, e)
      PROVE  HasProof(m, p)
  <2>1. now \in Nat
    BY DEF P!IInv, P!TypeOK
  <2>2. PICK s \in Match : s = [board |-> b, played |-> now - d, entry |-> e]
    <3>1. [board |-> b, played |-> now - d, entry |-> e] \in Match
      BY <2>1, BoundsAssumption DEF Match
    <3> QED BY <3>1
  <2>3. Resolve(k, s, {}, FALSE) /\ match'[k].entry = s.entry
    BY <1>0, <1>4, <2>2 DEF FirstState, MatchOK
  <2> QED BY <1>0, <2>3, ResolveNeedsProof
<1>5. ASSUME NEW a \in registered, NEW b \in registered, Merge(a, b)
      PROVE  HasProof(m, p)
  <2>1. p = b /\ a \in booked[m]
    BY <1>5 DEF Merge, Moved, NewlyProtected
  <2>2. a \notin registered'
    BY <1>5 DEF Merge, registered
  <2> QED BY <2>1, <2>2 DEF HasProof
<1>6. ASSUME NEW q \in registered, DeletePlayer(q)
      PROVE  HasProof(m, p)
  BY <1>6 DEF DeletePlayer, NewlyProtected
<1>7. ASSUME NEW k \in Matches, DeleteMatch(k)
      PROVE  HasProof(m, p)
  BY <1>0, <1>7 DEF DeleteMatch, NewlyProtected, SlotOK
<1> QED BY <1>1, <1>2, <1>3, <1>4, <1>5, <1>6, <1>7 DEF Next, Report, Administer, ResolvePending,
        DeleteAlias, CreatePlayer, CheckAlias, InsertAlias, Protect, DeleteBoard, CheckinStep,
        ManageCheckins, Tick, vars, matchVars

\* "von einem fremden Autodarts-Account mit gleichem Namen landen in der Freigabe-Queue"
\* (README 99-102): no step of resolvePlayer or of an administrator lets a protected name
\* count for its player without a code, an assignment or his own account.
THEOREM ProtectionHolds == Spec => ProtectedNeedsProof
<1>1. P!IInv /\ TypeOK /\ [Next]_vars =>
        [\A m \in Matches : \A p \in (booked'[m] \ booked[m]) \cap registered :
           person[p].protected =>
             \/ override'[m] # None /\ override'[m].player = p
             \/ match'[m].entry.account \in Accounts \cap {person[p].account}
             \/ booked[m] \ registered' # {}]_vars
  BY StepNeedsProof DEF NewlyProtected, HasProof
<1> QED BY <1>1, InvariantOfIdentity, PTL DEF Spec, ProtectedNeedsProof

=============================================================================
