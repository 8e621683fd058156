----------------------------- MODULE Tournament -----------------------------
(***************************************************************************)
(* Tournaments: server/internal/tournament/service.go.  Stored are the draw *)
(* and the results; the tree is computed (module Bracket).  A result is     *)
(* entered by hand, linked to a recorded match by the admin, or taken from  *)
(* a recorded match by syncTournament, which every operation on a running   *)
(* tournament ends with, and which the ingest calls for all tournaments     *)
(* whenever a finished match was stored or rebuilt (MatchFinished).         *)
(*                                                                         *)
(* Every operation is one transaction on the only database connection, so   *)
(* it is one step here.  Matches enter when they are finished: the service  *)
(* reads no others.  Time is a number of minutes.                           *)
(*                                                                         *)
(* Abstracted: names, legs, rules and their warnings, the source column.    *)
(***************************************************************************)
EXTENDS Bracket, SequencesExt

CONSTANTS
  Players,       \* who may exist
  Removable,     \* bound: who may be deleted or merged into somebody else
  Tournaments,   \* ids of tournaments, 1 .. n
  Setups,        \* what the admin may enter for a tournament: [order, third, lucky, llEntry]
  Orders,        \* bound: the orders a draw may give, besides the one it finds
  Sides,         \* the sides of the play-in a draw may give
  MaxMatches,    \* bound: ids of matches are 1 .. MaxMatches
  Outcomes,      \* what is read from a recorded match: [players, winner, waiting]
  MaxTime,       \* bound of the clock
  MaxDelay,      \* bound: how long after its beginning a match is stored as finished
  MaxManual,     \* bound: results entered by hand at a time
  MaxUpsets,     \* bound: how often something is cleared, deleted, merged, rebuilt or redelivered
  Skew           \* clockSkew

ASSUME TournamentAssumption ==
  /\ {MaxMatches, MaxTime, MaxDelay, MaxManual, MaxUpsets, Skew} \subseteq Nat
  /\ Tournaments \subseteq Nat \ {0} /\ IsFiniteSet(Tournaments)
  /\ Players \cap {Pending, Nobody} = {}
  /\ Orders \subseteq Seq(Players) /\ Sides \subseteq {0, 1}
  /\ \A o \in Outcomes : /\ o.players \subseteq Players /\ o.winner \in o.players \cup {Nobody}
                         /\ o.waiting \in BOOLEAN

\* A player takes part once.
ASSUME SetupAssumption ==
  \A t \in Tournaments : \A s \in Setups[t] :
    /\ s \in [order : Seq(Players), third : BOOLEAN, lucky : BOOLEAN, llEntry : Nat]
    /\ IsInjective(s.order)

VARIABLES
  tour,      \* by id: status, setup, draw, results and ignored matches
  matches,   \* partial function from ids to finished matches
  players,   \* the players that exist
  now,       \* the server's clock
  unsynced,  \* history: tournaments an operation has changed that calls no sync
  upsets     \* counts what MaxUpsets bounds

vars == <<tour, matches, players, now, unsynced, upsets>>

-----------------------------------------------------------------------------
NoTournament == [status |-> "none", order |-> <<>>, third |-> FALSE, lucky |-> FALSE, llEntry |-> 0,
                 playinMatch |-> 0, playinSide |-> 0, startedAt |-> 0, results |-> <<>>, ignored |-> {}]

\* Ids are given by SQLite: one more than the largest in use.
NextId(used) == 1 + Max(used \cup {0})

Existing == {t \in Tournaments : tour[t].status # "none"}
Active(T) == {t \in Tournaments : T[t].status \in {"running", "finished"}}

\* loadResults: a linked result was decided when its match was last stored.
Loaded(results, ms) ==
  Table([k \in DOMAIN results |->
     [player1 |-> results[k].player1, player2 |-> results[k].player2, winner |-> results[k].winner,
      decidedAt |-> IF results[k].match # 0 THEN ms[results[k].match].updated ELSE results[k].created]])

\* config
Config(c) == [n |-> Len(c.order), third |-> c.third, lucky |-> c.lucky, llEntry |-> c.llEntry,
              playinMatch |-> c.playinMatch, playinSide |-> c.playinSide]

\* The configurations of all tournaments there can be.
Configs ==
  LET setups == UNION {Setups[t] : t \in Tournaments}
      sizes == {Len(s.order) - i : s \in setups, i \in 0 .. Cardinality(Removable)}
      modes == {[third |-> s.third, lucky |-> s.lucky, llEntry |-> s.llEntry] : s \in setups}
      draws == [playinMatch : 0 .. Max(sizes) \div 2, playinSide : {0} \cup Sides]
      configs == {[n |-> n] @@ m @@ d : n \in sizes, m \in modes, d \in draws}
      drawable(c) == Buildable(c) /\ (c.playinMatch + c.playinSide > 0 => c.lucky)
  IN {d \in configs : drawable(d)}

\* Their layouts
Layouts == Table([c \in Configs |-> Layout(c)])

\* A tournament whose tree can be built; for any other a sync fails and its operation with it.
Synchronisable(T, t) == Buildable(Config(T[t]))

LayoutFor(l) == IF l \in Configs THEN Layouts[l] ELSE Layout(l)

\* evalTournament
Eval(c, ms) == Evaluate(LayoutFor(Config(c)), c.order, Loaded(c.results, ms), c.startedAt)

\* readMatch: a match these two played against each other, with a winner.
Readable(m, a, b) == a # b /\ m.players = {a, b} /\ m.winner # Nobody

\* putResult, an upsert
Put(c, k, a, b, w, m, at) ==
  LET r == [player1 |-> a, player2 |-> b, winner |-> w, match |-> m, created |-> at]
  IN [c EXCEPT !.results = Over([l \in {k} |-> r], @)]

Without(f, ks) == Table([k \in DOMAIN f \ ks |-> f[k]])

-----------------------------------------------------------------------------
(* syncTournament *)

\* Faulty variant: linked results keep what was read when they were linked.
RefreshNothing(c, ms) == c

\* refreshLinked: take over the winners of linked matches; a match that no longer
\* fits the pairing is left alone.
RefreshLinked(c, ms) ==
  [c EXCEPT !.results =
     Table([k \in DOMAIN @ |->
              LET r == c.results[k]
              IN IF r.match # 0 /\ Readable(ms[r.match], r.player1, r.player2)
                 THEN [r EXCEPT !.winner = ms[r.match].winner] ELSE r])]

\* Faulty variant: only the tournament itself is searched for a use of the match.
CandidatesUsedElsewhere(T, t, ms, p) ==
  {m \in DOMAIN ms : /\ ms[m].players = {p.a, p.b} /\ ~ms[m].waiting
                     /\ ms[m].started + Skew >= p.readyAt
                     /\ \A k \in DOMAIN T[t].results : T[t].results[k].match # m
                     /\ m \notin T[t].ignored}

\* Faulty variant: a match the admin has detached is taken again.
CandidatesIgnored(T, t, ms, p) ==
  {m \in DOMAIN ms : /\ ms[m].players = {p.a, p.b} /\ ~ms[m].waiting
                     /\ ms[m].started + Skew >= p.readyAt
                     /\ \A u \in Tournaments : \A k \in DOMAIN T[u].results : T[u].results[k].match # m}

\* findCandidate's condition: a match of exactly the two players of pairing p, begun
\* after p got free, no participant of which waits for an administrator (match_pending),
\* used by no tournament and not detached from this one.
Candidates(T, t, ms, p) ==
  {m \in DOMAIN ms : /\ ms[m].players = {p.a, p.b} /\ ~ms[m].waiting
                     /\ ms[m].started + Skew >= p.readyAt
                     /\ \A u \in Tournaments : \A k \in DOMAIN T[u].results : T[u].results[k].match # m
                     /\ m \notin T[t].ignored}

\* findCandidate: the earliest of them.
Earliest(ms, ids) ==
  CHOOSE m \in ids : \A n \in ids : ms[m].started < ms[n].started
                                    \/ (ms[m].started = ms[n].started /\ m =< n)

\* The ready pairings whose candidate has a winner; a candidate without one hides the others.
Assignable(T, t, ms, ev) ==
  {k \in ReadyKeys(ev) :
     LET ids == Candidates(T, t, ms, ev[k])
     IN ids # {} /\ ms[Earliest(ms, ids)].winner # Nobody}

\* One turn of the loop: the first such pairing takes its match.
AssignIn(ev, T, t, ms, at) ==
  LET ready == Assignable(T, t, ms, ev)
      k == CHOOSE x \in ready : \A y \in ready : x = y \/ Precedes(x, y)
      m == Earliest(ms, Candidates(T, t, ms, ev[k]))
  IN IF ready = {} THEN T
     ELSE [T EXCEPT ![t] = Put(T[t], k, ev[k].a, ev[k].b, ms[m].winner, m, at)]

AssignOne(T, t, ms, at) == AssignIn(Eval(T[t], ms), T, t, ms, at)

\* Faulty variant: the tree is not looked at again after an assignment.
AssignOnce(T, t, ms, at) == AssignOne(T, t, ms, at)

\* The turns of the loop; every one that assigns uses up a match.
Assignments(T, t, ms, at) ==
  LET after[i \in 0 .. Cardinality(DOMAIN ms)] ==
        IF i = 0 THEN T ELSE AssignOne(after[i - 1], t, ms, at)
  IN after

\* The loop, until no pairing takes a match.
AssignAll(T, t, ms, at) == Assignments(T, t, ms, at)[Cardinality(DOMAIN ms)]

\* Faulty variant: results whose pairing has changed stay.
PruneNothing(c, ev) == c

\* Results that fit no pairing any more are removed.
Prune(c, ev) == [c EXCEPT !.results = Without(@, DOMAIN @ \ UsedKeys(ev))]

\* Faulty variant: a finished tournament stays finished.
SetStatusOnce(c, ev) == [c EXCEPT !.status = IF Complete(Config(c), ev) THEN "finished" ELSE @]

SetStatus(c, ev) == [c EXCEPT !.status = IF Complete(Config(c), ev) THEN "finished" ELSE "running"]

\* What follows the loop
PruneAndSetStatus(c, ev) == SetStatus(Prune(c, ev), ev)

Sync(T, t, ms, at) ==
  [AssignAll([T EXCEPT ![t] = RefreshLinked(@, ms)], t, ms, at)
     EXCEPT ![t] = PruneAndSetStatus(@, Eval(@, ms))]

\* ORDER BY started_at, id
FirstStarted(T, ts) ==
  CHOOSE t \in ts : \A u \in ts : \/ T[t].startedAt < T[u].startedAt
                                \/ (T[t].startedAt = T[u].startedAt /\ t =< u)

\* The running and finished tournaments; one that cannot be synchronised is left as it was.
Due(T) == {t \in Active(T) : Synchronisable(T, t)}

SyncFirst(s, ms, at) ==
  LET t == FirstStarted(s.tour, s.left)
  IN [tour |-> Sync(s.tour, t, ms, at), left |-> s.left \ {t}]

SyncTurns(T, ms, at) ==
  LET after[i \in 0 .. Cardinality(Due(T))] ==
        IF i = 0 THEN [tour |-> T, left |-> Due(T)]
        ELSE SyncFirst(after[i - 1], ms, at)
  IN after

\* MatchFinished: one after the other, the earliest first.
SyncAll(T, ms, at) == SyncTurns(T, ms, at)[Cardinality(Due(T))].tour

-----------------------------------------------------------------------------
Upset == upsets < MaxUpsets /\ upsets' = upsets + 1
Calm  == UNCHANGED upsets

(* The admin prepares a tournament *)

\* Create
Create(t, s) ==
  /\ Calm
  /\ t = NextId(Existing)
  /\ ToSet(s.order) \subseteq players
  /\ tour' = [tour EXCEPT ![t] = [NoTournament EXCEPT
                !.status = "draft", !.order = s.order, !.third = s.third, !.lucky = s.lucky,
                !.llEntry = s.llEntry]]
  /\ unsynced' = unsynced \ {t}
  /\ UNCHANGED <<matches, players, now>>

\* Update before the start
Edit(t, s) ==
  /\ Calm
  /\ tour[t].status = "draft"
  /\ ToSet(s.order) \subseteq players
  /\ tour' = [tour EXCEPT ![t].order = s.order, ![t].third = s.third, ![t].lucky = s.lucky,
                          ![t].llEntry = s.llEntry]
  /\ UNCHANGED <<matches, players, now, unsynced>>

\* What every handler of a running tournament does before it commits.
CommitSynced(T, t) ==
  /\ Synchronisable(T, t)
  /\ tour' = Sync(T, t, matches, now)
  /\ unsynced' = unsynced \ {t}
  /\ UNCHANGED <<matches, players, now>>

\* Update after the start: only name and rules change, which are not modelled.
Resync(t) ==
  /\ Calm
  /\ t \in Active(tour)
  /\ CommitSynced(tour, t)

\* The orders a draw may give to the players of an order.
Draws(order) == {order} \cup {o \in Orders : ToSet(o) = ToSet(order) /\ IsInjective(o)}

\* The common part of Start and Redraw: a new draw, and the lucky loser's opponent.
Drawn(t, started) ==
  LET c == Config(tour[t])
      e == Entry(c)
  IN /\ Synchronisable(tour, t)
     /\ \E order \in Draws(tour[t].order) :
        \E playinMatch \in IF c.lucky THEN 0 .. Width(c, e) - 1 ELSE {0} :
        \E playinSide \in IF c.lucky THEN Sides ELSE {0} :
          CommitSynced([tour EXCEPT ![t].order = order, ![t].playinMatch = playinMatch,
                                    ![t].playinSide = playinSide, ![t].startedAt = started,
                                    ![t].status = "running"], t)

Start(t) ==
  /\ Calm
  /\ tour[t].status = "draft"
  /\ Drawn(t, now)

\* Keeps the time of the start.
Redraw(t) ==
  /\ Calm
  /\ tour[t].status = "running"
  /\ DOMAIN tour[t].results = {}
  /\ Drawn(t, tour[t].startedAt)

\* Delete: rows that refer to the tournament go with it; no other one is synchronised.
Delete(t) ==
  /\ Upset
  /\ tour[t].status # "none"
  /\ tour' = [tour EXCEPT ![t] = NoTournament]
  /\ unsynced' = unsynced \ {t}
  /\ UNCHANGED <<matches, players, now>>

-----------------------------------------------------------------------------
(* The admin enters results *)

\* withMatch: the pairings whose players are known.
FixedKeys(t) ==
  IF t \in Active(tour) /\ Synchronisable(tour, t)
  THEN LET ev == Eval(tour[t], matches) IN ReadyKeys(ev) \cup UsedKeys(ev)
  ELSE {}

\* Results that are no match's
Manual ==
  UNION {{<<t, k>> : k \in {l \in DOMAIN tour[t].results : tour[t].results[l].match = 0}} :
         t \in Tournaments}

\* SetResult; it replaces a result, and its link.  The row's players exist (foreign keys).
SetResult(t, k) ==
  /\ Calm
  /\ Cardinality(Manual \ {<<t, k>>}) < MaxManual
  /\ \E p \in {Eval(tour[t], matches)[k]} : \E w \in {p.a, p.b} :
       /\ {p.a, p.b} \subseteq players
       /\ CommitSynced([tour EXCEPT ![t] = Put(@, k, p.a, p.b, w, 0, now)], t)

LinkMatch(t, k, m) ==
  /\ Calm
  /\ \A u \in Tournaments : \A l \in DOMAIN tour[u].results :
       tour[u].results[l].match = m => u = t /\ l = k
  /\ \E p \in {Eval(tour[t], matches)[k]} :
     LET c == [tour[t] EXCEPT !.ignored = @ \ {m}]
     IN /\ Readable(matches[m], p.a, p.b)
        /\ CommitSynced([tour EXCEPT ![t] = Put(c, k, p.a, p.b, matches[m].winner, m, now)], t)

\* Faulty variant: what the result was linked to is not looked at.
ClearResultUnchecked(t, k) ==
  /\ Upset
  /\ t \in Active(tour)
  /\ k \in DOMAIN tour[t].results
  /\ CommitSynced([tour EXCEPT ![t].ignored = @ \cup {tour[t].results[k].match},
                               ![t].results = Without(@, {k})], t)

\* ClearResult: a linked match is not assigned to this tournament again.
ClearResult(t, k) ==
  /\ Upset
  /\ t \in Active(tour)
  /\ k \in DOMAIN tour[t].results
  /\ CommitSynced([tour EXCEPT ![t].ignored = @ \cup ({tour[t].results[k].match} \ {0}),
                               ![t].results = Without(@, {k})], t)

-----------------------------------------------------------------------------
(* Matches are recorded, delivered again, rebuilt and deleted *)

\* After an ingest that stored a finished match
Hook(ms) ==
  /\ matches' = ms
  /\ tour' = SyncAll(tour, ms, now)
  /\ unsynced' = unsynced \ Due(tour)
  /\ UNCHANGED <<players, now>>

\* A match begun at some earlier time is stored as finished.
RecordMatch(o, started) ==
  LET m == NextId(DOMAIN matches)
      new == [players |-> o.players, winner |-> o.winner, waiting |-> o.waiting,
              started |-> started, updated |-> now]
  IN /\ m =< MaxMatches
     /\ Calm
     /\ o.players \subseteq players
     /\ started \in 0 .. now /\ now - started =< MaxDelay
     /\ Hook(Over([n \in {m} |-> new], matches))

\* The finished state is delivered once more: updated_at moves.
Redeliver(m) ==
  /\ Upset
  /\ matches[m].updated # now
  /\ Hook([matches EXCEPT ![m].updated = now])

\* ResolvePending's first transaction, for the last participant who waits; the match is
\* rebuilt in a second one.
Decide(m) ==
  /\ Upset
  /\ matches[m].waiting
  /\ matches' = [matches EXCEPT ![m].waiting = FALSE]
  /\ UNCHANGED <<tour, players, now, unsynced>>

\* ReprocessMatch: other players or another winner are read from the stored state, and who
\* has to wait is decided anew.
Reprocess(m, o) ==
  /\ Upset
  /\ o.players \subseteq players
  /\ Hook([matches EXCEPT ![m].players = o.players, ![m].winner = o.winner,
                          ![m].waiting = o.waiting])

\* adminDeleteMatch: results are kept without their match.
DeleteMatch(m) ==
  /\ Upset
  /\ matches' = Without(matches, {m})
  /\ tour' = [t \in Tournaments |->
       [tour[t] EXCEPT !.ignored = @ \ {m},
                       !.results = [k \in DOMAIN @ |-> IF @[k].match = m THEN [@[k] EXCEPT !.match = 0]
                                                       ELSE @[k]]]]
  /\ UNCHANGED <<players, now, unsynced>>

-----------------------------------------------------------------------------
(* Players are deleted and merged; neither synchronises *)

\* The tournaments whose draw, results or linked matches a step changes.
Changed ==
  {t \in Tournaments :
     \/ tour'[t] # tour[t]
     \/ \E k \in DOMAIN tour[t].results :
          LET m == tour[t].results[k].match IN m # 0 /\ matches'[m] # matches[m]}

\* A draw without player p.
WithoutPlayer(order, p) ==
  IF p \notin ToSet(order) THEN order
  ELSE LET at == CHOOSE i \in DOMAIN order : order[i] = p
       IN [i \in 1 .. Len(order) - 1 |-> order[IF i < at THEN i ELSE i + 1]]

\* adminDeletePlayer, with the rows that refer to the player
DeletePlayer(p) ==
  /\ Upset
  /\ p \in players
  /\ players' = players \ {p}
  /\ matches' = [m \in DOMAIN matches |->
       [matches[m] EXCEPT !.players = @ \ {p}, !.winner = IF @ = p THEN Nobody ELSE @]]
  /\ tour' = [t \in Tournaments |->
       [tour[t] EXCEPT !.order = WithoutPlayer(@, p),
                       !.results = Without(@, {k \in DOMAIN @ : p \in {@[k].player1, @[k].player2}})]]
  /\ unsynced' = unsynced \cup Changed
  /\ UNCHANGED now

\* adminMerge: rows of p become rows of q unless q has one already.
MergePlayers(p, q) ==
  LET name(x) == IF x = p THEN q ELSE x
      renamed(r) == [r EXCEPT !.player1 = name(@), !.player2 = name(@), !.winner = name(@)]
  IN /\ Upset
     /\ {p, q} \subseteq players /\ p # q
     /\ players' = players \ {p}
     /\ matches' = [m \in DOMAIN matches |->
          [matches[m] EXCEPT !.players = {name(x) : x \in @},
                             !.winner = IF @ = p /\ q \in matches[m].players THEN Nobody ELSE name(@)]]
     /\ tour' = [t \in Tournaments |->
          [tour[t] EXCEPT
             !.order = LET kept == IF q \in ToSet(@) THEN WithoutPlayer(@, p) ELSE @
                       IN [i \in DOMAIN kept |-> name(kept[i])],
             !.results = [k \in DOMAIN @ |-> renamed(@[k])]]]
     /\ unsynced' = unsynced \cup Changed
     /\ UNCHANGED now

Tick ==
  /\ Calm
  /\ now < MaxTime
  /\ now' = now + 1
  /\ UNCHANGED <<tour, matches, players, unsynced>>

-----------------------------------------------------------------------------
Init ==
  /\ tour = [t \in Tournaments |-> NoTournament]
  /\ matches = <<>>
  /\ players = Players
  /\ now = 0
  /\ unsynced = {}
  /\ upsets = 0

Prepare == \E t \in Tournaments : \E s \in Setups[t] : Create(t, s) \/ Edit(t, s)

Conduct == \E t \in Tournaments : Start(t) \/ Redraw(t) \/ Resync(t)

Enter ==
  \E t \in Tournaments : \E k \in FixedKeys(t) :
    SetResult(t, k) \/ \E m \in DOMAIN matches : LinkMatch(t, k, m)

Record == \E o \in Outcomes, at \in 0 .. now : RecordMatch(o, at)

Revise ==
  \/ \E t \in Tournaments : Delete(t) \/ \E k \in DOMAIN tour[t].results : ClearResult(t, k)
  \/ \E m \in DOMAIN matches : Redeliver(m) \/ Decide(m) \/ DeleteMatch(m)
  \/ \E m \in DOMAIN matches, o \in Outcomes : Reprocess(m, o)
  \/ \E p \in Removable : DeletePlayer(p) \/ \E q \in Players : MergePlayers(p, q)

Next == Prepare \/ Conduct \/ Enter \/ Record \/ Revise \/ Tick

Spec == Init /\ [][Next]_vars

-----------------------------------------------------------------------------
(* Properties *)

Evaluated == Due(tour)
EvalOf(t) == Eval(tour[t], matches)

\* Every variable has its type: results name pairings and participants, links point at
\* recorded matches or nothing.
TypeOK ==
  /\ \A m \in DOMAIN matches : /\ m \in 1 .. MaxMatches
                               /\ matches[m].players \subseteq players
                               /\ matches[m].winner \in matches[m].players \cup {Nobody}
                               /\ matches[m].waiting \in BOOLEAN
                               /\ matches[m].started \in 0 .. matches[m].updated
  /\ \A t \in Tournaments :
       /\ tour[t].status \in {"none", "draft", "running", "finished"}
       /\ ToSet(tour[t].order) \subseteq players
       /\ tour[t].ignored \subseteq DOMAIN matches
       /\ \A k \in DOMAIN tour[t].results :
            LET r == tour[t].results[k]
            IN {r.player1, r.player2, r.winner} \subseteq players /\ r.match \in {0} \cup DOMAIN matches
  /\ now \in 0 .. MaxTime

\* A recorded match decides one pairing, in all tournaments together: neither the
\* automatic assignment nor the admin's links, corrections, deletions and merges in any
\* order make it count twice.
MatchUsedOnce ==
  \A t, u \in Tournaments : \A k \in DOMAIN tour[t].results : \A l \in DOMAIN tour[u].results :
    tour[t].results[k].match # 0 /\ tour[t].results[k].match = tour[u].results[l].match
      => t = u /\ k = l

\* A match the admin has detached from a pairing stays detached from that tournament,
\* whatever is synchronised later, until the admin links it again.
DetachedStaysDetached ==
  \A t \in Tournaments : \A k \in DOMAIN tour[t].results : tour[t].results[k].match \notin tour[t].ignored

\* Every stored result is the result of its pairing as it now stands: none survives a
\* correction further up the tree to come back later.
NoStaleResult ==
  \A t \in Evaluated \ unsynced : DOMAIN tour[t].results = UsedKeys(EvalOf(t))

\* The stored status says whether the tree is decided: corrections reopen a finished
\* tournament, and the last result finishes it whichever way it comes in.
StatusTracksTree ==
  \A t \in Evaluated \ unsynced : tour[t].status = "finished" <=> Complete(Config(tour[t]), EvalOf(t))

\* A linked result has the winner of its match as last recorded, also after the match
\* was rebuilt.
LinkedResultsAgree ==
  \A t \in Evaluated \ unsynced : \A k \in DOMAIN tour[t].results :
    LET r == tour[t].results[k]
    IN r.match # 0 /\ Readable(matches[r.match], r.player1, r.player2)
         => r.winner = matches[r.match].winner

\* After an operation there is nothing left for another synchronisation of a tournament it
\* has changed: one pass assigns everything its own assignments make possible.  This holds
\* if no match is set free meanwhile: a match held by an expired result is looked for
\* before it is released, and waits for the next occasion.  So does a match the admin links
\* by hand to a pairing that is gone once an older link is refreshed (two players were
\* merged since).
Linked(T, t) == {T[t].results[k].match : k \in DOMAIN T[t].results} \ {0}

Settles(t) ==
  /\ tour'[t].results # tour[t].results
  /\ t \in Evaluated' \ unsynced'
  /\ DOMAIN matches \subseteq DOMAIN matches'
  /\ \A u \in Tournaments : Linked(tour, u) \subseteq Linked(tour', u)
  /\ \A k \in FixedKeys(t), m \in DOMAIN matches : LinkMatch(t, k, m) => m \in Linked(tour', t)
  => Sync(tour', t, matches', now') = tour'

SyncSettles == [][\A t \in Tournaments : Settles(t)]_vars

\* A running tournament can go on: unless it is decided, some pairing is ready to be played.
NeverStuck ==
  \A t \in Evaluated : Complete(Config(tour[t]), EvalOf(t)) \/ ReadyKeys(EvalOf(t)) # {}

\* Nobody is wanted at two boards: a player is in one ready pairing at most, and not in
\* both places of it.
OnePlaceAtATime ==
  \A t \in Evaluated :
    LET ev == EvalOf(t)
    IN \A k, l \in ReadyKeys(ev) :
         ev[k].a # ev[k].b /\ (k # l => {ev[k].a, ev[k].b} \cap {ev[l].a, ev[l].b} = {})

\* A player who is shown as out has no further pairing, and one who is shown as playing has
\* one to play or to wait for, except who is third without a match.
Third(ev) == IF ThirdKey \in DOMAIN ev /\ ev[ThirdKey].status = "walkover"
             THEN ev[ThirdKey].winner ELSE Nobody

OutIsFinal ==
  \A t \in Evaluated :
    LET ev == EvalOf(t)
        open == UNION {{ev[k].a, ev[k].b} : k \in {l \in DOMAIN ev : ev[l].status \in {"ready", "wait"}}}
        decided == Complete(Config(tour[t]), ev)
    IN \A p \in ToSet(tour[t].order) :
         Placement(Config(tour[t]), ev, p).out <=> (p \notin open /\ (Third(ev) = p => decided))

\* When a tournament is decided everybody has a place, one is first, one is second, and
\* nobody is placed worse than the number of better ones allows; without a lucky loser,
\* who can push some behind others who lost in the same round, places are exactly that.
PlacesAddUp ==
  \A t \in Evaluated :
    LET ev == EvalOf(t)
        place == [p \in ToSet(tour[t].order) |-> Placement(Config(tour[t]), ev, p).place]
        better(p) == Cardinality({q \in DOMAIN place : place[q] < place[p]})
        at(n) == {p \in DOMAIN place : place[p] = n}
    IN Complete(Config(tour[t]), ev) =>
         /\ Cardinality(at(1)) = 1 /\ Cardinality(at(2)) = 1
         /\ \A p \in DOMAIN place : IF tour[t].lucky THEN place[p] \in 1 .. better(p) + 1
                                   ELSE place[p] = better(p) + 1

\* The losers of a later main round who enter the lucky loser round do not meet a player
\* they have just played in the tree.
NoQuickRematch ==
  \A t \in Evaluated :
    LET ev == EvalOf(t)
    IN \A k \in {x \in LLKeys(Config(tour[t])) : JoiningRound(Config(tour[t]), x[2]) # 0}, l \in MainKeys(Config(tour[t])) :
         ev[k].status \in {"ready", "done"} /\ ev[l].status = "done" => {ev[k].a, ev[k].b} # {ev[l].a, ev[l].b}

\* A pairing is ready since the later of the matches that led to it has ended: as long as
\* no result changes, that moment does not move.
ReadinessKept ==
  [][\A t \in Evaluated \cap Evaluated' :
       LET ev == Eval(tour[t], matches)
           new == Eval(tour'[t], matches')
       IN tour'[t] = tour[t] => \A k \in ReadyKeys(ev) : new[k].readyAt = ev[k].readyAt]_vars

=============================================================================
