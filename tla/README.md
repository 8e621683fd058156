# autodarts-stats in TLA+

A verification project for autodarts-stats: TLA+ modules for the parts of the
program that keep state or compute what it shows, TLC configurations that check
them on small instances, and TLAPS proofs of the most important properties for
every instance. Paths are relative to `src/`; the Go packages are under
`server/internal/`.

    tlc -workers 2 -config MCIngest.cfg MCIngest    # one run; PROJECT.json lists all
    tlapm MatchIngestProofs.tla                     # one module of proofs

## The system

| Component | Source | State | Operations |
|---|---|---|---|
| Collector (browser extension) | `extension/bg.js` | queue in memory and `chrome.storage`, timer, alarm | `enqueue`, `flush`, messages, start-up |
| Parser | `parser/autodarts/` | none | `convert`, `fromFields` |
| Match ingest | `ingest/ingest.go` | `matches`, `match_snapshots`, `match_legs`, `match_players`, `match_pending` | `HandleEvent`, `ReprocessMatch`, `ResolvePending` |
| Unrecognised events | `ingest/ingest.go` | `unparsed_events`, `Service.MaxUnparsed` | `storeUnparsed`, `ReprocessUnparsed` |
| Identity | `ingest/ingest.go`, `names/`, `api/admin.go` | `players`, `player_aliases`, `match_overrides` | `resolvePlayer`, merge, alias, protect |
| Check-in | `ingest/checkin.go`, `api/checkin.go` | `checkins`, `player_chips`, `unknown_chips` | chip, manual, end, token lookup |
| Tournament | `tournament/` | `tournaments`, `tournament_players`, `tournament_results`, ignored matches | draw, result, link, clear, automatic assignment |
| Statistics, tournament views | `stats/`, `tournament/view.go` | none | queries |
| API, sessions | `api/` | login counter | handlers |
| Check-in agent | `cmd/autodarts-stats-agent`, `reader/` | debounce | poll the reader, post a check-in |
| Front end | `web/` | none | presentation |

How they interact:

- The extension's page script hands events to its service worker, which queues
  them and posts batches to `/api/ingest`. A batch is answered as a whole; after
  a failure, or when the answer is lost, it is sent again as a whole.
- The server handles the events of a batch one by one: the parser reads the
  statistics of leg and match from the payload, the ingest resolves each slot to
  a player (account, alias, name, or the code of a check-in) and writes the
  tables, each event in a transaction of its own over the only database
  connection (`db.go`, `SetMaxOpenConns(1)`). Transactions therefore never
  overlap, but everything that consists of several statements outside one does:
  storing an unrecognised event, reprocessing the unrecognised ones,
  `ResolvePending` (two transactions), `adminAddAlias`.
- When a match is stored as finished, or a finished one is rebuilt, the ingest
  calls the tournament service in the same transaction. The service looks for
  matches that decide a ready pairing.
- Administrators change players, aliases, protection, assignments, check-ins and
  tournaments between any two events. Merging and deleting players and boards
  changes the rows of every component.
- Statistics and tournament pages are queries over the same tables.

What is hard: states of one match arrive late, twice or not at all; derived
tables are kept incrementally *and* can be rebuilt; which player a slot is
booked for changes under both; a code is looked up by the time of play, possibly
long after it expired and was issued again; the worker awaits in the middle of
`flush`; Chrome ends it when it likes; `MaxUnparsed` is shared by all requests; a
correction in a tournament invalidates results further up; a match can be
claimed by several pairings of several tournaments; the same number is computed
from different tables on different pages. `PROJECT.json` lists these hazards
line by line.

## Modules

| Module | Models | Status |
|---|---|---|
| `MatchIngest` | one match in the database: events, archive, derived tables, rebuild, administration | checked, proved (`MatchIngestProofs`) |
| `EventStream` | abstract: what a collector promises the server | proved (`QueueProofs`) |
| `CollectorQueue` | the extension's service worker; implements `EventStream` | checked, proved (`QueueProofs`) |
| `MatchDelivery` | composition: a match's states through an `EventStream` into `MatchIngest` | checked, proved (`MatchIngestProofs`) |
| `UnparsedStore` | unrecognised events and their reprocessing, statement by statement | checked, proved (`UnparsedProofs`) |
| `Checkin` | check-ins, codes, chips; what merging and deleting do to them | proved (`CheckinProofs`), checked through `Identity` |
| `Identity` | who a slot is; names, aliases, accounts, protection; composed with `Checkin`, which it implements | checked, proved (`IdentityProofs`) |
| `LegParser` | the statistics the parser makes of a payload, as operators | checked and proved through `Scoring` |
| `Statistics` | the queries of `stats.go`, as operators over the tables | checked through `Scoring` |
| `Scoring` | composition: from the darts thrown through parser and ingest to the numbers shown | checked, its tables and sums proved (`ScoringProofs`) |
| `Bracket` | the knock-out tree of a tournament, as operators | checked through `Tournament`, proved (`BracketProofs`) |
| `Tournament` | the tournament service and the ingest's hook into it | checked, proved (`TournamentProofs`) |
| `TournamentView` | the tournament pages, as operators | checked, proved (`TournamentProofs`) |
| `MC...` | instances | |

### MatchIngest and MatchDelivery

One match. `match` is its row in `matches` with the payload (`raw_json`),
`snapshots` the archive of leg ends, `legs` and `players` the derived tables,
`waiting` the approval queue. A payload is a `Report`: leg, whether the leg has
ended and who won it, whether the match has ended and who won it. `HandleEvent`
is the whole function of that name, split by its early returns into
`FirstState`, `StaleState`, `SameLegState` and `NextLegState`; archiving a leg
and computing `match_players` belong to these steps. `Reprocess` is
`ReprocessMatch`. `Assign` is the first transaction of `ResolvePending`, the
second one is `Reprocess`; anything may happen in between. Only payloads that
were parsed are stored, so the ways out of `archiveLeg` and `ReprocessMatch` for
unreadable ones (`ingest.go`, lines 228 and 603) are not taken. `Protect`,
`MoveAlias` and `Merge` are the handlers of `api/admin.go` and `api/checkin.go`
as far as they change this match's rows or the outcome of `resolvePlayer`. How a
name finds a player is abstracted here: a slot *claims* a player (`Identity`
models how). `since` is a history variable: what may have set the derived tables
apart from a rebuild since the last one.

`MatchDelivery` hands a course of states to `MatchIngest` as an `EventStream`
does, and compares match, archive and legs (not the players and the approval
queue) with what handling each of the delivered states once yields, as long as
none of them was given up after all. A course goes `Forward`: never back to an
earlier leg, nor behind the end of a leg or of the match. What a state that takes an end back does is `IsLate` in `MatchIngest`.

### CollectorQueue and EventStream

The worker is single-threaded JavaScript; a step is what runs between two
awaits. An invocation of `flush` is a task with a program counter (`load`,
`config`, `fetch`, `loop`), a handler that waits for storage a member of
`reads`. `stored`, `alarm` and `configured` survive the worker's end, the rest
does not. `ServerHandles` lets the server handle one more event of the batch in
flight, so that failures in the middle of a batch and lost answers are covered.
`Faults` selects which awkward schedules are allowed: `overlap` (a second flush
while one reads the configuration), `race` (a handler starts while the queue is
being loaded), `shift` (the queue is cut or cleared while a batch is in flight),
`browser` (the browser ends and starts again), `crash` (the worker is killed).
`dropped` has what the server rejected, the user cleared, or a full queue cut,
and nothing else. `saved` is a history variable, the events that were once in
`stored`; an event neither saved nor waiting for storage is `Lost`, which happens
when the worker ends before storage has answered the handler that brought it.

`EventStream` is what the server may rely on: events are handled in order, with
repetitions of what is not acknowledged and without gaps; only the newest event
can be lost silently, and only while it was not handled (`Lose`). `CollectorQueue`
implements it under the mapping given next to `Stream` (property `StreamSpec`);
`MatchDelivery` builds on it instead of on the queue itself.

### UnparsedStore

Requests are goroutines. A step is one database statement or one use of
`MaxUnparsed`: `Post` tests it, `PostInsert` inserts the row, whatever it is by
then, and `PostTrim` is the trimming delete with the value read there; a
reprocess is `ListRows`, `Pause` (saves and zeroes `MaxUnparsed`), then `Handle`
and `DeleteRow` per row, and `Return` on all ways out. The table and the list a reprocess works through are sets of rows,
ordered by their ids. A new row's id follows the greatest in use, so an id may be
given again. A row of a deleted board may still be ingested, when its match
exists. A restart may bring parsers that recognise more.

### Checkin and Identity

`Checkin` has one action per transaction of `ingest/checkin.go` and of the
handlers around it. `CheckinPlayer` either extends the running check-in
(`Extend`) or issues a code by the rules of `freshToken` and cleans up
(`Issue`). `Holder` is `lookupToken`. `promises` is a history variable: what
players were told of their codes, and for which time. `TTL`, `Early`, `Hold` and
`Keep` are the durations of the code (length of a check-in, ten minutes,
24 hours, 30 days).

`Identity` has the remaining tables: `person`, `alias`, `override`, and per match
one slot with its `entry` (name, perhaps with a code, perhaps an account),
`pending` and `booked`. `Resolve` is `resolvePlayer` with all its rules, in their
order; `FirstState`, `LaterState` and `Reprocess` are the ingest as far as it
books a slot; a later state gives a match whose board was deleted the board that
delivers it. `CheckAlias` and `InsertAlias` are the two statements of
`adminAddAlias`. A normalised name is a base with a number, because `names.go`
makes "Tim (2)" of a second Tim. `touched` remembers which matches an
administrator's decision may have set apart from their tables.
`Identity` uses `Checkin`'s actions and adds what names and matches do;
`IdentityProofs` shows that it implements `Checkin`.

### LegParser, Statistics and Scoring

`LegParser` computes, from the turns of a payload and the statistics Autodarts
may have added, the statistics of leg and match for a slot (`LegStats`,
`MatchStats`), with the code's preferences between the two sources.
`Statistics` answers the queries of `stats.go` (`RowOf` for the ranking,
`Profile`, `Side` of a comparison, `Meta` for the site) under the filter of a
request (`ParseFilter`). Averages stay pairs of points and darts.
`Scoring` closes the loop: matches are *played* (environment), described in the
ways Autodarts may describe them, any report may be lost, and `HandleEvent`
fills `match_legs` and `match_players`. What was really thrown is kept beside
it (`truth`), so the properties compare what a page shows with what happened.

### Bracket, Tournament and TournamentView

`Bracket` follows `bracket.go`: `Layout` lays out main tree, lucky loser round,
play-in and third place over places in the draw, `Evaluate` puts in players and
results, `Placement` computes places. `Tournament` has one action per method of
the service; each is one transaction and ends with `Sync`, which is
`syncTournament`: take over linked matches (`RefreshLinked`), assign matches
until no ready pairing finds one (`AssignAll`, turn by turn in `Assignments`),
drop results that no longer fit (`Prune`), set the status. `RecordMatch`, `Redeliver` and `Reprocess` are the
ingest as the service sees it; `Hook` is `MatchFinished`, which synchronises
all running and finished tournaments in the order of their start (`SyncTurns`),
except those whose tree cannot be built (`Due`).
`DeletePlayer`, `DeleteMatch` and `MergePlayers` change tournaments without a
synchronisation; `unsynced` remembers which ones, those included whose linked
matches have changed (`Changed`). A match with a participant who waits for a
decision (`waiting`) is assigned to no pairing; `Decide` is the first transaction
of `ResolvePending` for the last of them, `Reprocess` the second. `TournamentView` is what the pages
make of it: the legs at each side of a pairing, records, places, the champion.

## Runs

| Run | Instance | Shows |
|---|---|---|
| `ingest` | 2 slots in three situations: any states of 3 legs in 2 sets in any order, with rebuilds; 2 legs with 3 players and 2 administrative steps anywhere; every course of 4 states delivered by an `EventStream` | a finished match stays finished, a leg is booked once, the incremental tables are the rebuilt ones and agree with one another, assigned slots count, waiting ones do not, repeating what was not acknowledged changes nothing |
| `ingest_lateState` | the first situation alone | **violated**: after a late running state has replaced the end of a leg, the next leg begins, and the end of the one before is missing from the archive |
| `queue_stream` | queue of 3, batches of 2, 2 flushes, 4 events, 2 failures, 1 end of the browser and 1 crash | nothing that was queued is lost, the stream is in order, queued events are sent |
| `queue_overlap` | as above, with `overlap` | **violated**: two overlapping flushes remove events never posted |
| `unparsed_store` | 3 payloads, cap 2, 2 posters, 1 reprocess, 1 restart, board deletion | no answered event is forgotten, storing resumes |
| `unparsed_during` | 2 payloads, posts during a reprocess | **violated**: an event delivered meanwhile is answered and dropped |
| `identity` | three situations: 2 matches of guests and accounts of 2 names, 2 administrative steps; a match with a code, 2 boards, 2 check-ins; 3 check-ins at one board as time passes | codes keep what players were told, slots that count stay with their player, a protected player needs proof |
| `identity_protected` | the first situation alone | **violated**: a player created protected under somebody's alias does not protect that name: a guest begins to count afterwards |
| `scoring` | three situations of 301: a leg played in many ways, described in four; a match over several legs with lost reports; 2 matches on 2 days of 3 players and a computer in 2 variants | the tables tell what was thrown, results survive losses, pages agree, quotients and periods are right |
| `bracket` | every tree of 2 to 5 players with and 2 to 7 without lucky loser, any course of results and corrections, one cleared result, or one player deleted or merged | never stuck, nobody wanted twice, out is final, places add up, no quick rematch, no stale result, status follows the tree, pages show each one's legs and a record that fits his place |
| `tournament` | lucky loser tournament of 3 and one of 2, two matches, one of which may wait for a decision, one upset | a match decides one pairing, detached stays detached, linked results agree, one synchronisation settles |
| `tournament_redelivery` | one of 3, two matches | **violated**: delivering a finished match again moves the moment since when the next pairing is ready |

Every property of a passing run has a mutant in `PROJECT.json`: a *faulty
variant* next to the definition, with which TLC finds the property violated.

### Bounds, and why they are enough

- **Ingest.** Progress compares pairs of set and leg, so three legs over two
  sets give every outcome of the comparison and a leg that is neither first nor
  last. Two slots give the winner, the loser, and two slots of one player. The
  state space of the match itself is finite: nothing bounds the number of events.
  Administrators act twice (`MaxAdminSteps`): `ResolvePending` races with one
  further operation. Four states of a delivered course cover a leg's end, its
  repetition and the step into the next leg, before and after an end; repetition
  itself is not bounded. The theorems need none of these bounds.
- **Queue.** A full queue (3) is longer than a batch (2), and one event more
  than a full queue arrives; two flushes are needed for an overlap; two failures
  can hit the same batch, and each kind of end may come once.
- **Unrecognised events.** One more payload than the cap; ids up to 4 so that a
  row is trimmed and a payload inserted again; ids of deleted rows are free again.
- **Identity.** Two names and two accounts give guest against guest, guest
  against account, and account against account; three variants of a name so that
  a numbered name is taken, too. Two administrative steps: one sets a rule up,
  the second changes it while a match counts by it. With a code time matters:
  two boards and two check-ins are the smallest instance in which a code finds
  two rows; three check-ins in five instants (`TTL` 2, `Early` and `Hold` 1,
  `Keep` 2) let a code be issued again after its hold and a row be cleaned up.
  Boards, matches, codes and accounts are interchangeable (symmetry). `Checkin`
  itself is proved for any durations.
- **Scoring.** A leg of 301 can be thrown in two turns and takes at most four
  here, so there are legs above, at and below nine darts. One slot may throw 60,
  100 and 180, the other 140 and 180: every class of a turn, a bust, a checkout.
  Two legs to win and a lost report give a leg won without its end. Days of two
  instants have a match at each side of midnight.
- **Bracket.** Five players with a lucky loser make the smallest tree in which
  losers of two main rounds enter (and mirroring matters); seven without make
  three rounds with a bye. Mirroring for larger powers of two repeats the same
  step. `MaxManual` does not bind in that run.
- **Tournament.** A second tournament with two of the players is the smallest
  one that competes for a match; two recorded matches are needed for an
  assignment that makes another possible. `MaxUpsets` bounds what is cleared,
  deleted, decided, rebuilt or redelivered to one, `MaxManual` results by hand to one at
  a time. One of the outcomes has no winner among the
  players, another waits for a decision.
- `CHECK_DEADLOCK FALSE` is set where a system may really come to rest: when all
  events have been sent, or the bounds of a run are used up.

### Fairness

Only `queue_stream` needs it. `FairSpec` assumes that the browser answers
storage reads, fires timers, alarms and `onStartup`, and that the server answers
requests with success unless it fails, which `MaxFailures` bounds. Timers,
alarms and the start-up have strong fairness because `Faults` may disable them
again and again while another handler runs. The page, the options page, the
user and the end of the worker are not fair. `EventuallySent` is stated under
the premise that URL and key are configured, and up to `Stranded`: a killed
worker has no alarm unless an earlier failure set one, and nothing sends its
queue until the next event, the options page or the next start of the browser.

## Proofs

All theorems hold for every value of the constants that satisfies the modules'
assumptions; `CheckinProofs` and the modules above it also take `ConstantsOK`,
what the durations in the code satisfy.

### A match (`MatchIngestProofs`)

| Theorem | Property | Argument |
|---|---|---|
| `TypeCorrect` | `TypeOK` | inductive as it stands |
| `ProgressNeverGoesBack` | `ProgressMonotone` | with `RowMirrorsRaw`: the row's columns are those of its payload; a step either leaves the row alone or stores a report that is not stale (`StepOnRow`) |
| `FinishedMatchSticks` | `FinishedSticks` | the same two lemmas; a running state is stale for a finished match, and `StaleState` leaves row, archive, legs, players and queue alone |
| `NoOrphanedLeg` | `LegRowsHavePlayer` | inductive: a leg's row is for a booked slot, and `ApplyMatchState` gives every booked slot a row and removes none; merges move both tables |
| `EachLegBookedOnce` | `OneBookingPerLeg` | inductive: all rows of a leg are replaced together, and two slots never book one player (`BooksOnePlayer`) |
| `IncrementalIngestIsRebuild` | `RebuildChangesNothing` | by `ArchiveInv`, below |
| `CountersAgree` | `LegsPlayedExact` | every step but a merge recomputes the counters from the rows it leaves |
| `DecisionsHold` | `AssignedSlotCounts` | inductive: a rebuild books an assigned slot for that player, and later states keep to the assignment |
| `MatchWonOnce` | `OneMatchWinner` | `RowsBooked`: unless an administrator intervened since the last rebuild, each row is of a slot booked for its player, and only the stored payload's winner has won |
| `NobodyCountsWaiting` | `WaitingSlotsDoNotCount` | `QueueIsRight`: unless names were protected, moved or merged since the last rebuild, the queue has only slots that must wait, and none of these has a row |
| `RepetitionsChangeNothing` | `RepetitionChangesNothing` | of `DeliverySpec`, by `DeliveryInv`, below |

`RebuildChangesNothing` alone is not inductive: that `legs` equals what the
archive yields says nothing about what happens when the *previous* state is
archived on the way to the next leg. `ArchiveInv` adds, as long as no leg's end
was taken back, that the archive is in order (`ArchiveInOrder`: nothing is
archived for a leg after the current one, and for the current leg the stored
payload if it ends the leg, else nothing), and, as long as no administrator has intervened since
the last rebuild, that every row is derived (`TablesDerived`: each leg's rows
come from its payload, players have rows only if a slot is booked for them, and
the queue holds exactly the slots that must wait). `since` makes both premises
precise, and `Reprocess` establishes the second again.

`RepetitionChangesNothing` speaks of the moments when the newest state is the
one handled last, and says nothing of the middle of a repetition. `DeliveryInv`
fills the gap. The stream part (`StreamInOrder`): what the collector is done
with lies before what it tries again, and the open states up to a handled one
are handled, so a state that comes for the first time follows the newest of the
others. The tables part (`Current(M)`, `M` the newest): everything about earlier
legs is final, while the row, the archive and the legs of `M`'s own leg may be
those of any state of that leg until `M` itself is repeated. A repeated state of
an earlier leg is stale; one of the same leg is stored, but what it leaves is
again some state of that leg; and the next leg can only begin when `M` is the
last (`Continued`), so what is archived is `M`. The premise on courses is
`Forward`; without it a repetition may restore an end that was taken back.

### The collector (`QueueProofs`)

| Theorem | Property | Argument |
|---|---|---|
| `StreamKeepsAccount` | of `EventStream` | what is settled was handled, given up or lost; with `NothingSkipped`: the open events up to the one handled last were handled, so acknowledging them settles no other |
| `QueueTypeCorrect` | `TypeOK` | for all `Faults`; with `Loaded`: a flush past its first await has the queue in memory, so `splice` cuts a queue |
| `ImplementsStream` | `StreamSpec` | if `Faults` has at most `browser` and `crash`; by `OrderInv`, below, each step is one of the stream or leaves it alone (`MapsStep`) |
| `NothingIsLost` | `NothingLost` | under the same premise; `SavedInv`, with `OrderInv`: what was saved is received, dropped or stored, an event that waits for storage is not saved, and as long as nothing ended the worker each event is one or the other |

The refinement needs `OrderInv`: there is one flush at a time; memory is what is
stored; who reads the queue will get what is stored, and the event that waits is
the newest; the queue is in the order of arrival; and a batch in flight is the
head of the queue of which the server has handled the first `progress` events.
Each of the other faults breaks one of these parts, which is why the
premise cannot be dropped (see below).

### Unrecognised events (`UnparsedProofs`)

| Theorem | Property | Argument |
|---|---|---|
| `StoreTypeCorrect` | `TypeOK` | inductive, as a new row gets an id of its own |
| `StoringComesBack` | `StoringResumes` | if reprocesses do not overlap: `OneAtATime` and `Suspended`, the one under way is the one that knows the cap |
| `NothingIsForgotten` | `NothingForgotten` | if nothing overlaps a reprocess: `Apart`, an id that stands for one event while a reprocess has it on its list (`OneEventPerId`, with `ListsDone`), a row deleted only after it was ingested (`DeletedIsIngested`), and a row just inserted kept until its request trims (`PostedIsKept`) |

### Check-ins and players (`CheckinProofs`, `IdentityProofs`)

| Theorem | Property | Argument |
|---|---|---|
| `CheckinTypeCorrect` | `TypeOK` of `Checkin` | with ids bounded by the newest |
| `PromisesAreKept` | `PromisedCodeWorks` of `Checkin` | by `IInv`, below |
| `ImplementsCheckin` | `Spec` of `Checkin` | each step of `Identity` is one of `Checkin` or leaves its variables alone; ids of new players are new |
| `CodesKeepTheirPromise` | `PromisedCodeWorks` | `PromisesAreKept` along the refinement |
| `IdentityTypeCorrect` | `TypeOK` of `Identity` | inductive together with `IInv`, by parts (`PeopleOK`, `AliasOK`, `OverrideOK`, `SlotOK`, `MatchOK`): a code's holder exists |
| `BookingsAreStable` | `BookingStable` | by `SlotsSettled`, which says why a slot counts: an override names the player, or the account or the name still leads to him (`Backed`). No step that leaves a match untouched takes its reason away |
| `ProtectionHolds` | `ProtectedNeedsProof` | an action property: `Resolve` books a protected player for an override, a code or an account only (`ResolveNeedsProof`), whatever of the slot counted before, and no step besides `Resolve` and a merge books anybody |

That a code is its player's is not inductive. `IInv` adds that rows and promises
begin no later than now; that a row of the same board and code with a larger id
was issued later, when the earlier row was over (`Succession`); that the row of a
promise is the same player's and lasts as long at least (`Covered`), and is there
for 30 days (`Kept`); and that the code is issued again 24 hours after the
promise at the earliest (`Spaced`). As `Early =< Hold`, no later row is valid at
a promised time, and the promise's own row decides.

### Tournaments (`TournamentProofs`, `BracketProofs`)

| Theorem | Property | Argument |
|---|---|---|
| `TournamentsAreWellFormed` | `TypeOK` | part of `Typed` |
| `MatchesDecideOnePairing` | `MatchUsedOnce` | `Books`: an assignment takes a match no tournament uses, and a link is refused for one that is used |
| `DetachedMatchesStayDetached` | `DetachedStaysDetached` | `Books`: an assignment takes no ignored match, and linking one ends its being ignored |
| `ResultsAreTheTrees` | `NoStaleResult` | `Settled`, below |
| `StatusIsTheTrees` | `StatusTracksTree` | `Settled`, below |
| `LinkedResultsAreCurrent` | `LinkedResultsAgree` | `Agrees`: refreshing takes over what the matches say, and an assignment stores what it has read |
| `LegsAreShownRight` | `LegsOnTheirSide` | `Sound`: a result that counts is one of the pairing's two players |
| `OneSynchronisationIsEnough` | `SyncSettles` | `Resolved` and `Progress`, below |
| `TournamentsGoOn` | `NeverStuck` | `TreeNeverStuck`: if no pairing is ready, every one is decided, round by round |
| `PlayersAreWantedOnce` | `OnePlaceAtATime` | `OneEnd`, below |
| `OutMeansOut` | `OutIsFinal` | `OneEnd` and `SomeEnd`, below |
| `PlacesAreRight` | `PlacesAddUp` | `RoundIsFull`, `PlaceReached` and `PlaceMissed`, below |
| `RecordsAreRight` | `RecordsFitPlaces` | `DefeatsCounted`, `VictoriesAddUp` and `MeetingsAddUp`, below |

They hold for any number of tournaments, players and matches, and trees of any size. The
invariant `IInv` is `Typed` (every row has its columns' types and refers to
what exists, and the tournaments are in `Books`) with `Synchronised`: a
tournament that can be evaluated and was synchronised after its last change is
`Settled` (its results are those its tree uses, its status is its tree's) and
`Agrees` with the linked matches. Most of the work is in two lemmas about what a
synchronisation leaves. `SameResultsSameTree`: the tree depends only on the
results it uses, so dropping the others leaves the tree that said which to drop;
otherwise one pruning could make the next necessary. `AssignAllProceeds`: the
loop keeps to the types, uses every match once and keeps `Agrees`, for any number
of turns. The recursions (rounds of a tree, turns of the loop, tournaments one
after the other) are recursive functions whose existence is shown where they are
used (`EvaluationsAre`, `AssignmentsAre`, `SyncTurnsAre`).

`OneSynchronisationIsEnough` also needs that the loop comes to an end within one turn
per match. The matches in use are no measure, as an assignment may replace a result
that fits no more and set its match free. The measure is the set of matches
that count in the tree (`Counted`). An assignment adds a result to a pairing
that was only ready, so no pairing that is known changes (`Firmer`), what
counted goes on counting, and the new match counts (`OneMoreMatch`). If a turn
were left to do after all, every match would count already (`AllCounted`), and
none be free for it. Pruning then drops what does not count; if no link is dropped,
no match becomes free, and nothing is assignable (`PrunedIsResolved`). After an
ingest the tournaments take turns, and one that comes later may only take
matches away from an earlier one. Those it takes have a winner, and what hides
a pairing's other candidates is a match without one, so taking them makes no
earlier pairing assignable (`IdleStays`).

The last five theorems are about the shape of the tree, and `BracketProofs` proves
what they need of it for every tree that can be built. *The layout*: the library
knows a power of two as the number of subsets, from which follows that it doubles
(`DoubledIs`), so main rounds halve;
the byes fall on different matches of the first round (`ByesAreSpread`) and leave a slot
there for every place of the draw (`PlacesAre`); the lucky loser rounds have closed forms
(`LLWidth`), as many matches as the main round whose losers join them, and end when
one is left; every pairing is laid out once, in its round, and every slot is for a
place, for nobody, or for somebody out of an earlier round (`Wiring`). No place and no
outcome is used in two slots (`SlotsDiffer`); every winner is used but those of the
final and of the match for third place, and of the losers exactly those who play on
(`WinnersUsed`, `LosersUsed`). *The evaluation*: `TreeIs` says that evaluating round
by round solves the equations of the tree, each pairing decided by its own players and
result. *The players*: a player's ends after round i are the places and outcomes he
has come to that no decided pairing up to round i takes further. By induction over the rounds
he has one end (`SomeEnd`) and no other (`OneEnd`): an outcome leads to one slot, and
the two slots of a pairing are fed from different ends. So he is in one open
pairing at most; and when everything is evaluated, his end is either a slot still open or an outcome that
leads nowhere, of which `TreeOutIsFinal` shows that they are those the placements call out.
*The places*: in a tree that is decided, every main round but the first is full of different
players, twice as many as it has matches (`RoundIsFull`). Who reaches a round wins the
tournament or loses in that round or later (`LateDefeat`), so he is placed among
as many as play in it (`PlaceReached`); without a lucky loser nobody comes back, so who misses it is placed
behind them (`PlaceMissed`). Hence as many are placed better as the place after a round
says (`AboveRound`), third and fourth place splitting the one after the semifinals
(`AboveFourth`). *The records*: nobody is twice in a round (`OneInARound`), and losers wait
for the round the lucky loser leads into, so a player loses at most once before it
(`OneEarlyDefeat`), once in a semifinal, and once for good (`OneLastDefeat`); the champion
only before it (`ChampionsDefeats`). The sums are folds over the players who have played.
The fold is what its recursive function says (`SumsExist`), and a sum of the sizes of
disjoint sets is the size of their union, whichever element the fold takes first
(`SumIsCount`): the union of everybody's victories are the pairings that count
(`VictoriesAddUp`), and of everybody's matches the pairs of a pairing and one of its
players (`MeetingsAddUp`).

### From the darts to the tables (`ScoringProofs`)

| Theorem | Property | Argument |
|---|---|---|
| `TablesKeepTheirKeys` | `TypeOK` of `Scoring` | `OneRowEach`: the rows of a leg are replaced together and only its winner's row has won; a leg's row and its match's row have the same variant (`RowInv`, `LegRowOf`) |
| `LegRowsTellTheLeg` | `LegRowsAreTheLeg` | `Agreed` and `TruthInv`, below |
| `ResultsSurviveLosses` | `ResultSurvives` | `Leading` and `LegsInv`, below |
| `PeriodsDoAddUp` | `PeriodsAddUp` | the matches of a period are the disjoint union of those of its parts, so every count and sum splits; by `Books`, below, the tables are finite |
| `PagesDoAgree` | `PagesAgree` | `Books`, and two ways of counting the same rows, below |
| `QuotientsAreShownTrue` | `QuotientsAreTrue` | `Kept`, `TruthInv` and `Books`: the rows of a player and the legs he threw correspond one to one, below |

They hold for any finite number of players and matches, any number of legs and turns,
any scores, any length of a day, and whatever descriptions leave out (`Source`). Of the
pairings they assume that a match has two players or a computer, as `Scoring` does
throughout; a leg starts from a positive score; and the value that stands for SQL's NULL is
no number and no row.

`IInv` speaks of each match by itself (`MatchInv`), so a step needs proof for one
match only (`OthersStay`). Its first part is about the play. `Agreed`: what the parser's
loop counts of a slot's turns is what the slot has thrown. This is where induction is
needed: `CountingIs` shows by a smallest counterexample that the recursive function
of the loop exists and is what its definition says, and `CountOneMore` that a
further turn adds itself and nothing else. A turn shown before it began adds
nothing (`DescribedCounts`), and it is not taken for the winner's last one
(`DescribedLastTurn`). `Ended`: the last turn of a leg is its winner's. `Leading`:
nobody but the winner of the last leg can have reached the target, so a finished match has one
winner. Its second part is about the tables. `TruthInv`: what was reported of a
leg stays in its rows until that leg is reported again, and the current leg can
only be reported again as it was. `LegsInv`: of the earlier legs a player has at most as many
rows won as he has won in truth (`WonLegs`), because a leg's rows are his win only if
its end was reported; hence the larger of what is told and what is counted is
the truth whenever the legs won are told. For the quotients each part says more than the
other properties need. `Kept`: whoever has thrown the whole score has won the leg, in X01
with a turn that could win it; the first nine darts counted are those thrown; of the turns
that could win a leg at most all have. `TruthInv`: a leg is reported once for each of its
slots, and no row is without such a report whose darts it shows.

What the pages sum up needs a second invariant, `Books`, inductive relative to
`IInv`: the tables of a match are finite, their numbers are numbers, every booked slot
has a row in `match_players`, and the counters of that row are reckoned from the rows its
player has in `match_legs` at that moment (`Reckoned`). A report changes the rows of one
leg and reckons the counters of both players anew (`EntryReckons`); no other step
touches either table. The sums are folds of the community modules; what the
proofs use of them is derived from the recursive function they are defined by
(`SumIs`): one element is taken off at a time, in any order. From this follow that a sum
over a disjoint union is the sum of the sums (of the periods, of the variants, of a
player's matches), that a sum of ones is a cardinality, and that sums of equal or
smaller terms compare. *The counters*: a player's legs are the disjoint union of
those of his matches, and each match's counters are those of its part. *Victories*: a
finished match has one winner, known by `ResultSurvives`; a player's matches won fall
apart by opponent into those against each other player and those against computers, and
all finished matches by winner into those of each player and those won by computers.
*Quotients*: by `TruthInv` the rows of a player's X01 legs and the legs thrown under his name
correspond one to one (`LegsAreThrows`), so sums over the one are sums over the other
(`SumsMove`); common factors come out of a sum (`TotalTimes`), which makes the weighted
averages of `stats.go` the averages of all darts. Of a rate the hits of each row are at
most its attempts, provided the player's matches are described alike; a match's own rate
is a share as it was told (`EntriesInv`).

### Only model-checked

- Liveness: `EventuallySent`.
- `NoQuickRematch` does not hold for all trees (see below), so it is checked for those of the run.

## What the checks found

Five runs end with a violation on purpose; each contradicts a sentence of the
repository (quoted in `PROJECT.json`, "findings"): late running states of a leg,
overlapping flushes, unrecognised events during a reprocess, `updated_at` as the
end of a match, and protected names that are somebody's alias.

Further behaviour of the code that the models reproduce, and that shows when
constants of a run or premises of a property are changed:

- `CollectorQueue` with `Faults = {"race"}` or `{"shift"}` violates
  `NothingLost`, `StreamSpec` and `EventuallySent`: a handler may load a queue
  older than the one another handler has extended, and `splice` removes by count
  after the head has moved. When the worker ends, an event that waits for storage
  is lost and nobody is told (`Lost`), and a killed worker may have no alarm
  (`Stranded`); `NothingLost` and `EventuallySent` name both as exceptions.
- `UnparsedStore` with `Together = {"reprocess"}` violates `StoringResumes`: two
  reprocesses save and restore `MaxUnparsed` over each other and leave it 0. As
  ids are given again, a reprocess that overlaps clearing and a new event could
  delete the new event's row.
  A body over 512 KB is stored truncated and fails to parse ever after.
- `Identity`: a waiting slot that has come to count through its account stays in
  the approval queue until it is rebuilt or decided. `adminRegisterChip` leaves
  the new player behind when the chip is taken. After a merge into a protected
  player, a rebuild makes the guests' slots that counted for the other one wait.
- `Scoring`: the average of the first nine darts takes whole turns, so with a
  short turn it covers up to eleven darts, and a leg of fewer than nine weighs
  too much. `parser.go` (line 56) says that only X01 has averages, but one that Autodarts
  tells is stored whatever the variant is (`autodarts.go`, line 323), and then counts among the first nine darts. Hits on doubles of matches whose payload tells no attempts are put over
  the attempts of the others, so a rate may exceed one. A leg that ends by the
  limit of rounds counts its winner's last turn as a checkout.
- `Tournament`: `SyncSettles` needs its premises. A match held by an expired
  result is looked for before the result is dropped, and waits for the next
  occasion; so does a match linked by hand to a pairing that is gone once an
  older link is refreshed, after two players were merged. A candidate without a
  winner hides later candidates of a pairing. A
  redraw keeps the start time, so older matches count for the new draw. After a
  deletion or merge nothing is synchronised, and a tree left with too few
  players for its lucky loser round can no longer be built, which makes the list
  of all tournaments fail; `NoStaleResult` and its companions speak of
  synchronised tournaments only. A linked match that is rebuilt with other
  players stays linked, with the winner it had.
- With nine players and more and the lucky loser entering in the final,
  mirroring the losers' order no longer avoids a rematch: the losers of the third
  round meet whom the mirroring of the second brought together.
- The README (line 141) counts sets and legs from 0, the parser's comment
  (`parser/autodarts/autodarts.go`, line 181) from 1; the ingest only compares the
  numbers, so it makes no difference to any property here.

## Not modelled

- *Hook and relay, options page, front end*: browser glue and presentation
  without state of their own; what the hook captures arrives as an event.
- *HTTP routing, sessions, login limit, exports, encoding*: a handler's effect
  belongs to the component it calls; `parseFilter` is in `Statistics`, the loop
  over a batch in `CollectorQueue`.
- *Agent and reader*: a polling loop with one remembered chip. Its requests are
  `CheckinByChip` at any time, so what the loop drops or repeats is covered; its
  timing is not.
- *Start-up, configuration, migrations*: wiring, run once.
- Inside modelled components: recognising a payload and its ids and numbers in
  the parser; `unknown_chips`; board keys, renaming and the flag that hides a
  player; lists of recent matches, the course of an average over time, throws
  summed up for tournaments; names and wordings, rules of rounds and their
  warnings, display numbers; badge and diagnosis of the extension. Rebuilding
  throw statistics is not part of `Scoring` (`MatchIngest` has the rebuild of the
  rest). Two accounts merged into one player are excluded in `MatchIngest` (see
  `Merge`). Matches of `Identity` have one slot.

## Plan

1. Done: match ingest, collector queue, unrecognised events, check-ins and
   identity, each with proofs; parser, statistics and the way of a dart to a
   page; brackets, tournaments and their pages.
2. Proofs. Done: everything the runs check of a match, the collector, the store
   of unrecognised events, check-ins and identity except liveness; of tournaments,
   for trees of every size, all but `NoQuickRematch`; of `Scoring`
   everything.
3. `MatchIngest` taking its claims from `Identity` instead of a constant.
4. Larger trees (eight players and a lucky loser) as a bounded run, if time
   allows.
