----------------------------- MODULE MCIdentity -----------------------------
(***************************************************************************)
(* Small instances of Identity:                                             *)
(*   "names"     players, names, accounts and aliases, no codes;            *)
(*   "codes"     two players who check in and a match played with a code;    *)
(*   "checkins"  two players who check in again and again.                  *)
(***************************************************************************)
EXTENDS Identity, FiniteSets, TLC

CONSTANTS tim, tom, Scenarios, MaxAdminSteps, MaxCodeSteps, MaxTime, MaxCheckins

VARIABLES
  scenario,
  steps        \* bounds how often administrators interfere

PlainEntries == [name : Bases \cup {NoName}, code : {NoCode}, account : Accounts \cup {NoAccount}]
CodedEntries == [name : {tim}, code : Codes, account : {NoAccount}]

\* Nothing happens at another board.
Home(b) == /\ \A q \in promises : q.board = b
           /\ \A m \in Matches : match[m] # None => match[m].board = b

Alike == Permutations(Boards) \cup Permutations(Matches) \cup Permutations(Codes) \cup Permutations(Accounts)

MCInit ==
  /\ Init
  /\ scenario \in Scenarios
  /\ steps = 0

Counted(bound) == steps < bound /\ steps' = steps + 1

NamesStep ==
  /\ scenario = "names"
  /\ \/ \E m \in Matches, b \in Boards : Home(b) /\ Report(m, b, {0}, PlainEntries) /\ UNCHANGED steps
     \/ (\E m \in Matches : Reprocess(m)) /\ UNCHANGED steps
     \/ InsertAlias /\ UNCHANGED steps
     \/ Administer(Bases \X {1}) /\ Counted(MaxAdminSteps)

\* The two players are there before the first check-in.
Prepared == Cardinality(registered) = 2 \/ steps > 0

Prepare ==
  /\ ~Prepared
  /\ CreatePlayer(<<IF registered = {} THEN tim ELSE tom, 1>>, TRUE)
  /\ UNCHANGED steps

Only(m) == \A k \in Matches \ {m} : match[k] = None

Play(m) == Only(m) /\ (Reprocess(m) \/ \E b \in Boards : Report(m, b, 0 .. MaxDelay, CodedEntries))

Disturb ==
  \/ ManageCheckins
  \/ \E b \in Boards : DeleteBoard(b)
  \/ \E p \in registered : DeletePlayer(p) \/ \E q \in registered : Merge(p, q)
  \/ \E m \in Matches : DeleteMatch(m) \/ \E x \in registered \cup {Ignored} : ResolvePending(m, x)

\* A match at either of two boards with the first two check-ins, or more of them at one
\* board and no match.
LastTime == IF scenario = "codes" THEN 3 ELSE MaxTime

CheckIn(b) ==
  /\ \/ scenario = "codes" /\ now < 2 /\ Cardinality(promises) < 2
     \/ scenario = "checkins" /\ Cardinality(promises) < MaxCheckins /\ Home(b)
  /\ CheckinStep(b)

CodesStep ==
  /\ scenario # "names" /\ Prepared
  /\ \/ scenario = "codes" /\ (\E m \in Matches : Play(m)) /\ UNCHANGED steps
     \/ (\E b \in Boards : CheckIn(b)) /\ UNCHANGED steps
     \/ now < LastTime /\ Tick /\ UNCHANGED steps
     \/ Disturb /\ Counted(MaxCodeSteps)

MCNext == (NamesStep \/ (scenario # "names" /\ Prepare) \/ CodesStep) /\ UNCHANGED scenario

MCSpec == MCInit /\ [][MCNext]_<<vars, scenario, steps>>

=============================================================================
