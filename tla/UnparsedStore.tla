---------------------------- MODULE UnparsedStore ----------------------------
(***************************************************************************)
(* The store of events no parser recognised: storeUnparsed and              *)
(* ReprocessUnparsed in server/internal/ingest/ingest.go.                   *)
(*                                                                         *)
(* Requests run in goroutines of their own and share Service.MaxUnparsed,   *)
(* which a reprocess sets to 0 and restores when it ends.  A step is one    *)
(* database statement, or one use of MaxUnparsed.  The parsers change only  *)
(* with a new server, hence with a restart.                                 *)
(***************************************************************************)
EXTENDS Integers, FiniteSets

CONSTANTS
  Events,         \* payloads
  Cap,            \* MAX_UNPARSED
  Posters,        \* requests that deliver events
  Reprocessors,   \* requests of administrators to reprocess
  Together,       \* which requests may overlap a reprocess: "post", "reprocess"
  BoardDeletion,  \* may the board be deleted?
  MaxId,          \* bound: row ids
  MaxRestarts,    \* bound: restarts
  None

ASSUME StoreAssumption ==
  /\ Cap \in Nat \ {0} /\ MaxId \in Nat /\ MaxRestarts \in Nat
  /\ Together \subseteq {"post", "reprocess"}
  /\ BoardDeletion \in BOOLEAN
  /\ None \notin Events

VARIABLES
  rows,       \* table unparsed_events
  max,        \* Service.MaxUnparsed
  known,      \* the payloads the current parsers recognise
  ingested,   \* the payloads that became matches
  answered,   \* the payloads whose delivery was answered with success
  trimmed,    \* the payloads the cap or an administrator removed
  posting,    \* per poster: None, or the payload and the statement that comes next
  phase,      \* per reprocessor
  list, saved, \* per reprocessor: the rows still to do, and saveMax
  restarts

Row == [id : 1 .. MaxId, event : Events, board : BOOLEAN]

posterVars == <<posting, answered>>
vars == <<rows, max, known, ingested, posterVars, trimmed, phase, list, saved, restarts>>

Payloads(s) == {x.event : x \in s}

\* ORDER BY id
IsFirst(x, s) == x \in s /\ \A y \in s : x.id =< y.id

Active(r) == phase[r] \notin {"idle", "cancelled"}

Init ==
  /\ rows = {} /\ max = Cap
  /\ known \in SUBSET Events
  /\ ingested = {} /\ answered = {} /\ trimmed = {}
  /\ posting = [p \in Posters |-> None]
  /\ phase = [r \in Reprocessors |-> "idle"]
  /\ list = [r \in Reprocessors |-> {}]
  /\ saved = [r \in Reprocessors |-> Cap]
  /\ restarts = 0

-----------------------------------------------------------------------------
(* storeUnparsed *)

\* Faulty variant: the id is counted.
InsertCounted(e, board) ==
  /\ Cardinality(rows) < MaxId
  /\ rows' = rows \cup {[id |-> Cardinality(rows) + 1, event |-> e, board |-> board]}

\* SQLite gives the id that follows the greatest in use.
NewIds == {n \in 1 .. MaxId : /\ \A x \in rows : x.id < n
                              /\ n = 1 \/ \E x \in rows : x.id = n - 1}

\* INSERT INTO unparsed_events
Insert(e, board) ==
  \E n \in NewIds : rows' = rows \cup {[id |-> n, event |-> e, board |-> board]}

\* DELETE ... NOT IN (... ORDER BY id DESC LIMIT MaxUnparsed)
Newest(s) == {x \in s : Cardinality({y \in s : y.id > x.id}) < max}

Trim ==
  /\ rows' = Newest(rows)
  /\ trimmed' = IF max = Cap THEN trimmed \cup Payloads(rows \ Newest(rows)) ELSE trimmed

\* A delivered event: recognised and ingested, or dropped while max is 0, or to be stored:
\* what max is then is not looked at again before the insert.
Post(p, e) ==
  /\ posting[p] = None
  /\ "post" \in Together \/ \A r \in Reprocessors : ~Active(r)
  /\ \/ /\ e \in known
        /\ ingested' = ingested \cup {e}
        /\ answered' = answered \cup {e}
        /\ UNCHANGED posting
     \/ /\ e \notin known /\ max = 0
        /\ answered' = answered \cup {e}
        /\ UNCHANGED <<posting, ingested>>
     \/ /\ e \notin known /\ max # 0
        /\ posting' = [posting EXCEPT ![p] = [event |-> e, next |-> "insert"]]
        /\ UNCHANGED <<ingested, answered>>
  /\ UNCHANGED <<rows, max, known, trimmed, phase, list, saved, restarts>>

PostInsert(p) ==
  /\ posting[p] # None
  /\ posting[p].next = "insert"
  /\ Insert(posting[p].event, TRUE)
  /\ posting' = [posting EXCEPT ![p].next = "trim"]
  /\ UNCHANGED <<max, known, ingested, answered, trimmed, phase, list, saved, restarts>>

PostTrim(p) ==
  /\ posting[p] # None
  /\ posting[p].next = "trim"
  /\ Trim
  /\ answered' = answered \cup {posting[p].event}
  /\ posting' = [posting EXCEPT ![p] = None]
  /\ UNCHANGED <<max, known, ingested, phase, list, saved, restarts>>

-----------------------------------------------------------------------------
(* ReprocessUnparsed *)

ListRows(r) ==
  /\ ~Active(r)
  /\ "reprocess" \in Together \/ \A q \in Reprocessors : ~Active(q)
  /\ "post" \in Together \/ \A p \in Posters : posting[p] = None
  /\ list' = [list EXCEPT ![r] = rows]
  /\ phase' = [phase EXCEPT ![r] = "listed"]
  /\ UNCHANGED <<rows, max, known, ingested, posterVars, trimmed, saved, restarts>>

\* saveMax := MaxUnparsed; MaxUnparsed = 0
Pause(r) ==
  /\ phase[r] = "listed"
  /\ saved' = [saved EXCEPT ![r] = max]
  /\ max' = 0
  /\ phase' = [phase EXCEPT ![r] = "loop"]
  /\ UNCHANGED <<rows, known, ingested, posterVars, trimmed, list, restarts>>

\* Faulty variant: MaxUnparsed is restored only at the end of the loop.
ReturnWithoutDefer(r, to) ==
  /\ max' = IF to = "idle" /\ list[r] = {} THEN saved[r] ELSE max
  /\ phase' = [phase EXCEPT ![r] = to]
  /\ list' = [list EXCEPT ![r] = {}]

\* The deferred restore; what is left of the list is given up.
Return(r, to) ==
  /\ max' = saved[r]
  /\ phase' = [phase EXCEPT ![r] = to]
  /\ list' = [list EXCEPT ![r] = {}]

\* HandleEvent for the next row.  A row whose board was deleted carries board id 0.  The
\* foreign key of matches.board_id refuses it unless the match is there already with a
\* board, or has gone further; that of unparsed_events.board_id always does; an error ends
\* the whole run.  An unrecognised row is stored anew, and the table trimmed, only if
\* MaxUnparsed is not 0 because another reprocess restored it; that is one step here.
Handle(r) ==
  /\ phase[r] = "loop"
  /\ \E x \in list[r] :
     /\ IsFirst(x, list[r])
     /\ \/ /\ x.event \in known
           /\ ingested' = ingested \cup {x.event}
           /\ phase' = [phase EXCEPT ![r] = "delete"]
           /\ UNCHANGED <<rows, max, list>>
        \/ /\ ~x.board /\ (x.event \in known \/ max # 0)
           /\ Return(r, "idle")
           /\ UNCHANGED <<rows, ingested>>
        \/ /\ x.event \notin known /\ max = 0
           /\ list' = [list EXCEPT ![r] = @ \ {x}]
           /\ UNCHANGED <<rows, max, ingested, phase>>
        \/ /\ x.event \notin known /\ max # 0 /\ x.board
           /\ \E n \in NewIds :
                rows' = Newest(rows \cup {[id |-> n, event |-> x.event, board |-> TRUE]})
           /\ list' = [list EXCEPT ![r] = @ \ {x}]
           /\ UNCHANGED <<max, ingested, phase>>
  /\ UNCHANGED <<known, posterVars, trimmed, saved, restarts>>

\* Faulty variant: all rows up to the recognised one are deleted.
DeleteRowsUpTo(r) ==
  /\ phase[r] = "delete"
  /\ \E h \in list[r] :
       /\ IsFirst(h, list[r])
       /\ rows' = {x \in rows : x.id > h.id}
       /\ list' = [list EXCEPT ![r] = @ \ {h}]
  /\ phase' = [phase EXCEPT ![r] = "loop"]
  /\ UNCHANGED <<max, known, ingested, posterVars, trimmed, saved, restarts>>

DeleteRow(r) ==
  /\ phase[r] = "delete"
  /\ \E h \in list[r] :
       /\ IsFirst(h, list[r])
       /\ rows' = {x \in rows : x.id # h.id}
       /\ list' = [list EXCEPT ![r] = @ \ {h}]
  /\ phase' = [phase EXCEPT ![r] = "loop"]
  /\ UNCHANGED <<max, known, ingested, posterVars, trimmed, saved, restarts>>

Done(r) ==
  /\ phase[r] = "loop" /\ list[r] = {}
  /\ Return(r, "idle")
  /\ UNCHANGED <<rows, known, ingested, posterVars, trimmed, saved, restarts>>

\* The request's context ends: the next statement fails.
Cancel(r) ==
  /\ phase[r] \in {"loop", "delete"}
  /\ Return(r, "cancelled")
  /\ UNCHANGED <<rows, known, ingested, posterVars, trimmed, saved, restarts>>

-----------------------------------------------------------------------------
(* Around it *)

\* adminDeleteBoard: board_id is set to NULL, and ids already read dangle.  New events
\* come from a new board.
DeleteBoard ==
  LET orphaned(s) == {[x EXCEPT !.board = FALSE] : x \in s}
  IN /\ BoardDeletion
     /\ rows' = orphaned(rows)
     /\ list' = [r \in Reprocessors |-> orphaned(list[r])]
     /\ UNCHANGED <<max, known, ingested, posterVars, trimmed, phase, saved, restarts>>

\* adminClearUnparsed
Clear ==
  /\ rows' = {}
  /\ trimmed' = trimmed \cup Payloads(rows)
  /\ UNCHANGED <<max, known, ingested, posterVars, phase, list, saved, restarts>>

\* The server stops at any point and starts, perhaps with better parsers.
Restart ==
  /\ restarts < MaxRestarts
  /\ restarts' = restarts + 1
  /\ max' = Cap
  /\ known' \in {k \in SUBSET Events : known \subseteq k}
  /\ posting' = [p \in Posters |-> None]
  /\ phase' = [r \in Reprocessors |-> "idle"]
  /\ list' = [r \in Reprocessors |-> {}]
  /\ saved' = [r \in Reprocessors |-> Cap]
  /\ UNCHANGED <<rows, ingested, answered, trimmed>>

Next ==
  \/ \E p \in Posters : (\E e \in Events : Post(p, e)) \/ PostInsert(p) \/ PostTrim(p)
  \/ \E r \in Reprocessors :
       \/ ListRows(r) \/ Pause(r) \/ Handle(r) \/ DeleteRow(r) \/ Done(r) \/ Cancel(r)
  \/ DeleteBoard \/ Clear \/ Restart

Spec == Init /\ [][Next]_vars

-----------------------------------------------------------------------------
(* Properties *)

\* Every variable has its type, and every row an id of its own, although ids are given
\* again once rows are deleted.
TypeOK ==
  /\ rows \subseteq Row
  /\ \A x, y \in rows : x.id = y.id => x = y
  /\ max \in {0, Cap}
  /\ known \subseteq Events /\ ingested \subseteq Events
  /\ answered \subseteq Events /\ trimmed \subseteq Events
  /\ posting \in [Posters -> {None} \cup [event : Events, next : {"insert", "trim"}]]
  /\ phase \in [Reprocessors -> {"idle", "listed", "loop", "delete", "cancelled"}]
  /\ list \in [Reprocessors -> SUBSET Row]
  /\ saved \in [Reprocessors -> {0, Cap}]

\* An event whose delivery was answered is a match, is in the store, or was removed by
\* the cap or by an administrator: "Nichts geht verloren", and later "verwandelt 'Erneut
\* verarbeiten' die gesammelten Events nachtraeglich in Matches"
\* (docs/mvp-test-checkliste.md 12-13).
NothingForgotten == answered \subseteq ingested \cup Payloads(rows) \cup trimmed

\* Reprocessing suspends storing only for its own duration ("waehrenddessen nichts erneut
\* als unparsed speichern", ingest.go 511).
StoringResumes == (\A r \in Reprocessors : ~Active(r)) => max = Cap

=============================================================================
