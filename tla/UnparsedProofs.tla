---------------------------- MODULE UnparsedProofs ----------------------------
(* Theorems about UnparsedStore, for any events, requests, cap and ids. *)
EXTENDS UnparsedStore, TLAPS

-----------------------------------------------------------------------------
(* The inductive invariants *)

Busy(r) == phase[r] \in {"loop", "delete"}

\* Reprocesses follow one another.
OneAtATime == \A q, r \in Reprocessors : Active(q) /\ Active(r) => q = r

\* Storing is suspended exactly while one is at its rows, which has kept the cap.
Suspended ==
  /\ (\A r \in Reprocessors : ~Busy(r)) => max = Cap
  /\ \A r \in Reprocessors : Busy(r) => max = 0 /\ saved[r] = Cap

CapInv == TypeOK /\ OneAtATime /\ Suspended

\* No delivery is between its two statements while a reprocess runs.
Apart == \A p \in Posters, r \in Reprocessors : posting[p] # None => ~Active(r)

\* Nothing is left on the list of a reprocess that is over.
ListsDone == \A r \in Reprocessors : ~Active(r) => list[r] = {}

\* Ids are given again, but not while a reprocess has them on its list.
OneEventPerId ==
  \A r \in Reprocessors : \A x, y \in rows \cup list[r] : x.id = y.id => x.event = y.event

\* What is about to be deleted is a match.
DeletedIsIngested ==
  \A r \in Reprocessors : phase[r] = "delete" =>
    \A x \in list[r] : IsFirst(x, list[r]) => x.event \in ingested

Kept == ingested \cup Payloads(rows) \cup trimmed

PostedIsKept ==
  \A p \in Posters : posting[p] # None /\ posting[p].next = "trim" => posting[p].event \in Kept

EventsKept == Apart /\ OneEventPerId /\ DeletedIsIngested /\ PostedIsKept /\ NothingForgotten

EventInv == CapInv /\ ListsDone /\ EventsKept

-----------------------------------------------------------------------------
(* Types *)

\* Every row has an id of its own.
OwnIds == \A x, y \in rows : x.id = y.id => x = y

\* An insert adds a row and an id.
LEMMA InsertTyped ==
  ASSUME TypeOK, NEW e \in Events, NEW b \in BOOLEAN, NEW n \in NewIds,
         rows' \subseteq rows \cup {[id |-> n, event |-> e, board |-> b]}
  PROVE  rows' \subseteq Row /\ OwnIds'
<1> DEFINE new == [id |-> n, event |-> e, board |-> b]
<1>1. new \in Row /\ new.id = n
  BY DEF Row, NewIds
<1>2. \A x \in rows : x.id < n /\ x.id \in Int /\ n \in Int
  BY DEF TypeOK, Row, NewIds
<1> HIDE DEF new
<1>3. rows' \subseteq rows \cup {new}
  BY DEF new
<1>4. rows' \subseteq Row
  BY <1>1, <1>3 DEF TypeOK
<1>5. OwnIds'
  <2> SUFFICES ASSUME NEW x \in rows \cup {new}, NEW y \in rows \cup {new}, x.id = y.id
               PROVE  x = y
    BY <1>3 DEF OwnIds
  <2> QED
    BY <1>1, <1>2 DEF TypeOK
<1> QED
  BY <1>4, <1>5

\* A row stays one without its board.
LEMMA OrphanTyped ==
  ASSUME NEW x \in Row
  PROVE  [x EXCEPT !.board = FALSE] \in Row /\ [x EXCEPT !.board = FALSE].id = x.id
BY DEF Row

\* Each step keeps the types.
LEMMA TypeStep ==
  ASSUME TypeOK, [Next]_vars
  PROVE  TypeOK'
<1> USE StoreAssumption DEF TypeOK
<1>1. ASSUME NEW p \in Posters, NEW e \in Events, Post(p, e)
      PROVE  TypeOK'
  <2>1. posting' \in [Posters -> {None} \cup [event : Events, next : {"insert", "trim"}]]
    BY <1>1 DEF Post
  <2> QED
    BY <1>1, <2>1 DEF Post
<1>10. ASSUME NEW p \in Posters, PostInsert(p)
       PROVE  TypeOK'
  <2>1. posting[p] \in [event : Events, next : {"insert", "trim"}]
    BY <1>10 DEF PostInsert
  <2>2. PICK n \in NewIds : rows' = rows \cup {[id |-> n, event |-> posting[p].event, board |-> TRUE]}
    BY <1>10 DEF PostInsert, Insert
  <2>3. rows' \subseteq Row /\ OwnIds'
    BY <2>1, <2>2, InsertTyped
  <2>4. posting' \in [Posters -> {None} \cup [event : Events, next : {"insert", "trim"}]]
    BY <1>10, <2>1 DEF PostInsert
  <2> QED
    BY <1>10, <2>3, <2>4 DEF PostInsert, OwnIds
<1>2. ASSUME NEW p \in Posters, PostTrim(p)
      PROVE  TypeOK'
  <2>1. posting[p] \in [event : Events, next : {"insert", "trim"}]
    BY <1>2 DEF PostTrim
  <2>2. rows' \subseteq rows
    BY <1>2 DEF PostTrim, Trim, Newest
  <2>3. \A x \in rows : x.event \in Events
    BY DEF Row
  <2>4. trimmed' \subseteq Events
    <3>1. trimmed' \subseteq trimmed \cup Payloads(rows)
      BY <1>2, <2>2 DEF PostTrim, Trim, Payloads
    <3>2. Payloads(rows) \subseteq Events
      BY <2>3 DEF Payloads
    <3> QED
      BY <3>1, <3>2
  <2>5. posting' \in [Posters -> {None} \cup [event : Events, next : {"insert", "trim"}]]
    BY <1>2 DEF PostTrim
  <2> QED
    BY <1>2, <2>1, <2>2, <2>4, <2>5 DEF PostTrim
<1>3. ASSUME NEW r \in Reprocessors, ListRows(r) \/ Pause(r) \/ DeleteRow(r)
      PROVE  TypeOK'
  BY <1>3 DEF ListRows, Pause, DeleteRow, posterVars
<1>4. ASSUME NEW r \in Reprocessors, Handle(r)
      PROVE  TypeOK'
  <2>1. UNCHANGED <<known, posting, answered, trimmed, saved>>
    BY <1>4 DEF Handle, posterVars
  <2>2. rows' \subseteq Row /\ OwnIds'
    <3>1. \/ UNCHANGED rows
          \/ \E x \in Row : \E n \in NewIds :
               rows' = Newest(rows \cup {[id |-> n, event |-> x.event, board |-> TRUE]})
      BY <1>4 DEF Handle
    <3>2. CASE UNCHANGED rows
      BY <3>2 DEF OwnIds
    <3>3. CASE \E x \in Row : \E n \in NewIds :
                 rows' = Newest(rows \cup {[id |-> n, event |-> x.event, board |-> TRUE]})
      <4>1. PICK x \in Row, n \in NewIds :
              rows' \subseteq rows \cup {[id |-> n, event |-> x.event, board |-> TRUE]}
        BY <3>3 DEF Newest
      <4>2. x.event \in Events
        BY DEF Row
      <4> QED
        BY <4>1, <4>2, InsertTyped
    <3> QED
      BY <3>1, <3>2, <3>3
  <2>3. ingested' \subseteq Events
    BY <1>4 DEF Handle, Row
  <2>4. max' \in {0, Cap}
    BY <1>4 DEF Handle, Return
  <2>5. phase' \in [Reprocessors -> {"idle", "listed", "loop", "delete", "cancelled"}]
    BY <1>4 DEF Handle, Return
  <2>6. list' \in [Reprocessors -> SUBSET Row]
    BY <1>4 DEF Handle, Return
  <2> QED
    BY <2>1, <2>2, <2>3, <2>4, <2>5, <2>6 DEF OwnIds
<1>5. ASSUME NEW r \in Reprocessors, Done(r) \/ Cancel(r)
      PROVE  TypeOK'
  BY <1>5 DEF Done, Cancel, Return, posterVars
<1>6. CASE DeleteBoard
  <2>1. rows' \subseteq Row /\ list' \in [Reprocessors -> SUBSET Row]
    BY <1>6, OrphanTyped DEF DeleteBoard
  <2>2. OwnIds'
    <3> DEFINE orphan(x) == [x EXCEPT !.board = FALSE]
    <3>1. \A x \in rows : orphan(x).id = x.id
      BY OrphanTyped
    <3>2. rows' = {orphan(x) : x \in rows}
      BY <1>6 DEF DeleteBoard
    <3> HIDE DEF orphan
    <3> QED
      BY <3>1, <3>2 DEF OwnIds
  <2> QED
    BY <1>6, <2>1, <2>2 DEF DeleteBoard, posterVars, OwnIds
<1>9. CASE Clear
  BY <1>9 DEF Clear, Payloads, Row, posterVars
<1>7. CASE Restart
  BY <1>7 DEF Restart
<1>8. CASE UNCHANGED vars
  BY <1>8 DEF vars, posterVars
<1> QED
  BY <1>1, <1>2, <1>3, <1>4, <1>5, <1>6, <1>7, <1>8, <1>9, <1>10 DEF Next

\* Every variable has its type at all times, whichever requests overlap: rows are rows of
\* the table, and MaxUnparsed is the cap or 0.
THEOREM StoreTypeCorrect == Spec => []TypeOK
<1>1. Init => TypeOK
  BY StoreAssumption DEF Init, TypeOK
<1>2. TypeOK /\ [Next]_vars => TypeOK'
  BY TypeStep
<1> QED
  BY <1>1, <1>2, PTL DEF Spec

-----------------------------------------------------------------------------
(* Storing resumes *)

LEMMA CapInvStep ==
  ASSUME CapInv, [Next]_vars, "reprocess" \notin Together
  PROVE  CapInv'
<1> USE DEF CapInv
<1>1. TypeOK'
  BY TypeStep
<1> SUFFICES OneAtATime' /\ Suspended'
  BY <1>1
<1> USE DEF TypeOK, OneAtATime, Suspended, Active, Busy
<1>2. ASSUME UNCHANGED <<phase, max, saved>>
      PROVE  OneAtATime' /\ Suspended'
  BY <1>2
<1>3. ASSUME NEW p \in Posters, (\E e \in Events : Post(p, e)) \/ PostInsert(p) \/ PostTrim(p)
      PROVE  OneAtATime' /\ Suspended'
  BY <1>2, <1>3 DEF Post, PostInsert, PostTrim
<1>4. ASSUME NEW r \in Reprocessors, ListRows(r)
      PROVE  OneAtATime' /\ Suspended'
  BY <1>4 DEF ListRows
<1>5. ASSUME NEW r \in Reprocessors, Pause(r)
      PROVE  OneAtATime' /\ Suspended'
  BY <1>5 DEF Pause
<1>6. ASSUME NEW r \in Reprocessors, Busy(r), NEW to \in {"idle", "cancelled"}, Return(r, to), saved' = saved
      PROVE  OneAtATime' /\ Suspended'
  BY <1>6 DEF Return
<1>7. ASSUME NEW r \in Reprocessors, Handle(r)
      PROVE  OneAtATime' /\ Suspended'
  <2>1. Busy(r) /\ saved' = saved
    BY <1>7 DEF Handle
  <2>2. CASE Return(r, "idle")
    BY <1>6, <2>1, <2>2
  <2>3. CASE max' = max /\ (phase' = phase \/ phase' = [phase EXCEPT ![r] = "delete"])
    BY <2>1, <2>3
  <2> QED
    BY <1>7, <2>2, <2>3 DEF Handle
<1>8. ASSUME NEW r \in Reprocessors, DeleteRow(r)
      PROVE  OneAtATime' /\ Suspended'
  BY <1>8 DEF DeleteRow
<1>9. ASSUME NEW r \in Reprocessors, Done(r) \/ Cancel(r)
      PROVE  OneAtATime' /\ Suspended'
  BY <1>6, <1>9 DEF Done, Cancel
<1>10. CASE DeleteBoard \/ Clear \/ UNCHANGED vars
  BY <1>2, <1>10 DEF DeleteBoard, Clear, vars
<1>11. CASE Restart
  BY <1>11 DEF Restart
<1> HIDE DEF CapInv, TypeOK, OneAtATime, Suspended, Active, Busy
<1> QED
  BY <1>3, <1>4, <1>5, <1>7, <1>8, <1>9, <1>10, <1>11 DEF Next

\* As long as reprocesses follow one another the cap is back once none runs, on every way
\* out, whatever is posted meanwhile.
THEOREM StoringComesBack ==
  ASSUME "reprocess" \notin Together
  PROVE  Spec => []StoringResumes
<1>1. Init => CapInv
  BY StoreAssumption DEF Init, CapInv, TypeOK, OneAtATime, Suspended, Active, Busy
<1>2. CapInv /\ [Next]_vars => CapInv'
  BY CapInvStep
<1>3. CapInv => StoringResumes
  BY DEF CapInv, Suspended, StoringResumes, Active, Busy
<1> QED
  BY <1>1, <1>2, <1>3, PTL DEF Spec

-----------------------------------------------------------------------------
(* Nothing is forgotten *)

\* An unrecognised event gets a row of its own.
LEMMA InsertKeeps ==
  ASSUME EventInv, NEW e \in Events, Insert(e, TRUE), \A r \in Reprocessors : ~Active(r),
         UNCHANGED <<phase, list, ingested, trimmed>>
  PROVE  OneEventPerId' /\ DeletedIsIngested' /\ Kept \cup {e} \subseteq Kept'
<1>1. PICK n \in NewIds : rows' = rows \cup {[id |-> n, event |-> e, board |-> TRUE]}
  BY DEF Insert
<1>2. OwnIds'
  BY <1>1, InsertTyped DEF EventInv, CapInv
<1>3. \A r \in Reprocessors : list'[r] = {}
  BY DEF EventInv, ListsDone
<1>4. OneEventPerId'
  BY <1>2, <1>3 DEF OneEventPerId, OwnIds
<1>5. DeletedIsIngested'
  BY DEF DeletedIsIngested, Active
<1>6. Kept \cup {e} \subseteq Kept'
  <2>1. PICK new : new = [id |-> n, event |-> e, board |-> TRUE]
    OBVIOUS
  <2>2. rows' = rows \cup {new} /\ new.event = e
    BY <1>1, <2>1
  <2> QED
    BY <2>2 DEF Kept, Payloads
<1> QED
  BY <1>4, <1>5, <1>6

\* Trimming at the cap loses nothing that was not trimmed.
LEMMA TrimKeeps ==
  ASSUME EventInv, Trim, max = Cap, \A r \in Reprocessors : ~Active(r),
         UNCHANGED <<phase, list, ingested>>
  PROVE  OneEventPerId' /\ DeletedIsIngested' /\ Kept \subseteq Kept'
<1>1. rows' \subseteq rows /\ trimmed' = trimmed \cup Payloads(rows \ rows')
  BY DEF Trim, Newest
<1>2. OneEventPerId'
  BY <1>1 DEF EventInv, EventsKept, OneEventPerId, Active
<1>3. DeletedIsIngested'
  BY DEF DeletedIsIngested, Active
<1>4. Kept \subseteq Kept'
  BY <1>1 DEF Kept, Payloads
<1> QED
  BY <1>2, <1>3, <1>4

\* Deleting the row that was handled takes away no payload that is not a match.
LEMMA DeleteKeeps ==
  ASSUME EventInv, NEW r \in Reprocessors, DeleteRow(r)
  PROVE  Kept \subseteq Kept'
<1>1. PICK h \in list[r] : IsFirst(h, list[r]) /\ rows' = {x \in rows : x.id # h.id}
  BY DEF DeleteRow
<1>2. h.event \in ingested
  BY <1>1 DEF EventInv, EventsKept, DeletedIsIngested, DeleteRow
<1>3. \A x \in rows : x.id = h.id => x.event = h.event
  BY DEF EventInv, EventsKept, OneEventPerId
<1>4. Payloads(rows) \subseteq Payloads(rows') \cup ingested
  BY <1>1, <1>2, <1>3 DEF Payloads
<1> QED
  BY <1>4 DEF Kept, DeleteRow

\* Deliveries: what is answered is kept, and what is inserted waits for its trimming.
LEMMA PostStep ==
  ASSUME EventInv, Together = {}, NEW p \in Posters, NEW e \in Events, Post(p, e)
  PROVE  EventsKept'
<1>1. \A r \in Reprocessors : ~Active(r)
  BY DEF Post
<1>2. max = Cap /\ max # 0
  BY <1>1, StoreAssumption DEF EventInv, EventsKept, CapInv, Suspended, Active, Busy
<1>3. Apart'
  BY <1>1 DEF Post, Apart, Active
<1>4. CASE e \in known
  <2>1. UNCHANGED <<rows, posting, trimmed, phase, list>> /\ ingested' = ingested \cup {e}
    BY <1>2, <1>4 DEF Post
  <2>2. OneEventPerId' /\ DeletedIsIngested' /\ Kept \cup {e} \subseteq Kept'
    BY <2>1 DEF EventInv, EventsKept, OneEventPerId, DeletedIsIngested, IsFirst, Kept
  <2>3. PostedIsKept' /\ NothingForgotten'
    BY <1>2, <1>4, <2>1, <2>2 DEF Post, EventInv, EventsKept, PostedIsKept, NothingForgotten, Kept
  <2> QED
    BY <1>3, <2>2, <2>3 DEF EventInv, EventsKept
<1>5. CASE e \notin known
  <2>1. /\ posting' = [posting EXCEPT ![p] = [event |-> e, next |-> "insert"]]
        /\ UNCHANGED <<rows, answered, ingested, trimmed, phase, list>>
    BY <1>2, <1>5 DEF Post
  <2>2. OneEventPerId' /\ DeletedIsIngested'
    BY <2>1 DEF EventInv, EventsKept, OneEventPerId, DeletedIsIngested, IsFirst, Active
  <2>3. PostedIsKept'
    BY <2>1 DEF EventInv, EventsKept, CapInv, TypeOK, PostedIsKept, Kept
  <2>4. NothingForgotten'
    BY <2>1 DEF EventInv, EventsKept, NothingForgotten
  <2> QED
    BY <1>3, <2>2, <2>3, <2>4 DEF EventsKept
<1> QED
  BY <1>4, <1>5

LEMMA PostInsertStep ==
  ASSUME EventInv, NEW p \in Posters, PostInsert(p)
  PROVE  EventsKept'
<1>1. /\ \A r \in Reprocessors : ~Active(r)
      /\ posting[p] \in [event : Events, next : {"insert", "trim"}]
  BY DEF PostInsert, EventInv, EventsKept, CapInv, TypeOK, Apart
<1>2. Apart'
  BY <1>1 DEF PostInsert, Apart, Active
<1>3. OneEventPerId' /\ DeletedIsIngested' /\ Kept \cup {posting[p].event} \subseteq Kept'
  BY <1>1, InsertKeeps DEF PostInsert
<1>4. PostedIsKept'
  <2>1. \A q \in Posters : q # p => posting'[q] = posting[q]
    BY DEF PostInsert, EventInv, CapInv, TypeOK
  <2>2. posting'[p].event = posting[p].event
    BY <1>1 DEF PostInsert, EventInv, CapInv, TypeOK
  <2> QED
    BY <1>3, <2>1, <2>2 DEF EventInv, EventsKept, PostedIsKept
<1>5. NothingForgotten'
  BY <1>3 DEF PostInsert, EventInv, EventsKept, NothingForgotten, Kept
<1> QED
  BY <1>2, <1>3, <1>4, <1>5 DEF EventsKept

LEMMA PostTrimStep ==
  ASSUME EventInv, NEW p \in Posters, PostTrim(p)
  PROVE  EventsKept'
<1>1. \A r \in Reprocessors : ~Active(r)
  BY DEF PostTrim, EventInv, EventsKept, Apart
<1>2. max = Cap
  BY <1>1 DEF EventInv, EventsKept, CapInv, Suspended, Active, Busy
<1>3. Apart'
  BY <1>1 DEF PostTrim, Apart, Active
<1>4. OneEventPerId' /\ DeletedIsIngested' /\ Kept \subseteq Kept'
  BY <1>1, <1>2, TrimKeeps DEF PostTrim
<1>5. PostedIsKept'
  BY <1>4 DEF PostTrim, EventInv, EventsKept, CapInv, TypeOK, PostedIsKept
<1>6. NothingForgotten'
  <2>1. answered \cup {posting[p].event} \subseteq Kept
    BY DEF PostTrim, EventInv, EventsKept, PostedIsKept, NothingForgotten, Kept
  <2> QED
    BY <1>4, <2>1 DEF PostTrim, NothingForgotten, Kept
<1> QED
  BY <1>3, <1>4, <1>5, <1>6 DEF EventInv, EventsKept

\* Whatever keeps what was kept, and neither posts nor answers.
LEMMA KeptIsEnough ==
  ASSUME EventInv, Kept \subseteq Kept', UNCHANGED answered,
         \A p \in Posters : posting'[p] \in {posting[p], None}
  PROVE  PostedIsKept' /\ NothingForgotten'
BY DEF EventInv, EventsKept, PostedIsKept, NothingForgotten, Kept

\* Nobody posts while a reprocess runs.
LEMMA ApartWhileActive ==
  ASSUME EventInv, NEW r \in Reprocessors, Active(r), UNCHANGED posting,
         \A q \in Reprocessors : q # r => phase'[q] = phase[q]
  PROVE  Apart'
BY DEF EventInv, EventsKept, Apart, Active

LEMMA ListRowsStep ==
  ASSUME EventInv, Together = {}, NEW r \in Reprocessors, ListRows(r)
  PROVE  EventsKept'
<1> USE DEF ListRows
<1>1. Apart'
  BY DEF Apart, posterVars
<1>2. OneEventPerId'
  BY DEF EventInv, EventsKept, CapInv, TypeOK, OneEventPerId
<1>3. DeletedIsIngested'
  BY DEF EventInv, EventsKept, CapInv, TypeOK, DeletedIsIngested, IsFirst
<1>4. PostedIsKept' /\ NothingForgotten'
  BY DEF EventInv, EventsKept, posterVars, PostedIsKept, NothingForgotten, Kept
<1> QED
  BY <1>1, <1>2, <1>3, <1>4 DEF EventInv, EventsKept

LEMMA HandleStep ==
  ASSUME EventInv, NEW r \in Reprocessors, Handle(r)
  PROVE  EventsKept'
<1>1. Active(r) /\ max = 0 /\ UNCHANGED <<posting, answered, trimmed>>
  BY DEF Handle, posterVars, Active, EventInv, EventsKept, CapInv, Suspended, Busy
<1>2. PICK x \in list[r] :
        /\ IsFirst(x, list[r])
        /\ \/ /\ ingested' = ingested \cup {x.event}
              /\ phase' = [phase EXCEPT ![r] = "delete"]
              /\ UNCHANGED list
           \/ Return(r, "idle") /\ UNCHANGED ingested
           \/ /\ list' = [list EXCEPT ![r] = @ \ {x}]
              /\ UNCHANGED <<ingested, phase>>
  BY <1>1 DEF Handle
<1>3. UNCHANGED rows
  BY <1>1 DEF Handle
<1>4. \A q \in Reprocessors : list'[q] \subseteq list[q] /\ (q # r => phase'[q] = phase[q] /\ list'[q] = list[q])
  BY <1>2 DEF Return, EventInv, EventsKept, CapInv, TypeOK
<1>5. Apart'
  BY <1>1, <1>4, ApartWhileActive
<1>6. OneEventPerId'
  BY <1>3, <1>4 DEF EventInv, EventsKept, OneEventPerId
<1>7. DeletedIsIngested'
  <2> SUFFICES ASSUME NEW q \in Reprocessors, phase'[q] = "delete", NEW y \in list'[q], IsFirst(y, list'[q])
               PROVE  y.event \in ingested'
    BY DEF DeletedIsIngested
  <2>1. CASE q # r
    BY <1>2, <1>4, <2>1 DEF EventInv, EventsKept, DeletedIsIngested
  <2>2. CASE q = r
    <3>1. phase[r] = "loop"
      BY DEF Handle
    <3>2. ingested' = ingested \cup {x.event} /\ list' = list
      BY <1>2, <2>2, <3>1 DEF Return, EventInv, EventsKept, CapInv, TypeOK
    <3>3. x.id = y.id
      <4>1. x \in Row /\ y \in Row
        BY <2>2, <3>2 DEF EventInv, EventsKept, CapInv, TypeOK
      <4>2. x.id =< y.id /\ y.id =< x.id
        BY <1>2, <2>2, <3>2 DEF IsFirst
      <4> QED
        BY <4>1, <4>2 DEF Row
    <3>4. x.event = y.event
      BY <2>2, <3>2, <3>3 DEF EventInv, EventsKept, OneEventPerId
    <3> QED
      BY <3>2, <3>4
  <2> QED
    BY <2>1, <2>2
<1>8. PostedIsKept' /\ NothingForgotten'
  <2>1. Kept \subseteq Kept'
    BY <1>1, <1>2, <1>3 DEF Kept
  <2> QED
    BY <1>1, <2>1, KeptIsEnough
<1> QED
  BY <1>5, <1>6, <1>7, <1>8 DEF EventInv, EventsKept

LEMMA DeleteRowStep ==
  ASSUME EventInv, NEW r \in Reprocessors, DeleteRow(r)
  PROVE  EventsKept'
<1>1. /\ Active(r) /\ UNCHANGED <<posting, answered, ingested>>
      /\ rows' \subseteq rows
      /\ \A q \in Reprocessors : /\ list'[q] \subseteq list[q]
                                 /\ q # r => phase'[q] = phase[q] /\ list'[q] = list[q]
      /\ phase'[r] = "loop"
  BY DEF DeleteRow, posterVars, Active, EventInv, CapInv, TypeOK
<1>2. Apart'
  BY <1>1, ApartWhileActive
<1>3. OneEventPerId'
  BY <1>1 DEF EventInv, EventsKept, OneEventPerId
<1>4. DeletedIsIngested'
  BY <1>1 DEF EventInv, EventsKept, DeletedIsIngested
<1>5. PostedIsKept' /\ NothingForgotten'
  BY <1>1, DeleteKeeps, KeptIsEnough
<1> QED
  BY <1>2, <1>3, <1>4, <1>5 DEF EventsKept

\* The ways out of a reprocess, and its pause.
LEMMA PhaseStep ==
  ASSUME EventInv, NEW r \in Reprocessors, Active(r),
         UNCHANGED <<rows, ingested, posting, answered, trimmed>>,
         \A q \in Reprocessors : /\ list'[q] \subseteq list[q]
                                 /\ q # r => phase'[q] = phase[q] /\ list'[q] = list[q],
         phase'[r] # "delete"
  PROVE  EventsKept'
<1>1. Apart'
  BY ApartWhileActive
<1>2. OneEventPerId'
  BY DEF EventInv, EventsKept, OneEventPerId
<1>3. DeletedIsIngested'
  BY DEF EventInv, EventsKept, DeletedIsIngested
<1>4. PostedIsKept' /\ NothingForgotten'
  <2>1. Kept \subseteq Kept'
    BY DEF Kept
  <2> QED
    BY <2>1, KeptIsEnough
<1> QED
  BY <1>1, <1>2, <1>3, <1>4 DEF EventsKept

\* Rows lose their board, and lists with them.
LEMMA DeleteBoardStep ==
  ASSUME EventInv, DeleteBoard
  PROVE  EventsKept'
<1> DEFINE orphaned(s) == {[x EXCEPT !.board = FALSE] : x \in s}
<1>1. /\ rows' = orphaned(rows) /\ \A r \in Reprocessors : list'[r] = orphaned(list[r])
      /\ UNCHANGED <<ingested, posting, answered, trimmed, phase>>
  BY DEF DeleteBoard, posterVars
<1>2. \A x \in Row : LET o == [x EXCEPT !.board = FALSE] IN o.id = x.id /\ o.event = x.event
  BY DEF Row
<1>3. rows \subseteq Row /\ \A r \in Reprocessors : list[r] \subseteq Row
  BY DEF EventInv, CapInv, TypeOK
<1>4. \A s \in SUBSET Row : /\ \A y \in orphaned(s) : \E x \in s : y.id = x.id /\ y.event = x.event
                            /\ \A x \in s : \E y \in orphaned(s) : y.id = x.id /\ y.event = x.event
  BY <1>2
<1> HIDE DEF orphaned
<1>5. Apart'
  BY <1>1 DEF EventInv, EventsKept, Apart, Active
<1>6. OneEventPerId'
  <2> SUFFICES ASSUME NEW r \in Reprocessors,
                      NEW x \in orphaned(rows) \cup orphaned(list[r]), NEW y \in orphaned(rows) \cup orphaned(list[r])
               PROVE  x.id = y.id => x.event = y.event
    BY <1>1 DEF OneEventPerId
  <2>1. PICK u \in rows \cup list[r] : x.id = u.id /\ x.event = u.event
    BY <1>3, <1>4
  <2>2. PICK v \in rows \cup list[r] : y.id = v.id /\ y.event = v.event
    BY <1>3, <1>4
  <2> QED
    BY <2>1, <2>2 DEF EventInv, EventsKept, OneEventPerId
<1>7. DeletedIsIngested'
  <2> SUFFICES ASSUME NEW r \in Reprocessors, phase[r] = "delete",
                      NEW y \in orphaned(list[r]), IsFirst(y, orphaned(list[r]))
               PROVE  y.event \in ingested
    BY <1>1 DEF DeletedIsIngested
  <2>1. PICK x \in list[r] : y.id = x.id /\ y.event = x.event
    BY <1>3, <1>4
  <2>2. IsFirst(x, list[r])
    BY <1>3, <1>4, <2>1 DEF IsFirst
  <2> QED
    BY <2>1, <2>2 DEF EventInv, EventsKept, DeletedIsIngested
<1>8. PostedIsKept' /\ NothingForgotten'
  <2>1. Payloads(rows) \subseteq Payloads(rows')
    BY <1>1, <1>3, <1>4 DEF Payloads
  <2>2. Kept \subseteq Kept'
    BY <1>1, <2>1 DEF Kept
  <2> QED
    BY <1>1, <2>2, KeptIsEnough
<1> QED
  BY <1>5, <1>6, <1>7, <1>8 DEF EventsKept

LEMMA ClearStep ==
  ASSUME EventInv, Clear
  PROVE  EventsKept'
<1>1. /\ rows' = {} /\ trimmed' = trimmed \cup Payloads(rows)
      /\ UNCHANGED <<ingested, posting, answered, phase, list>>
  BY DEF Clear, posterVars
<1>2. Kept \subseteq Kept'
  BY <1>1 DEF Kept
<1>3. PostedIsKept' /\ NothingForgotten'
  BY <1>1, <1>2, KeptIsEnough
<1> QED
  BY <1>1, <1>3 DEF EventInv, EventsKept, Apart, Active, OneEventPerId, DeletedIsIngested

LEMMA RestartStep ==
  ASSUME EventInv, Restart
  PROVE  EventsKept'
<1>1. Kept \subseteq Kept'
  BY DEF Restart, Kept
<1>2. PostedIsKept' /\ NothingForgotten'
  BY <1>1, KeptIsEnough DEF Restart
<1> QED
  BY <1>2 DEF Restart, EventInv, EventsKept, Apart, Active, OneEventPerId, DeletedIsIngested

LEMMA ListsDoneStep ==
  ASSUME TypeOK, ListsDone, [Next]_vars
  PROVE  ListsDone'
<1> USE DEF ListsDone, Active
<1>1. ASSUME UNCHANGED <<phase, list>>
      PROVE  ListsDone'
  BY <1>1
<1>2. ASSUME NEW p \in Posters, (\E e \in Events : Post(p, e)) \/ PostInsert(p) \/ PostTrim(p)
      PROVE  ListsDone'
  BY <1>1, <1>2 DEF Post, PostInsert, PostTrim
<1>3. ASSUME NEW r \in Reprocessors,
             ListRows(r) \/ Pause(r) \/ Handle(r) \/ DeleteRow(r) \/ Done(r) \/ Cancel(r)
      PROVE  ListsDone'
  <2>1. /\ phase'[r] \in {"idle", "cancelled"} => list'[r] = {}
        /\ \A q \in Reprocessors : q # r => phase'[q] = phase[q] /\ list'[q] = list[q]
    BY <1>3 DEF ListRows, Pause, Handle, DeleteRow, Done, Cancel, Return, TypeOK
  <2> QED
    BY <2>1
<1>4. CASE DeleteBoard
  BY <1>4 DEF DeleteBoard
<1>5. CASE Clear \/ UNCHANGED vars
  BY <1>1, <1>5 DEF Clear, vars
<1>6. CASE Restart
  BY <1>6 DEF Restart
<1> QED
  BY <1>2, <1>3, <1>4, <1>5, <1>6 DEF Next

LEMMA EventInvStep ==
  ASSUME EventInv, [Next]_vars, Together = {}
  PROVE  EventInv'
<1>1. CapInv' /\ ListsDone'
  BY CapInvStep, ListsDoneStep DEF EventInv, CapInv
<1> SUFFICES EventsKept'
  BY <1>1 DEF EventInv
<1>2. ASSUME NEW p \in Posters, NEW e \in Events, Post(p, e)
      PROVE  EventsKept'
  BY <1>2, PostStep
<1>3. ASSUME NEW p \in Posters, PostInsert(p) \/ PostTrim(p)
      PROVE  EventsKept'
  BY <1>3, PostInsertStep, PostTrimStep
<1>4. ASSUME NEW r \in Reprocessors, ListRows(r)
      PROVE  EventsKept'
  BY <1>4, ListRowsStep
<1>5. ASSUME NEW r \in Reprocessors, Pause(r) \/ Done(r) \/ Cancel(r)
      PROVE  EventsKept'
  <2>1. /\ Active(r) /\ UNCHANGED <<rows, ingested, posting, answered, trimmed>>
        /\ \A q \in Reprocessors : /\ list'[q] \subseteq list[q]
                                   /\ q # r => phase'[q] = phase[q] /\ list'[q] = list[q]
        /\ phase'[r] # "delete"
    BY <1>5 DEF Pause, Done, Cancel, Return, posterVars, Active, EventInv, CapInv, TypeOK
  <2> QED
    BY <2>1, PhaseStep
<1>6. ASSUME NEW r \in Reprocessors, Handle(r)
      PROVE  EventsKept'
  BY <1>6, HandleStep
<1>7. ASSUME NEW r \in Reprocessors, DeleteRow(r)
      PROVE  EventsKept'
  BY <1>7, DeleteRowStep
<1>8. CASE DeleteBoard
  BY <1>8, DeleteBoardStep
<1>9. CASE Clear
  BY <1>9, ClearStep
<1>10. CASE Restart
  BY <1>10, RestartStep
<1>11. CASE UNCHANGED vars
  BY <1>11 DEF vars, posterVars, EventInv, EventsKept, Apart, Active, OneEventPerId,
     DeletedIsIngested, IsFirst, PostedIsKept, NothingForgotten, Kept
<1> QED
  BY <1>2, <1>3, <1>4, <1>5, <1>6, <1>7, <1>8, <1>9, <1>10, <1>11 DEF Next

\* If nothing overlaps a reprocess, every event whose delivery was answered is a match, in
\* the store, or was removed by the cap or an administrator, whatever order events come
\* in, and at every restart, cancellation and deletion of boards.
THEOREM NothingIsForgotten ==
  ASSUME Together = {}
  PROVE  Spec => []NothingForgotten
<1>1. Init => EventInv
  <2>1. Init => CapInv
    BY StoreAssumption DEF Init, CapInv, TypeOK, OneAtATime, Suspended, Active, Busy
  <2> QED
    BY <2>1 DEF Init, EventInv, ListsDone, EventsKept, Apart, Active, OneEventPerId, DeletedIsIngested,
       PostedIsKept, NothingForgotten
<1>2. EventInv /\ [Next]_vars => EventInv'
  BY EventInvStep
<1>3. EventInv => NothingForgotten
  BY DEF EventInv, EventsKept
<1> QED
  BY <1>1, <1>2, <1>3, PTL DEF Spec

=============================================================================
