---------------------------- MODULE MatchDelivery ----------------------------
(***************************************************************************)
(* Collector and server together: the states of one match, "course", reach  *)
(* MatchIngest through an EventStream, that is in order, with repetitions   *)
(* after a failure, and without those the collector gave up or lost.        *)
(***************************************************************************)
EXTENDS MatchIngest, Sequences

CONSTANT Courses      \* the sequences of states a match may go through

VARIABLES course,
  accepted, handled, settled, givenUp, lost, last   \* as in EventStream

Stream == INSTANCE EventStream

streamVars == <<accepted, handled, settled, givenUp, lost, last>>

\* Seen in order, a match goes back neither in legs nor behind the end of a leg or its own.
Forward(a, b) ==
  /\ ~Before(b.leg, a.leg)
  /\ a.finished => b.finished
  /\ a.leg = b.leg => (Ends(a) => Ends(b)) /\ (a.legWinner \in Slots => b.legWinner \in Slots)

ASSUME CoursesAssumption ==
  \A c \in Courses : c \in Seq(Reports) /\ \A i, j \in DOMAIN c : i < j => Forward(c[i], c[j])

DeliveryInit ==
  /\ Init
  /\ course \in Courses
  /\ Stream!Init

\* The page reports the next state, or the collector settles, gives up or loses some.
Collect ==
  /\ \/ accepted < Len(course) /\ Stream!Accept
     \/ Stream!Acknowledge \/ Stream!GiveUp \/ Stream!Lose
  /\ UNCHANGED <<vars, course>>

Deliver(e) ==
  /\ Stream!Handle(e)
  /\ HandleEvent(course[e])
  /\ UNCHANGED course

Rebuild ==
  /\ Reprocess
  /\ UNCHANGED <<streamVars, course>>

DeliveryNext == Collect \/ (\E e \in Stream!Open : Deliver(e)) \/ Rebuild

DeliverySpec == DeliveryInit /\ [][DeliveryNext]_<<vars, streamVars, course>>

-----------------------------------------------------------------------------
\* The last of the handled states of leg l, 0 if there is none.
LastOf(l) ==
  LET of == {e \in handled : course[e].leg = l}
  IN IF of = {} THEN 0 ELSE CHOOSE e \in of : \A d \in of : d =< e

\* What the archive must hold for leg l: its last state, once that state ended the leg
\* or a state of a later leg has come.
Expected(l) ==
  LET e == LastOf(l)
  IN IF e # 0 /\ (Ends(course[e]) \/ \E d \in handled : Before(l, course[d].leg))
     THEN course[e] ELSE None

\* "HandleEvent verarbeitet ein einzelnes Event idempotent" (ingest.go 107), for the
\* whole stream: whenever the newest state is the one handled last, and none that was
\* handled has been given up, the match, the archive and the legs are what handling each
\* state once yields, whatever was repeated before.
RepetitionChangesNothing ==
  handled # {} /\ handled \cap givenUp = {} /\ (\A e \in handled : e =< last) =>
    /\ match.raw = course[last]
    /\ snapshots = [l \in LegIds |-> Expected(l)]
    /\ legs = UNION {LegRows(l, Expected(l)) : l \in {k \in LegIds : Expected(k) # None}}

=============================================================================
