----------------------------- MODULE EventStream -----------------------------
(* What the collector promises the server: events 1, 2, 3 ... are handled in  *)
(* order, possibly again and again, and each one until it is acknowledged or  *)
(* openly given up (rejected, cleared, or the oldest of a full queue).  Only  *)
(* the newest one can be lost without a word, as long as it was not handled.  *)
EXTENDS Naturals

VARIABLES
  accepted,   \* how many events were handed to the collector
  handled,    \* the events the server has handled at least once
  settled,    \* the events the collector is done with
  givenUp,    \* the settled events that were given up
  lost,       \* the settled events that were lost
  last        \* the event the server handled last, 0 before the first

vars == <<accepted, handled, settled, givenUp, lost, last>>

Init ==
  /\ accepted = 0
  /\ handled = {} /\ settled = {} /\ givenUp = {} /\ lost = {}
  /\ last = 0

Open == (1 .. accepted) \ settled

\* A new event; a full queue gives up some of the open ones.
Accept ==
  \E gone \in SUBSET Open :
    /\ accepted' = accepted + 1
    /\ settled' = settled \cup gone
    /\ givenUp' = givenUp \cup gone
    /\ UNCHANGED <<handled, lost, last>>

\* The server handles the oldest open event (a new attempt), or the open event that
\* follows the one it handled last: no event is skipped, and none the collector is done
\* with comes back.
Handle(e) ==
  /\ \/ \A d \in Open : e =< d
     \/ e > last /\ \A d \in Open : d < e => d =< last
  /\ handled' = handled \cup {e}
  /\ last' = e
  /\ UNCHANGED <<accepted, settled, givenUp, lost>>

\* Everything up to the event handled last is acknowledged.
Acknowledge ==
  /\ settled' = settled \cup {e \in Open : e =< last}
  /\ UNCHANGED <<accepted, handled, givenUp, lost, last>>

GiveUp ==
  \E gone \in SUBSET Open :
    /\ settled' = settled \cup gone
    /\ givenUp' = givenUp \cup gone
    /\ UNCHANGED <<accepted, handled, lost, last>>

\* The collector ends before it has taken over the newest event.
Lose ==
  /\ accepted \in Open \ handled
  /\ settled' = settled \cup {accepted}
  /\ lost' = lost \cup {accepted}
  /\ UNCHANGED <<accepted, handled, givenUp, last>>

Next == Accept \/ (\E e \in Open : Handle(e)) \/ Acknowledge \/ GiveUp \/ Lose

Spec == Init /\ [][Next]_vars

=============================================================================
