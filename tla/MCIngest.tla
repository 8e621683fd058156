------------------------------ MODULE MCIngest ------------------------------
(***************************************************************************)
(* Small instances of MatchIngest and MatchDelivery, two slots each:        *)
(*   "orders"          any states of three legs in any order;               *)
(*   "administrators"  the states of one course of two legs in any order,   *)
(*                     with administrators in between;                      *)
(*   "stream"          every course of four states of two legs, delivered   *)
(*                     by an EventStream.                                   *)
(***************************************************************************)
EXTENDS MatchDelivery, TLC

CONSTANTS ann, bob, cem, Scenarios, MaxAdminSteps

VARIABLES
  scenario,
  adminSteps    \* bounds how often administrators interfere

MCSlots == {0, 1}

TwoLegs   == {<<1, 1>>, <<1, 2>>}
ThreeLegs == TwoLegs \cup {<<2, 1>>}

Running(l)  == [leg |-> l, legFinished |-> FALSE, legWinner |-> -1, finished |-> FALSE, winner |-> -1]
Ended(l, w) == [Running(l) EXCEPT !.legFinished = TRUE, !.legWinner = w]
Last(l, w)  == [Ended(l, w) EXCEPT !.finished = TRUE, !.winner = w]

\* A leg is running, ended with a winner, or ended without one; the match may end with
\* a leg.
ReportsOf(l) ==
  {Running(l), Ended(l, -1)} \cup UNION {{Ended(l, w), Last(l, w)} : w \in MCSlots}

MCReports == UNION {ReportsOf(l) : l \in ThreeLegs}

\* One course of a match for the runs with administrators: a first leg, and a second
\* leg that ends the match with either winner.
CourseReports == LET first == <<1, 1>>  second == <<1, 2>>
                 IN {Running(first), Ended(first, 0), Running(second), Last(second, 0), Last(second, 1)}

StreamReports == UNION {{Running(l), Ended(l, 0), Ended(l, 1), Last(l, 1)} : l \in TwoLegs}

\* A course never goes back: not in legs, not from a leg's end, not from the match's.
FollowsOn(a, b) ==
  /\ a # b
  /\ \/ a.leg = <<1, 1>> /\ b.leg = <<1, 2>> /\ ~a.finished
     \/ a.leg = b.leg /\ (Ends(a) => Ends(b)) /\ (a.finished => b.finished)

MCCourses == {c \in [1 .. 4 -> StreamReports] : \A i \in 1 .. 3 : FollowsOn(c[i], c[i + 1])}

\* Slot 0 is a guest called ann, slot 1 the account of bob.
MCClaim == (0 :> ann) @@ (1 :> bob)

\* In a stream nobody's name is protected.
MCInit ==
  /\ scenario \in Scenarios
  /\ protected \in SUBSET CASE scenario = "orders"         -> {ann, bob}
                            [] scenario = "administrators" -> Players
                            [] scenario = "stream"         -> {}
  /\ course \in IF scenario = "stream" THEN Courses ELSE {CHOOSE c \in Courses : TRUE}
  /\ DeliveryInit
  /\ adminSteps = 0

Unordered ==
  /\ scenario # "stream"
  /\ (\E r \in IF scenario = "orders" THEN Reports ELSE CourseReports : HandleEvent(r)) \/ Reprocess
  /\ UNCHANGED <<streamVars, course, adminSteps>>

Interfere ==
  /\ scenario = "administrators"
  /\ adminSteps < MaxAdminSteps
  /\ Administer
  /\ adminSteps' = adminSteps + 1
  /\ UNCHANGED <<streamVars, course>>

Streamed ==
  /\ scenario = "stream"
  /\ DeliveryNext
  /\ UNCHANGED adminSteps

MCNext == (Unordered \/ Interfere \/ Streamed) /\ UNCHANGED scenario

MCSpec == MCInit /\ [][MCNext]_<<vars, streamVars, course, scenario, adminSteps>>

=============================================================================
