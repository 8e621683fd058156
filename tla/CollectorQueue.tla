---------------------------- MODULE CollectorQueue ----------------------------
(***************************************************************************)
(* The extension's service worker, extension/bg.js: events from the game    *)
(* page are queued in memory and in chrome.storage and posted in batches.   *)
(*                                                                         *)
(* The worker is single-threaded, so what happens between two awaits is one *)
(* step; a function that awaits storage, the configuration or the server    *)
(* becomes a task with a program counter, and anything may happen between   *)
(* its steps.  chrome.storage handles requests in the order they are made:  *)
(* a write takes effect at once, and a read returns the value at the time   *)
(* it was asked for.  The server handles a batch event by event and may     *)
(* fail in the middle (api/server.go, handleIngest); what it handled before *)
(* the worker died or the connection broke stays handled.                   *)
(***************************************************************************)
EXTENDS Integers, Sequences

CONSTANTS
  MaxQueue,      \* MAX_QUEUE
  Batch,         \* BATCH
  Flushers,      \* names of the invocations of flush() that may be pending
  Faults,        \* what the environment may do at an awkward moment
  MaxEvents,     \* bound: events handed over by the page
  MaxFailures,   \* bound: requests that do not succeed
  MaxKills,      \* bound: ends of the worker of each kind
  None

\* overlap: a flush starts while another one reads the configuration
\* race:    a handler starts while the queue is being read from storage
\* shift:   the queue overflows or is cleared while a request is in flight
\* browser: the browser ends and starts again;  crash: the worker is killed
FaultKinds == {"overlap", "race", "shift", "browser", "crash"}

ASSUME QueueAssumption ==
  /\ MaxQueue \in Nat \ {0} /\ Batch \in Nat \ {0}
  /\ MaxEvents \in Nat /\ MaxFailures \in Nat /\ MaxKills \in Nat
  /\ Faults \subseteq FaultKinds
  /\ None \notin Seq(Nat)

VARIABLES
  \* the worker's memory
  queue,        \* a sequence of events, or None before it is loaded
  timer,        \* flushTimer is set
  sending,
  reads,        \* pending reads of the queue: who waits, and the value to come
  pc, batch,    \* per flush: where it is, and the batch in flight
  \* what survives the worker
  stored,       \* the queue in chrome.storage
  alarm,        \* the retry alarm is set
  configured,   \* backend URL and API key are set
  booting,      \* onStartup has not been delivered yet
  \* the page, the server, and the bounds
  arrived, received, progress, last, failures, kills,
  dropped,      \* events rejected by the server, cleared, or cut from a full queue
  saved         \* history: the events that were in chrome.storage once

memory == <<queue, timer, sending, reads, pc, batch>>
outside == <<arrived, received, progress, last, failures, kills, dropped, saved>>
vars == <<memory, stored, alarm, configured, booting, outside>>

Events == 1 .. MaxEvents
Ends   == {"browser", "crash"}
\* Events that have arrived, as many as a queue holds.
IsQueue(q) == q \in Seq(1 .. arrived) /\ Len(q) =< MaxQueue

ReadTasks == {"enqueue", "flush", "startup", "clear", "status"}

Idle(f) == pc[f] = "idle"
InFlight == \E f \in Flushers : pc[f] = "fetch"
Waiting(e) == \E r \in reads : r.task = "enqueue" /\ r.of = e

-----------------------------------------------------------------------------
Init ==
  /\ queue = None /\ stored = <<>>
  /\ timer = FALSE /\ alarm = FALSE /\ sending = FALSE
  /\ reads = {}
  /\ pc = [f \in Flushers |-> "idle"]
  /\ batch = [f \in Flushers |-> <<>>]
  /\ configured \in BOOLEAN
  /\ booting = FALSE
  /\ arrived = 0 /\ received = {} /\ last = 0 /\ dropped = {} /\ saved = {}
  /\ progress = [f \in Flushers |-> 0]
  /\ failures = 0 /\ kills = [k \in Ends |-> 0]

\* loadQueue with nothing in memory: ask storage and wait.
Read(task, of) ==
  /\ "race" \in Faults \/ reads = {}
  /\ reads' = reads \cup {[task |-> task, of |-> of, value |-> stored]}

-----------------------------------------------------------------------------
(* enqueue *)

Excess(q) == IF Len(q) > MaxQueue THEN Len(q) - MaxQueue ELSE 0

\* Faulty variants: nothing is cut; the new event goes to the front.
PushUnbounded(q, e) ==
  /\ queue' = Append(q, e)
  /\ stored' = queue'
  /\ saved' = saved \cup {e}
  /\ timer' = TRUE
  /\ UNCHANGED dropped
PushFront(q, e) ==
  LET n == Excess(<<e>> \o q)
      long == <<e>> \o q
  IN /\ "shift" \in Faults \/ n = 0 \/ ~InFlight
     /\ queue' = SubSeq(long, n + 1, Len(long))
     /\ stored' = queue'
     /\ saved' = saved \cup {e}
     /\ dropped' = dropped \cup {long[i] : i \in 1 .. n}
     /\ timer' = TRUE

\* The rest of enqueue once the queue is in memory: push, cut the oldest, save,
\* set the timer.
Push(q, e) ==
  LET long == Append(q, e)
      n == Excess(long)
  IN /\ "shift" \in Faults \/ n = 0 \/ ~InFlight
     /\ queue' = SubSeq(long, n + 1, Len(long))
     /\ stored' = queue'
     /\ saved' = saved \cup {e}
     /\ dropped' = dropped \cup {long[i] : i \in 1 .. n}
     /\ timer' = TRUE

Event ==
  /\ arrived < MaxEvents
  /\ arrived' = arrived + 1
  /\ IF queue = None
     THEN /\ Read("enqueue", arrived + 1)
          /\ UNCHANGED <<queue, stored, dropped, saved, timer>>
     ELSE /\ Push(queue, arrived + 1)
          /\ UNCHANGED reads
  /\ UNCHANGED <<sending, pc, batch, alarm, configured, booting, received, progress, last,
                 failures, kills>>

-----------------------------------------------------------------------------
(* flush *)

\* flush() up to its second await, getConfig().
Start(f) ==
  IF sending
  THEN UNCHANGED <<reads, pc>>
  ELSE /\ Idle(f)
       /\ "overlap" \in Faults \/ \A g \in Flushers : Idle(g)
       /\ IF queue = None
          THEN Read("flush", f) /\ pc' = [pc EXCEPT ![f] = "load"]
          ELSE /\ pc' = IF queue = <<>> THEN pc ELSE [pc EXCEPT ![f] = "config"]
               /\ UNCHANGED reads

\* The timer, the retry alarm or the options page calls flush; saving the options
\* completes the configuration first.
Timer(f) ==
  /\ timer
  /\ timer' = FALSE
  /\ Start(f)
  /\ UNCHANGED <<queue, sending, batch, stored, alarm, configured, booting, outside>>

Alarm(f) ==
  /\ alarm
  /\ alarm' = FALSE
  /\ Start(f)
  /\ UNCHANGED <<queue, timer, sending, batch, stored, configured, booting, outside>>

Options(f) ==
  /\ configured' \in {configured, TRUE}
  /\ Start(f)
  /\ UNCHANGED <<queue, timer, sending, batch, stored, alarm, booting, outside>>

\* Faulty variant: no alarm is created.
FinishSilently(f) ==
  /\ sending' = FALSE
  /\ pc' = [pc EXCEPT ![f] = "idle"]
  /\ batch' = [batch EXCEPT ![f] = <<>>]
  /\ progress' = [progress EXCEPT ![f] = 0]
  /\ UNCHANGED alarm

\* The finally block.
Finish(f) ==
  /\ sending' = FALSE
  /\ pc' = [pc EXCEPT ![f] = "idle"]
  /\ batch' = [batch EXCEPT ![f] = <<>>]
  /\ progress' = [progress EXCEPT ![f] = 0]
  /\ alarm' = (alarm \/ queue # <<>>)

\* The body of the loop up to fetch.
Post(f) ==
  /\ pc' = [pc EXCEPT ![f] = "fetch"]
  /\ batch' = [batch EXCEPT ![f] = SubSeq(queue, 1, IF Len(queue) < Batch THEN Len(queue) ELSE Batch)]
  /\ progress' = [progress EXCEPT ![f] = 0]
  /\ UNCHANGED alarm

Config(f) ==
  /\ pc[f] = "config"
  /\ \/ /\ ~configured
        /\ pc' = [pc EXCEPT ![f] = "idle"]
        /\ UNCHANGED <<sending, batch, progress, alarm>>
     \/ configured /\ queue # <<>> /\ sending' = TRUE /\ Post(f)
     \/ configured /\ queue = <<>> /\ Finish(f)
  /\ UNCHANGED <<queue, timer, reads, stored, configured, booting, arrived, received, last,
                 dropped, saved, failures, kills>>

\* The queue was saved: the next round of the loop, or its end.
Again(f) ==
  /\ pc[f] = "loop"
  /\ \/ queue # <<>> /\ Post(f) /\ UNCHANGED sending
     \/ queue = <<>> /\ Finish(f)
  /\ UNCHANGED <<queue, timer, reads, stored, configured, booting, arrived, received, last,
                 dropped, saved, failures, kills>>

\* queue.splice(0, batch.length) and saveQueue, whatever the queue's head is by now.
Splice(f) ==
  /\ queue' = SubSeq(queue, Len(batch[f]) + 1, Len(queue))
  /\ stored' = queue'
  /\ pc' = [pc EXCEPT ![f] = "loop"]

\* The server handles the next event of a batch in flight.
ServerHandles(f) ==
  /\ pc[f] = "fetch"
  /\ progress[f] < Len(batch[f])
  /\ progress' = [progress EXCEPT ![f] = @ + 1]
  /\ last' = batch[f][progress[f] + 1]
  /\ received' = received \cup {last'}
  /\ UNCHANGED <<memory, stored, alarm, configured, booting, arrived, dropped, saved,
                 failures, kills>>

AnswerOk(f) ==
  /\ pc[f] = "fetch"
  /\ progress[f] = Len(batch[f])
  /\ Splice(f)
  /\ UNCHANGED <<timer, sending, reads, batch, alarm, configured, booting, outside>>

\* 400 or 413: the batch is discarded.
AnswerRejected(f) ==
  /\ pc[f] = "fetch"
  /\ progress[f] = 0
  /\ failures < MaxFailures
  /\ failures' = failures + 1
  /\ dropped' = dropped \cup {batch[f][i] : i \in DOMAIN batch[f]}
  /\ Splice(f)
  /\ UNCHANGED <<timer, sending, reads, batch, alarm, configured, booting, arrived, received,
                 progress, last, saved, kills>>

\* Faulty variant: a batch that failed is discarded.
AnswerFailedDiscarding(f) ==
  /\ pc[f] = "fetch"
  /\ failures < MaxFailures
  /\ failures' = failures + 1
  /\ Splice(f)
  /\ UNCHANGED <<timer, sending, reads, batch, alarm, configured, booting, arrived, received,
                 progress, last, dropped, saved, kills>>

\* 401, 403, 5xx, no answer, or an exception.
AnswerFailed(f) ==
  /\ pc[f] = "fetch"
  /\ failures < MaxFailures
  /\ failures' = failures + 1
  /\ Finish(f)
  /\ UNCHANGED <<queue, timer, reads, stored, configured, booting, arrived, received, last,
                 dropped, saved, kills>>

-----------------------------------------------------------------------------
(* The other messages, and the answers of storage *)

ClearNow(q) ==
  /\ "shift" \in Faults \/ ~InFlight
  /\ queue' = <<>>
  /\ stored' = <<>>
  /\ dropped' = dropped \cup {q[i] : i \in DOMAIN q}

Clear ==
  /\ IF queue = None
     THEN Read("clear", None) /\ UNCHANGED <<queue, stored, dropped>>
     ELSE ClearNow(queue) /\ UNCHANGED reads
  /\ UNCHANGED <<timer, sending, pc, batch, alarm, configured, booting, arrived, received,
                 progress, last, saved, failures, kills>>

\* The message "status", and onInstalled.
Status ==
  /\ queue = None
  /\ Read("status", None)
  /\ UNCHANGED <<queue, timer, sending, pc, batch, stored, alarm, configured, booting, outside>>

\* onStartup
Startup ==
  /\ booting
  /\ booting' = FALSE
  /\ IF queue = None
     THEN Read("startup", None) /\ UNCHANGED timer
     ELSE timer' = TRUE /\ UNCHANGED reads
  /\ UNCHANGED <<queue, sending, pc, batch, stored, alarm, configured, outside>>

\* loadQueue goes on: what was read becomes the queue, then its caller continues.
ReadAnswered(r) ==
  /\ reads' = reads \ {r}
  /\ CASE r.task = "enqueue" -> Push(r.value, r.of) /\ UNCHANGED pc
       [] r.task = "flush"   -> /\ queue' = r.value
                                /\ pc' = [pc EXCEPT ![r.of] =
                                            IF r.value = <<>> THEN "idle" ELSE "config"]
                                /\ UNCHANGED <<stored, dropped, saved, timer>>
       [] r.task = "startup" -> queue' = r.value /\ timer' = TRUE
                                /\ UNCHANGED <<stored, dropped, saved, pc>>
       [] r.task = "clear"   -> ClearNow(r.value) /\ UNCHANGED <<timer, pc, saved>>
       [] r.task = "status"  -> queue' = r.value /\ UNCHANGED <<stored, dropped, saved, timer, pc>>
  /\ UNCHANGED <<sending, batch, alarm, configured, booting, arrived, received, progress, last,
                 failures, kills>>

-----------------------------------------------------------------------------
(* The end of the worker *)

\* Memory is gone, and with it any event that waits for storage.
Forget ==
  /\ queue' = None /\ timer' = FALSE /\ sending' = FALSE
  /\ reads' = {}
  /\ pc' = [f \in Flushers |-> "idle"]
  /\ batch' = [f \in Flushers |-> <<>>]
  /\ progress' = [f \in Flushers |-> 0]
  /\ UNCHANGED <<stored, configured, arrived, received, last, dropped, saved, failures>>

\* After 30 seconds without work the worker is unloaded.
Unload ==
  /\ queue # None
  /\ ~timer /\ reads = {} /\ \A f \in Flushers : Idle(f)
  /\ Forget
  /\ UNCHANGED <<alarm, booting, kills>>

\* The browser ends, or the worker alone is killed.
Kill(kind) ==
  /\ kind \in Faults
  /\ kills[kind] < MaxKills
  /\ kills' = [kills EXCEPT ![kind] = @ + 1]
  /\ Forget
  /\ \/ kind = "browser" /\ booting' = TRUE /\ alarm' \in {alarm, FALSE}
     \/ kind = "crash" /\ UNCHANGED <<booting, alarm>>

Next ==
  \/ Event \/ Clear \/ Status \/ Startup \/ Unload
  \/ \E kind \in Ends : Kill(kind)
  \/ \E r \in reads : ReadAnswered(r)
  \/ \E f \in Flushers :
       \/ Timer(f) \/ Alarm(f) \/ Options(f) \/ Config(f) \/ Again(f)
       \/ ServerHandles(f) \/ AnswerOk(f) \/ AnswerRejected(f) \/ AnswerFailed(f)

Spec == Init /\ [][Next]_vars

\* Storage, timers, alarms and onStartup deliver, and the server answers; the page,
\* the options page and the end of the worker are not fair.  A pending timer, alarm or
\* start-up is delivered although handlers that Faults keeps apart may come first again
\* and again, hence strong fairness.
Fairness ==
  /\ WF_vars(\E r \in reads : ReadAnswered(r))
  /\ SF_vars(Startup)
  /\ SF_vars(\E f \in Flushers : Timer(f))
  /\ SF_vars(\E f \in Flushers : Alarm(f))
  /\ \A f \in Flushers :
       /\ WF_vars(Config(f)) /\ WF_vars(Again(f))
       /\ WF_vars(ServerHandles(f)) /\ WF_vars(AnswerOk(f))

FairSpec == Spec /\ Fairness

-----------------------------------------------------------------------------
(* Properties *)

TypeOK ==
  /\ queue = None \/ IsQueue(queue)
  /\ IsQueue(stored)
  /\ timer \in BOOLEAN /\ alarm \in BOOLEAN /\ sending \in BOOLEAN
  /\ configured \in BOOLEAN /\ booting \in BOOLEAN
  /\ pc \in [Flushers -> {"idle", "load", "config", "fetch", "loop"}]
  /\ batch \in [Flushers -> Seq(1 .. arrived)] /\ progress \in [Flushers -> Nat]
  /\ \A f \in Flushers : IsQueue(batch[f]) /\ progress[f] =< Len(batch[f]) /\ Len(batch[f]) =< Batch
  /\ arrived \in 0 .. MaxEvents /\ last \in 0 .. arrived
  /\ received \subseteq 1 .. arrived /\ dropped \subseteq 1 .. arrived
  /\ saved \subseteq 1 .. arrived
  /\ failures \in Nat /\ kills \in [Ends -> Nat]
  /\ \A r \in reads :
       /\ r.task \in ReadTasks /\ IsQueue(r.value)
       /\ r.task = "enqueue" => r.of \in 1 .. arrived
       /\ r.task = "flush" => r.of \in Flushers

Stored == {stored[i] : i \in DOMAIN stored}
Open   == Stored \cup {e \in 1 .. arrived : Waiting(e)}

\* Neither waiting nor ever stored: lost with the worker, and nobody was told.
Lost == {e \in 1 .. arrived : e \notin saved /\ ~Waiting(e)}

\* An event in the queue stays there until the server has it, whatever ends the worker; only
\* a rejected batch, clearing, or the overflow of the queue drops it ("puffert in einer
\* persistenten Queue (max. 500)", README 76).  And every event gets into the queue, unless
\* the browser ends or the worker is killed before storage has answered.
NothingLost ==
  /\ saved \subseteq received \cup dropped \cup Stored
  /\ (\A kind \in Ends : kills[kind] = 0) => Lost = {}

\* What the server sees is an EventStream: in order, with repetitions of what is not yet
\* acknowledged, without gaps.
Stream == INSTANCE EventStream WITH
  accepted <- arrived, handled <- received, last <- last, givenUp <- dropped, lost <- Lost,
  settled <- (1 .. arrived) \ Open

StreamSpec == Stream!Spec

\* After a crash the alarm may not be set, and then nothing starts a flush until the next
\* event, the options page or the next start of the browser.
Stranded ==
  /\ kills["crash"] > 0
  /\ ~timer /\ ~alarm /\ ~booting /\ reads = {} /\ \A f \in Flushers : Idle(f)

\* An event reaches the server, or is dropped or lost as NothingLost allows, once the
\* extension is configured, as long as the server fails only finitely often and no crash
\* strands the queue ("wiederholt bei Fehlern per Alarm", README 77).
EventuallySent ==
  \A e \in Events : (configured /\ e \in Open) ~> (e \in received \cup dropped \cup Lost \/ Stranded)

=============================================================================
