------------------------------ MODULE QueueProofs ------------------------------
(* Theorems about CollectorQueue, for any queue, batch, worker and page. *)
EXTENDS CollectorQueue, SequenceTheorems, TLAPS

-----------------------------------------------------------------------------
(* Sequences of events *)

Elems(q) == {q[i] : i \in DOMAIN q}
Heads(q, n) == {q[i] : i \in 1 .. n}

LEMMA ElemsIn ==
  ASSUME NEW S, NEW q \in Seq(S)
  PROVE  /\ Elems(q) = {q[i] : i \in 1 .. Len(q)}
         /\ Elems(q) \subseteq S
<1>1. DOMAIN q = 1 .. Len(q)
  BY LenProperties
<1>2. \A i \in 1 .. Len(q) : q[i] \in S
  BY ElementOfSeq
<1> QED
  BY <1>1, <1>2 DEF Elems

\* Cutting the head off.
LEMMA TailFacts ==
  ASSUME NEW S, NEW q \in Seq(S), NEW k \in Nat
  PROVE  /\ SubSeq(q, k + 1, Len(q)) \in Seq(S)
         /\ Len(SubSeq(q, k + 1, Len(q))) = IF k =< Len(q) THEN Len(q) - k ELSE 0
         /\ \A i \in 1 .. Len(SubSeq(q, k + 1, Len(q))) : SubSeq(q, k + 1, Len(q))[i] = q[k + i]
<1>1. Len(q) \in Nat /\ \A i \in k + 1 .. Len(q) : q[i] \in S
  BY LenProperties, ElementOfSeq
<1>2. /\ SubSeq(q, k + 1, Len(q)) \in Seq(S)
      /\ Len(SubSeq(q, k + 1, Len(q))) = IF k + 1 <= Len(q) THEN Len(q) - (k + 1) + 1 ELSE 0
      /\ \A i \in 1 .. Len(q) - (k + 1) + 1 : SubSeq(q, k + 1, Len(q))[i] = q[k + 1 + i - 1]
  BY <1>1, SubSeqProperties
<1>3. \A i \in Int : k + 1 + i - 1 = k + i
  OBVIOUS
<1> QED
  BY <1>1, <1>2, <1>3

\* Its first elements.
LEMMA HeadFacts ==
  ASSUME NEW S, NEW q \in Seq(S), NEW k \in 0 .. Len(q)
  PROVE  /\ SubSeq(q, 1, k) \in Seq(S)
         /\ Len(SubSeq(q, 1, k)) = k
         /\ \A i \in 1 .. k : SubSeq(q, 1, k)[i] = q[i]
<1>1. Len(q) \in Nat /\ \A i \in 1 .. k : q[i] \in S
  BY LenProperties, ElementOfSeq
<1>2. /\ SubSeq(q, 1, k) \in Seq(S)
      /\ Len(SubSeq(q, 1, k)) = IF 1 <= k THEN k - 1 + 1 ELSE 0
      /\ \A i \in 1 .. k - 1 + 1 : SubSeq(q, 1, k)[i] = q[1 + i - 1]
  BY <1>1, SubSeqProperties
<1> QED
  BY <1>1, <1>2

\* What enqueue cuts from the queue with its new event, and what it leaves: the new event
\* comes last, and a full queue loses its first one.
Count(q, e) == Excess(Append(q, e))
Cut(q, e) == SubSeq(Append(q, e), Count(q, e) + 1, Len(Append(q, e)))
Gone(q, e) == {Append(q, e)[i] : i \in 1 .. Count(q, e)}

LEMMA PushFacts ==
  ASSUME NEW S, NEW q \in Seq(S), NEW e \in S, Len(q) =< MaxQueue
  PROVE  /\ Count(q, e) \in 0 .. 1 /\ Count(q, e) =< Len(q)
         /\ Cut(q, e) \in Seq(S) /\ Len(Cut(q, e)) = Len(q) + 1 - Count(q, e) /\ Len(Cut(q, e)) =< MaxQueue
         /\ \A i \in 1 .. Len(q) - Count(q, e) : Cut(q, e)[i] = q[Count(q, e) + i]
         /\ Cut(q, e)[Len(Cut(q, e))] = e
         /\ Gone(q, e) = Heads(q, Count(q, e))
<1> DEFINE long == Append(q, e)
           n == Count(q, e)
           s == Cut(q, e)
<1>1. /\ Len(q) \in Nat
      /\ long \in Seq(S) /\ Len(long) = Len(q) + 1
      /\ \A i \in 1 .. Len(q) : long[i] = q[i]
      /\ long[Len(q) + 1] = e
  BY LenProperties, AppendProperties
<1>2. n \in 0 .. 1 /\ n =< Len(q) /\ Len(q) + 1 - n =< MaxQueue
  BY <1>1, QueueAssumption DEF Excess, Count
<1>3. s \in Seq(S) /\ Len(s) = Len(long) - n /\ \A i \in 1 .. Len(s) : s[i] = long[n + i]
  <2>1. n \in Nat /\ n =< Len(long)
    BY <1>1, <1>2
  <2>2. s = SubSeq(long, n + 1, Len(long))
    BY DEF Cut
  <2> HIDE DEF long, n, s
  <2>3. /\ s \in Seq(S)
        /\ Len(s) = IF n =< Len(long) THEN Len(long) - n ELSE 0
        /\ \A i \in 1 .. Len(s) : s[i] = long[n + i]
    BY <1>1, <2>1, <2>2, TailFacts
  <2> QED
    BY <2>1, <2>3
<1> HIDE DEF long, n, s
<1>4. \A i \in 1 .. Len(q) - n : s[i] = q[n + i]
  BY <1>1, <1>2, <1>3
<1>5. s[Len(s)] = e
  <2>1. Len(s) \in 1 .. Len(s) /\ n + Len(s) = Len(q) + 1
    BY <1>1, <1>2, <1>3
  <2> QED
    BY <1>1, <1>3, <2>1
<1>6. \A i \in 1 .. n : long[i] = q[i]
  BY <1>1, <1>2
<1>7. Gone(q, e) = Heads(q, n)
  BY <1>6 DEF Gone, Heads, long, n
<1> QED
  BY <1>1, <1>2, <1>3, <1>4, <1>5, <1>7 DEF long, n, s

-----------------------------------------------------------------------------
(* Types *)

\* A flush past its first await has the queue in memory.
Loaded == \A f \in Flushers : pc[f] \in {"config", "fetch", "loop"} => queue # None

TypeInv == TypeOK /\ Loaded

LEMMA QueueIsNotNone ==
  ASSUME NEW a \in Nat, NEW q \in Seq(1 .. a)
  PROVE  q # None
<1>1. q \in Seq(Nat)
  BY SeqMonotonic
<1> QED
  BY <1>1, QueueAssumption

LEMMA EmptyIsNotNone == <<>> # None
BY EmptySeq, QueueAssumption

LEMMA PushTyped ==
  ASSUME arrived' \in Nat, NEW q \in Seq(1 .. arrived'), Len(q) =< MaxQueue,
         NEW e \in 1 .. arrived', dropped \subseteq 1 .. arrived', saved \subseteq 1 .. arrived', Push(q, e)
  PROVE  /\ IsQueue(queue)' /\ stored' = queue' /\ queue' # None
         /\ dropped' \subseteq 1 .. arrived' /\ saved' \subseteq 1 .. arrived' /\ timer' = TRUE
<1>1. /\ queue' = Cut(q, e) /\ stored' = queue' /\ timer' = TRUE
      /\ dropped' = dropped \cup Gone(q, e) /\ saved' = saved \cup {e}
  BY DEF Push, Cut, Count, Gone
<1>2. /\ Count(q, e) \in 0 .. 1 /\ Count(q, e) =< Len(q)
      /\ Cut(q, e) \in Seq(1 .. arrived') /\ Len(Cut(q, e)) =< MaxQueue
      /\ Gone(q, e) = Heads(q, Count(q, e))
  BY PushFacts
<1>3. Gone(q, e) \subseteq 1 .. arrived'
  BY <1>2, LenProperties, ElementOfSeq DEF Heads
<1> QED
  BY <1>1, <1>2, <1>3, QueueIsNotNone DEF IsQueue

\* A queue stays one while events arrive.
LEMMA QueueGrows ==
  ASSUME TypeOK, arrived' \in {arrived, arrived + 1}, NEW q, IsQueue(q)
  PROVE  q \in Seq(1 .. arrived') /\ Len(q) =< MaxQueue /\ Len(q) \in Nat
<1>1. arrived \in Nat /\ 1 .. arrived \subseteq 1 .. arrived'
  BY DEF TypeOK
<1> QED
  BY <1>1, SeqMonotonic, LenProperties DEF IsQueue

\* An event that arrives is pushed, or waits for storage.
LEMMA EventTyped ==
  ASSUME TypeInv, Event
  PROVE  TypeInv'
<1>1. /\ arrived < MaxEvents /\ arrived' = arrived + 1 /\ arrived \in Nat
      /\ UNCHANGED <<sending, pc, batch, alarm, configured, booting, received, progress, last,
                     failures, kills>>
  BY DEF Event, TypeInv, TypeOK
<1>2. \A q : IsQueue(q) => q \in Seq(1 .. arrived') /\ Len(q) =< MaxQueue
  BY <1>1, QueueGrows DEF TypeInv
<1>3. batch \in [Flushers -> Seq(1 .. arrived')]
  BY <1>2 DEF TypeInv, TypeOK
<1>4. /\ \A f \in Flushers : IsQueue(batch[f])' /\ progress'[f] =< Len(batch'[f]) /\ Len(batch'[f]) =< Batch
      /\ batch' \in [Flushers -> Seq(1 .. arrived')]
  BY <1>1, <1>2, <1>3 DEF TypeInv, TypeOK, IsQueue
<1>5. /\ arrived' \in 0 .. MaxEvents /\ last' \in 0 .. arrived'
      /\ received' \subseteq 1 .. arrived' /\ dropped \subseteq 1 .. arrived'
      /\ saved \subseteq 1 .. arrived'
  BY <1>1, QueueAssumption DEF TypeInv, TypeOK
<1>6. CASE queue = None
  <2>1. /\ UNCHANGED <<queue, stored, dropped, saved, timer>>
        /\ reads' = reads \cup {[task |-> "enqueue", of |-> arrived + 1, value |-> stored]}
    BY <1>6 DEF Event, Read
  <2>2. \A r \in reads' : /\ r.task \in ReadTasks /\ IsQueue(r.value)'
                          /\ r.task = "enqueue" => r.of \in 1 .. arrived'
                          /\ r.task = "flush" => r.of \in Flushers
    BY <1>1, <1>2, <2>1 DEF TypeInv, TypeOK, IsQueue, ReadTasks
  <2>3. IsQueue(stored)'
    BY <1>2, <2>1 DEF TypeInv, TypeOK, IsQueue
  <2> QED
    BY <1>1, <1>4, <1>5, <1>6, <2>1, <2>2, <2>3 DEF TypeInv, TypeOK, Loaded
<1>7. CASE queue # None
  <2>1. Push(queue, arrived + 1) /\ UNCHANGED reads
    BY <1>7 DEF Event
  <2>2. queue \in Seq(1 .. arrived') /\ Len(queue) =< MaxQueue
    BY <1>2, <1>7 DEF TypeInv, TypeOK
  <2>3. /\ IsQueue(queue)' /\ stored' = queue' /\ queue' # None
        /\ dropped' \subseteq 1 .. arrived' /\ saved' \subseteq 1 .. arrived' /\ timer' = TRUE
    <3>1. /\ arrived' \in Nat /\ arrived + 1 \in 1 .. arrived'
          /\ dropped \subseteq 1 .. arrived' /\ saved \subseteq 1 .. arrived'
      BY <1>1, <1>5
    <3> QED
      BY <2>1, <2>2, <3>1, PushTyped
  <2>4. IsQueue(stored)'
    BY <2>3 DEF IsQueue
  <2>5. \A r \in reads' : /\ r.task \in ReadTasks /\ IsQueue(r.value)'
                          /\ r.task = "enqueue" => r.of \in 1 .. arrived'
                          /\ r.task = "flush" => r.of \in Flushers
    BY <1>1, <1>2, <2>1 DEF TypeInv, TypeOK, IsQueue
  <2> QED
    BY <1>1, <1>4, <1>5, <2>3, <2>4, <2>5 DEF TypeInv, TypeOK, Loaded
<1> QED
  BY <1>6, <1>7

\* flush() up to getConfig.
LEMMA StartTyped ==
  ASSUME TypeInv, NEW f \in Flushers, Start(f), timer' \in BOOLEAN, alarm' \in BOOLEAN,
         configured' \in BOOLEAN, UNCHANGED <<queue, sending, batch, stored, booting, outside>>
  PROVE  TypeInv'
<1>1. UNCHANGED <<arrived, received, progress, last, dropped, saved, failures, kills>>
  BY DEF outside
<1>2. pc' \in [Flushers -> {"idle", "load", "config", "fetch", "loop"}]
  BY DEF Start, TypeInv, TypeOK
<1>3. \A r \in reads' : /\ r.task \in ReadTasks /\ IsQueue(r.value)'
                        /\ r.task = "enqueue" => r.of \in 1 .. arrived'
                        /\ r.task = "flush" => r.of \in Flushers
  <2>1. reads' = reads \/ reads' = reads \cup {[task |-> "flush", of |-> f, value |-> stored]}
    BY DEF Start, Read
  <2> QED
    BY <1>1, <2>1 DEF TypeInv, TypeOK, IsQueue, ReadTasks
<1>4. Loaded'
  BY DEF Start, TypeInv, TypeOK, Loaded
<1> QED
  BY <1>1, <1>2, <1>3, <1>4 DEF TypeInv, TypeOK, IsQueue

\* The finally block leaves only flags and an empty batch.
LEMMA FinishTyped ==
  ASSUME TypeInv, NEW f \in Flushers, Finish(f),
         failures' \in Nat, received' \subseteq 1 .. arrived, last' \in 0 .. arrived,
         UNCHANGED <<queue, timer, reads, stored, configured, booting, arrived, dropped, saved, kills>>
  PROVE  TypeInv'
<1>1. /\ pc' = [pc EXCEPT ![f] = "idle"] /\ batch' = [batch EXCEPT ![f] = <<>>]
      /\ progress' = [progress EXCEPT ![f] = 0]
      /\ sending' \in BOOLEAN /\ alarm' \in BOOLEAN
  BY DEF Finish, TypeInv, TypeOK
<1>2. <<>> \in Seq(1 .. arrived) /\ Len(<<>>) = 0
  BY EmptySeq
<1>3. /\ batch' \in [Flushers -> Seq(1 .. arrived)] /\ progress' \in [Flushers -> Nat]
      /\ \A g \in Flushers : IsQueue(batch[g])' /\ progress'[g] =< Len(batch'[g]) /\ Len(batch'[g]) =< Batch
  <2>1. batch' \in [Flushers -> Seq(1 .. arrived)] /\ progress' \in [Flushers -> Nat]
    BY <1>1, <1>2 DEF TypeInv, TypeOK
  <2>2. batch'[f] = <<>> /\ progress'[f] = 0
    BY <1>1 DEF TypeInv, TypeOK
  <2>3. \A g \in Flushers \ {f} : batch'[g] = batch[g] /\ progress'[g] = progress[g]
    BY <1>1 DEF TypeInv, TypeOK
  <2>4. \A g \in Flushers \ {f} : IsQueue(batch[g])' /\ progress'[g] =< Len(batch'[g]) /\ Len(batch'[g]) =< Batch
    BY <2>3 DEF TypeInv, TypeOK, IsQueue
  <2>5. IsQueue(batch[f])' /\ progress'[f] =< Len(batch'[f]) /\ Len(batch'[f]) =< Batch
    BY <1>2, <2>2, QueueAssumption DEF IsQueue
  <2> QED
    BY <2>1, <2>4, <2>5
<1>4. pc' \in [Flushers -> {"idle", "load", "config", "fetch", "loop"}] /\ Loaded'
  BY <1>1 DEF TypeInv, TypeOK, Loaded
<1> QED
  BY <1>1, <1>3, <1>4 DEF TypeInv, TypeOK, IsQueue

\* A batch is the head of the queue.
LEMMA PostTyped ==
  ASSUME TypeInv, NEW f \in Flushers, queue # None, Post(f), sending' \in BOOLEAN,
         UNCHANGED <<queue, timer, reads, stored, configured, booting, arrived, received, last,
                     dropped, saved, failures, kills>>
  PROVE  TypeInv' /\ Len(batch'[f]) =< Len(queue) /\ \A i \in 1 .. Len(batch'[f]) : batch'[f][i] = queue[i]
<1> DEFINE n == IF Len(queue) < Batch THEN Len(queue) ELSE Batch
<1>1. queue \in Seq(1 .. arrived) /\ Len(queue) \in Nat /\ n \in 0 .. Len(queue) /\ n =< Batch
  BY LenProperties, QueueAssumption DEF TypeInv, TypeOK, IsQueue
<1>2. /\ pc' = [pc EXCEPT ![f] = "fetch"] /\ batch' = [batch EXCEPT ![f] = SubSeq(queue, 1, n)]
      /\ progress' = [progress EXCEPT ![f] = 0] /\ UNCHANGED alarm
  BY DEF Post
<1> HIDE DEF n
<1>3. /\ SubSeq(queue, 1, n) \in Seq(1 .. arrived) /\ Len(SubSeq(queue, 1, n)) = n
      /\ \A i \in 1 .. n : SubSeq(queue, 1, n)[i] = queue[i]
  BY <1>1, HeadFacts
<1>4. Len(queue) =< MaxQueue
  BY DEF TypeInv, TypeOK, IsQueue
<1>5. batch'[f] = SubSeq(queue, 1, n) /\ \A g \in Flushers \ {f} : batch'[g] = batch[g]
  BY <1>2 DEF TypeInv, TypeOK
<1>6. /\ batch' \in [Flushers -> Seq(1 .. arrived)] /\ progress' \in [Flushers -> Nat]
      /\ \A g \in Flushers : IsQueue(batch[g])' /\ progress'[g] =< Len(batch'[g]) /\ Len(batch'[g]) =< Batch
  <2>1. batch' \in [Flushers -> Seq(1 .. arrived)] /\ progress' \in [Flushers -> Nat]
    BY <1>2, <1>3 DEF TypeInv, TypeOK
  <2>2. progress'[f] = 0 /\ \A g \in Flushers \ {f} : progress'[g] = progress[g]
    BY <1>2 DEF TypeInv, TypeOK
  <2>3. \A g \in Flushers \ {f} : IsQueue(batch[g])' /\ progress'[g] =< Len(batch'[g]) /\ Len(batch'[g]) =< Batch
    BY <1>5, <2>2 DEF TypeInv, TypeOK, IsQueue
  <2>4. IsQueue(batch[f])' /\ progress'[f] =< Len(batch'[f]) /\ Len(batch'[f]) =< Batch
    BY <1>1, <1>3, <1>4, <1>5, <2>2, QueueAssumption DEF IsQueue
  <2> QED
    BY <2>1, <2>3, <2>4
<1>7. pc' \in [Flushers -> {"idle", "load", "config", "fetch", "loop"}] /\ Loaded'
  BY <1>2 DEF TypeInv, TypeOK, Loaded
<1>8. TypeInv'
  BY <1>2, <1>6, <1>7 DEF TypeInv, TypeOK, IsQueue
<1> QED
  BY <1>1, <1>3, <1>5, <1>8

\* After an answer the queue is shorter, and the batch remains until the next round.
LEMMA SpliceTyped ==
  ASSUME TypeInv, NEW f \in Flushers, pc[f] = "fetch", Splice(f),
         failures' \in Nat, dropped' \subseteq 1 .. arrived,
         UNCHANGED <<timer, sending, reads, batch, alarm, configured, booting, arrived, received,
                     progress, last, saved, kills>>
  PROVE  TypeInv'
<1>1. queue # None /\ queue \in Seq(1 .. arrived) /\ Len(queue) \in Nat /\ Len(queue) =< MaxQueue
  BY LenProperties DEF TypeInv, TypeOK, IsQueue, Loaded
<1>2. Len(batch[f]) \in Nat
  BY LenProperties DEF TypeInv, TypeOK, IsQueue
<1>3. /\ queue' = SubSeq(queue, Len(batch[f]) + 1, Len(queue)) /\ stored' = queue'
      /\ pc' = [pc EXCEPT ![f] = "loop"]
  BY DEF Splice
<1>4. queue' \in Seq(1 .. arrived) /\ Len(queue') =< MaxQueue
  <2>1. /\ SubSeq(queue, Len(batch[f]) + 1, Len(queue)) \in Seq(1 .. arrived)
        /\ Len(SubSeq(queue, Len(batch[f]) + 1, Len(queue)))
             = IF Len(batch[f]) =< Len(queue) THEN Len(queue) - Len(batch[f]) ELSE 0
    BY <1>1, <1>2, TailFacts
  <2> QED
    BY <1>1, <1>2, <1>3, <2>1, QueueAssumption
<1>5. queue' # None
  BY <1>4, QueueIsNotNone DEF TypeInv, TypeOK
<1> QED
  BY <1>3, <1>4, <1>5 DEF TypeInv, TypeOK, IsQueue, Loaded

LEMMA ConfigTyped ==
  ASSUME TypeInv, NEW f \in Flushers, Config(f) \/ Again(f)
  PROVE  TypeInv'
<1>1. /\ queue # None /\ pc[f] \in {"config", "loop"}
      /\ UNCHANGED <<queue, timer, reads, stored, configured, booting, arrived, received, last,
                     dropped, saved, failures, kills>>
  BY DEF Config, Again, TypeInv, Loaded
<1>2. CASE Finish(f)
  BY <1>1, <1>2, FinishTyped DEF TypeInv, TypeOK
<1>3. CASE Post(f) /\ sending' \in BOOLEAN
  BY <1>1, <1>3, PostTyped
<1>4. CASE pc' = [pc EXCEPT ![f] = "idle"] /\ UNCHANGED <<sending, batch, progress, alarm>>
  BY <1>1, <1>4 DEF TypeInv, TypeOK, IsQueue, Loaded
<1> QED
  BY <1>2, <1>3, <1>4 DEF Config, Again, TypeInv, TypeOK

\* The server gets no further than the batch.
LEMMA ServerTyped ==
  ASSUME TypeInv, NEW f \in Flushers, ServerHandles(f)
  PROVE  TypeInv'
<1>1. /\ progress[f] \in Nat /\ progress[f] < Len(batch[f]) /\ batch[f] \in Seq(1 .. arrived)
      /\ progress' = [progress EXCEPT ![f] = progress[f] + 1]
      /\ last' = batch[f][progress[f] + 1] /\ received' = received \cup {last'}
      /\ UNCHANGED <<queue, timer, sending, reads, pc, batch, stored, alarm, configured, booting,
                     arrived, dropped, saved, failures, kills>>
  BY DEF ServerHandles, memory, TypeInv, TypeOK, IsQueue
<1>2. Len(batch[f]) \in Nat /\ progress[f] + 1 \in 1 .. Len(batch[f])
  BY <1>1, LenProperties
<1>3. last' \in 1 .. arrived
  BY <1>1, <1>2, ElementOfSeq
<1>4. progress' \in [Flushers -> Nat] /\ \A g \in Flushers : progress'[g] =< Len(batch[g])
  BY <1>1, <1>2 DEF TypeInv, TypeOK
<1>5. received' \subseteq 1 .. arrived' /\ last' \in 0 .. arrived'
  <2>1. received \subseteq 1 .. arrived /\ received' = received \cup {last'} /\ arrived' = arrived
    BY <1>1 DEF TypeInv, TypeOK
  <2>2. received' \subseteq 1 .. arrived'
    BY <1>3, <2>1
  <2>3. last' \in 0 .. arrived'
    BY <1>3, <2>1
  <2> QED
    BY <2>2, <2>3
<1>6. /\ queue' = None \/ IsQueue(queue)'
      /\ IsQueue(stored)' /\ \A g \in Flushers : IsQueue(batch[g])'
      /\ \A r \in reads' : IsQueue(r.value)'
  BY <1>1 DEF TypeInv, TypeOK, IsQueue
<1> QED
  BY <1>1, <1>4, <1>5, <1>6 DEF TypeInv, TypeOK, Loaded

LEMMA AnswerTyped ==
  ASSUME TypeInv, NEW f \in Flushers, AnswerOk(f) \/ AnswerRejected(f) \/ AnswerFailed(f)
  PROVE  TypeInv'
<1>1. CASE AnswerOk(f)
  BY <1>1, SpliceTyped DEF AnswerOk, outside, TypeInv, TypeOK
<1>2. CASE AnswerRejected(f)
  <2>1. batch[f] \in Seq(1 .. arrived)
    BY DEF TypeInv, TypeOK, IsQueue
  <2>2. {batch[f][i] : i \in DOMAIN batch[f]} \subseteq 1 .. arrived
    BY <2>1, ElemsIn DEF Elems
  <2>3. failures' \in Nat /\ dropped' \subseteq 1 .. arrived
    <3>1. /\ failures' = failures + 1 /\ failures \in Nat
          /\ dropped' = dropped \cup {batch[f][i] : i \in DOMAIN batch[f]}
          /\ dropped \subseteq 1 .. arrived
      BY <1>2 DEF AnswerRejected, TypeInv, TypeOK
    <3>2. dropped' \subseteq 1 .. arrived
      BY <2>2, <3>1, Zenon
    <3> QED
      BY <3>1, <3>2
  <2> QED
    BY <1>2, <2>3, SpliceTyped DEF AnswerRejected
<1>3. CASE AnswerFailed(f)
  BY <1>3, FinishTyped DEF AnswerFailed, TypeInv, TypeOK
<1> QED
  BY <1>1, <1>2, <1>3

\* Clearing a queue in memory, or one just read.
LEMMA ClearNowTyped ==
  ASSUME TypeInv, NEW q, IsQueue(q), ClearNow(q), reads' \subseteq reads,
         UNCHANGED <<timer, sending, pc, batch, alarm, configured, booting, arrived, received,
                     progress, last, saved, failures, kills>>
  PROVE  TypeInv'
<1>1. queue' = <<>> /\ stored' = <<>> /\ dropped' = dropped \cup {q[i] : i \in DOMAIN q}
  BY DEF ClearNow
<1>2. <<>> \in Seq(1 .. arrived) /\ Len(<<>>) = 0
  BY EmptySeq
<1>3. {q[i] : i \in DOMAIN q} \subseteq 1 .. arrived
  BY ElemsIn DEF IsQueue, Elems
<1>4. queue' # None
  BY <1>1, EmptyIsNotNone
<1>5. IsQueue(queue)' /\ IsQueue(stored)'
  BY <1>1, <1>2, QueueAssumption DEF IsQueue
<1>6. dropped' \subseteq 1 .. arrived
  BY <1>1, <1>3 DEF TypeInv, TypeOK
<1>7. /\ IsQueue(stored)' /\ \A g \in Flushers : IsQueue(batch[g])'
      /\ \A r \in reads' : IsQueue(r.value)'
  BY <1>5 DEF TypeInv, TypeOK, IsQueue
<1> QED
  BY <1>4, <1>5, <1>6, <1>7 DEF TypeInv, TypeOK, Loaded

\* A read that is asked for changes nothing else.
LEMMA ReadTyped ==
  ASSUME TypeInv, NEW task \in ReadTasks \ {"enqueue", "flush"}, Read(task, None), booting' \in BOOLEAN,
         UNCHANGED <<queue, timer, sending, pc, batch, stored, alarm, configured, outside>>
  PROVE  TypeInv'
<1>1. reads' = reads \cup {[task |-> task, of |-> None, value |-> stored]}
  BY DEF Read
<1>2. UNCHANGED <<arrived, received, progress, last, dropped, saved, failures, kills>>
  BY DEF outside
<1>3. \A r \in reads' : /\ r.task \in ReadTasks /\ IsQueue(r.value)'
                        /\ r.task = "enqueue" => r.of \in 1 .. arrived'
                        /\ r.task = "flush" => r.of \in Flushers
  BY <1>1, <1>2 DEF TypeInv, TypeOK, IsQueue
<1> QED
  BY <1>2, <1>3 DEF TypeInv, TypeOK, IsQueue, Loaded

LEMMA ReadAnsweredTyped ==
  ASSUME TypeInv, NEW r \in reads, ReadAnswered(r)
  PROVE  TypeInv'
<1>1. /\ reads' = reads \ {r}
      /\ UNCHANGED <<sending, batch, alarm, configured, booting, arrived, received, progress, last,
                     failures, kills>>
  BY DEF ReadAnswered
<1>2. /\ r.task \in ReadTasks /\ IsQueue(r.value)
      /\ r.task = "enqueue" => r.of \in 1 .. arrived
      /\ r.task = "flush" => r.of \in Flushers
  BY DEF TypeInv, TypeOK
<1>3. r.value # None
  BY <1>2, QueueIsNotNone DEF IsQueue, TypeInv, TypeOK
<1>4. CASE r.task = "enqueue"
  <2>1. Push(r.value, r.of) /\ UNCHANGED pc
    BY <1>4 DEF ReadAnswered
  <2>2. /\ arrived' \in Nat /\ r.value \in Seq(1 .. arrived') /\ Len(r.value) =< MaxQueue
        /\ r.of \in 1 .. arrived' /\ dropped \subseteq 1 .. arrived' /\ saved \subseteq 1 .. arrived'
    BY <1>1, <1>2, <1>4 DEF IsQueue, TypeInv, TypeOK
  <2>3. /\ IsQueue(queue)' /\ stored' = queue' /\ queue' # None
        /\ dropped' \subseteq 1 .. arrived' /\ saved' \subseteq 1 .. arrived' /\ timer' = TRUE
    BY <2>1, <2>2, PushTyped
  <2> QED
    BY <1>1, <2>1, <2>3 DEF TypeInv, TypeOK, IsQueue, Loaded
<1>5. CASE r.task = "clear"
  <2>1. ClearNow(r.value) /\ UNCHANGED <<timer, pc, saved>>
    BY <1>5 DEF ReadAnswered
  <2> QED
    BY <1>1, <1>2, <2>1, ClearNowTyped
<1>6. CASE r.task \in {"flush", "startup", "status"}
  <2>1. /\ queue' = r.value /\ UNCHANGED <<stored, dropped, saved>>
        /\ timer' \in BOOLEAN /\ pc' \in [Flushers -> {"idle", "load", "config", "fetch", "loop"}]
    BY <1>2, <1>6 DEF ReadAnswered, TypeInv, TypeOK
  <2> QED
    BY <1>1, <1>2, <1>3, <2>1 DEF TypeInv, TypeOK, IsQueue, Loaded
<1> QED
  BY <1>2, <1>4, <1>5, <1>6 DEF ReadTasks

\* The worker's memory is gone.
LEMMA ForgetTyped ==
  ASSUME TypeInv, Forget, alarm' \in BOOLEAN, booting' \in BOOLEAN, kills' \in [Ends -> Nat]
  PROVE  TypeInv'
<1>1. /\ queue' = None /\ timer' = FALSE /\ sending' = FALSE /\ reads' = {}
      /\ pc' = [f \in Flushers |-> "idle"] /\ batch' = [f \in Flushers |-> <<>>]
      /\ progress' = [f \in Flushers |-> 0]
      /\ UNCHANGED <<stored, configured, arrived, received, last, dropped, saved, failures>>
  BY DEF Forget
<1>2. <<>> \in Seq(1 .. arrived) /\ Len(<<>>) = 0
  BY EmptySeq
<1>3. /\ batch' \in [Flushers -> Seq(1 .. arrived)] /\ progress' \in [Flushers -> Nat]
      /\ \A g \in Flushers : IsQueue(batch[g])' /\ progress'[g] =< Len(batch'[g]) /\ Len(batch'[g]) =< Batch
  BY <1>1, <1>2, QueueAssumption DEF IsQueue
<1> QED
  BY <1>1, <1>3 DEF TypeInv, TypeOK, IsQueue, Loaded

LEMMA TypeStep ==
  ASSUME TypeInv, [Next]_vars
  PROVE  TypeInv'
<1>1. CASE Event
  BY <1>1, EventTyped
<1>2. CASE Clear
  <2>1. UNCHANGED <<timer, sending, pc, batch, alarm, configured, booting, arrived, received,
                    progress, last, saved, failures, kills>>
    BY <1>2 DEF Clear
  <2>2. CASE queue = None
    BY <1>2, <2>1, <2>2, ReadTyped DEF Clear, outside, ReadTasks, TypeInv, TypeOK
  <2>3. CASE queue # None
    BY <1>2, <2>1, <2>3, ClearNowTyped DEF Clear, TypeInv, TypeOK
  <2> QED
    BY <2>2, <2>3
<1>3. CASE Status
  BY <1>3, ReadTyped DEF Status, ReadTasks, TypeInv, TypeOK
<1>4. CASE Startup
  <2>1. CASE queue = None
    BY <1>4, <2>1, ReadTyped DEF Startup, ReadTasks
  <2>2. CASE queue # None
    BY <1>4, <2>2 DEF Startup, outside, TypeInv, TypeOK, IsQueue, Loaded
  <2> QED
    BY <2>1, <2>2
<1>5. CASE Unload
  BY <1>5, ForgetTyped DEF Unload, TypeInv, TypeOK
<1>6. ASSUME NEW kind \in Ends, Kill(kind)
      PROVE  TypeInv'
  <2>1. Forget /\ alarm' \in BOOLEAN /\ booting' \in BOOLEAN
    BY <1>6 DEF Kill, TypeInv, TypeOK
  <2>2. kills' \in [Ends -> Nat]
    BY <1>6 DEF Kill, TypeInv, TypeOK
  <2> QED
    BY <2>1, <2>2, ForgetTyped
<1>7. ASSUME NEW r \in reads, ReadAnswered(r)
      PROVE  TypeInv'
  BY <1>7, ReadAnsweredTyped
<1>8. ASSUME NEW f \in Flushers, Timer(f) \/ Alarm(f) \/ Options(f)
      PROVE  TypeInv'
  <2>1. /\ Start(f) /\ timer' \in BOOLEAN /\ alarm' \in BOOLEAN /\ configured' \in BOOLEAN
        /\ UNCHANGED <<queue, sending, batch, stored, booting, outside>>
    BY <1>8 DEF Timer, Alarm, Options, TypeInv, TypeOK
  <2> QED
    BY <2>1, StartTyped
<1>9. ASSUME NEW f \in Flushers, Config(f) \/ Again(f)
      PROVE  TypeInv'
  BY <1>9, ConfigTyped
<1>10. ASSUME NEW f \in Flushers, ServerHandles(f)
       PROVE  TypeInv'
  BY <1>10, ServerTyped
<1>11. ASSUME NEW f \in Flushers, AnswerOk(f) \/ AnswerRejected(f) \/ AnswerFailed(f)
       PROVE  TypeInv'
  BY <1>11, AnswerTyped
<1>12. CASE UNCHANGED vars
  BY <1>12 DEF vars, memory, outside, TypeInv, TypeOK, IsQueue, Loaded
<1> QED
  BY <1>1, <1>2, <1>3, <1>4, <1>5, <1>6, <1>7, <1>8, <1>9, <1>10, <1>11, <1>12 DEF Next

LEMMA TypeInit ==
  ASSUME Init
  PROVE  TypeInv
<1>1. <<>> \in Seq(1 .. arrived) /\ Len(<<>>) = 0
  BY EmptySeq
<1>2. IsQueue(stored) /\ \A f \in Flushers : IsQueue(batch[f])
  BY <1>1, QueueAssumption DEF Init, IsQueue
<1>3. batch \in [Flushers -> Seq(1 .. arrived)] /\ progress \in [Flushers -> Nat]
  BY <1>1 DEF Init
<1>4. \A f \in Flushers : progress[f] =< Len(batch[f]) /\ Len(batch[f]) =< Batch
  BY <1>1, QueueAssumption DEF Init
<1> QED
  <2>1. /\ arrived \in 0 .. MaxEvents /\ last \in 0 .. arrived
        /\ received \subseteq 1 .. arrived /\ dropped \subseteq 1 .. arrived
        /\ saved \subseteq 1 .. arrived
        /\ failures \in Nat /\ kills \in [Ends -> Nat]
    BY QueueAssumption DEF Init
  <2>2. /\ queue = None /\ reads = {}
        /\ timer \in BOOLEAN /\ alarm \in BOOLEAN /\ sending \in BOOLEAN
        /\ configured \in BOOLEAN /\ booting \in BOOLEAN
        /\ pc \in [Flushers -> {"idle", "load", "config", "fetch", "loop"}]
        /\ \A f \in Flushers : pc[f] = "idle"
    BY DEF Init
  <2> QED
    BY <1>2, <1>3, <1>4, <2>1, <2>2 DEF TypeInv, TypeOK, Loaded

\* Every variable has its type whatever the environment does: the queue is never longer than
\* MAX_QUEUE and holds only events that arrived, the server gets no further than its batch.
THEOREM QueueTypeCorrect == Spec => []TypeOK
<1>1. Init => TypeInv
  BY TypeInit
<1>2. TypeInv /\ [Next]_vars => TypeInv'
  BY TypeStep
<1>3. TypeInv => TypeOK
  BY DEF TypeInv
<1> QED
  BY <1>1, <1>2, <1>3, PTL DEF Spec

-----------------------------------------------------------------------------
(* The worker while no two of its handlers get into each other's way *)

Orderly == Faults \subseteq {"browser", "crash"}

\* There is one flush at a time.
OneFlush == \A f, g \in Flushers : ~Idle(f) /\ ~Idle(g) => f = g

\* Memory and storage agree.
MemoryIsStored == queue # None => queue = stored

\* Only a worker without a queue reads it, one handler at a time; what it will get is what
\* is stored.  The event it may hold is the newest one.
ReadIsStored ==
  /\ \A r, s \in reads : r = s
  /\ \A r \in reads : /\ queue = None /\ r.value = stored
                      /\ r.task = "flush" => ~Idle(r.of)
                      /\ r.task = "enqueue" => /\ r.of = arrived
                                               /\ \A i \in 1 .. Len(stored) : stored[i] < arrived

\* The queue is in the order of arrival.
InOrder == \A i, j \in 1 .. Len(stored) : i < j => stored[i] < stored[j]

\* A batch in flight is the head of the queue, and the server has handled it so far.
BatchIsHead ==
  \A f \in Flushers : pc[f] = "fetch" =>
    /\ Len(batch[f]) \in 1 .. Len(stored)
    /\ \A i \in 1 .. Len(batch[f]) : batch[f][i] = stored[i]
    /\ progress[f] > 0 => last = stored[progress[f]]

OrderInv == OneFlush /\ MemoryIsStored /\ ReadIsStored /\ InOrder /\ BatchIsHead

\* The queue and what the server has were saved, an event that waits for storage was not;
\* and every event was saved or waits, unless the worker ended at the wrong moment.
Waits == {e \in 1 .. arrived : Waiting(e)}
Kept  == saved \cup Waits

SavedInv ==
  /\ received \subseteq saved /\ Elems(stored) \subseteq saved
  /\ Waits \cap saved = {}
  /\ (\A kind \in Ends : kills[kind] = 0) => 1 .. arrived \subseteq Kept

QueueInv == TypeInv /\ OrderInv /\ SavedInv

\* Who holds the queue in memory does not read it.
LEMMA NoReadsInMemory ==
  ASSUME QueueInv, queue # None
  PROVE  queue = stored /\ reads = {} /\ stored \in Seq(1 .. arrived) /\ Len(stored) \in Nat
         /\ Len(stored) =< MaxQueue
BY LenProperties DEF QueueInv, OrderInv, MemoryIsStored, ReadIsStored, TypeInv, TypeOK, IsQueue

LEMMA StoredFacts ==
  ASSUME QueueInv
  PROVE  /\ stored \in Seq(1 .. arrived) /\ Len(stored) \in Nat /\ Len(stored) =< MaxQueue
         /\ arrived \in Nat
         /\ \A i \in 1 .. Len(stored) : stored[i] \in 1 .. arrived
BY LenProperties, ElementOfSeq DEF QueueInv, TypeInv, TypeOK, IsQueue

\* A newer event goes to the end of the queue.
LEMMA PushKeepsOrder ==
  ASSUME QueueInv, NEW e \in Nat, \A i \in 1 .. Len(stored) : stored[i] < e, Push(stored, e)
  PROVE  /\ queue' = stored' /\ InOrder'
         /\ Count(stored, e) \in 0 .. 1 /\ Count(stored, e) =< Len(stored)
         /\ Len(stored') = Len(stored) + 1 - Count(stored, e)
         /\ \A i \in 1 .. Len(stored) - Count(stored, e) : stored'[i] = stored[Count(stored, e) + i]
         /\ stored'[Len(stored')] = e
         /\ dropped' = dropped \cup Heads(stored, Count(stored, e))
<1>1. queue' = Cut(stored, e) /\ stored' = queue'
  BY DEF Push, Cut, Count
<1>2. stored \in Seq(Nat) /\ Len(stored) \in Nat /\ Len(stored) =< MaxQueue
  BY StoredFacts, SeqMonotonic
<1>3. /\ Count(stored, e) \in 0 .. 1 /\ Count(stored, e) =< Len(stored)
      /\ stored' \in Seq(Nat) /\ Len(stored') = Len(stored) + 1 - Count(stored, e)
      /\ \A i \in 1 .. Len(stored) - Count(stored, e) : stored'[i] = stored[Count(stored, e) + i]
      /\ stored'[Len(stored')] = e
      /\ Gone(stored, e) = Heads(stored, Count(stored, e))
  <2>1. /\ Count(stored, e) \in 0 .. 1 /\ Count(stored, e) =< Len(stored)
        /\ Cut(stored, e) \in Seq(Nat) /\ Len(Cut(stored, e)) = Len(stored) + 1 - Count(stored, e)
        /\ \A i \in 1 .. Len(stored) - Count(stored, e) : Cut(stored, e)[i] = stored[Count(stored, e) + i]
        /\ Cut(stored, e)[Len(Cut(stored, e))] = e
    BY <1>2, PushFacts
  <2>2. Gone(stored, e) = Heads(stored, Count(stored, e))
    BY <1>2, PushFacts
  <2> QED
    BY <1>1, <2>1, <2>2
<1>4. InOrder'
  <2> DEFINE n == Count(stored, e)
  <2> SUFFICES ASSUME NEW i \in 1 .. Len(stored'), NEW j \in 1 .. Len(stored'), i < j
               PROVE  stored'[i] < stored'[j]
    BY DEF InOrder
  <2>1. \A k \in 1 .. Len(stored) - n : stored'[k] = stored[n + k]
    BY <1>2, <1>3
  <2>2. n \in 0 .. 1 /\ n =< Len(stored) /\ Len(stored) \in Nat /\ Len(stored') = Len(stored) + 1 - n
    BY <1>2, <1>3
  <2> HIDE DEF n
  <2>3. i \in 1 .. Len(stored) - n /\ n + i \in 1 .. Len(stored)
    BY <2>2
  <2>4. stored'[i] = stored[n + i]
    BY <2>1, <2>3
  <2>5. CASE j > Len(stored) - n
    <3>1. j = Len(stored')
      BY <2>2, <2>5
    <3> QED
      BY <1>3, <2>3, <2>4, <3>1
  <2>6. CASE j =< Len(stored) - n
    <3>1. j \in 1 .. Len(stored) - n /\ n + j \in 1 .. Len(stored) /\ n + i < n + j
      BY <2>2, <2>6
    <3>2. stored'[j] = stored[n + j]
      BY <2>1, <3>1
    <3> QED
      BY <2>3, <2>4, <3>1, <3>2 DEF QueueInv, OrderInv, InOrder
  <2> QED
    BY <2>2, <2>5, <2>6
<1>5. dropped' = dropped \cup Heads(stored, Count(stored, e))
  <2>1. dropped' = dropped \cup Gone(stored, e)
    BY DEF Push, Count, Gone
  <2> QED
    BY <1>3, <2>1
<1> QED
  BY <1>1, <1>3, <1>4, <1>5

\* What touches neither queue, storage, reads nor batches may end a flush.
LEMMA IdleKeepsOrder ==
  ASSUME QueueInv, NEW f \in Flushers, pc[f] \in {"config", "loop", "fetch"},
         pc' = [pc EXCEPT ![f] = "idle"],
         \A g \in Flushers \ {f} : batch'[g] = batch[g] /\ progress'[g] = progress[g],
         UNCHANGED <<queue, reads, stored, arrived, last>>
  PROVE  OrderInv'
<1>1. queue # None /\ reads = {}
  BY NoReadsInMemory DEF QueueInv, TypeInv, Loaded
<1>2. pc'[f] = "idle" /\ \A g \in Flushers \ {f} : pc'[g] = pc[g]
  BY DEF QueueInv, TypeInv, TypeOK
<1>3. OneFlush'
  BY <1>2 DEF QueueInv, OrderInv, OneFlush, Idle
<1>4. MemoryIsStored' /\ ReadIsStored' /\ InOrder'
  BY <1>1 DEF QueueInv, OrderInv, MemoryIsStored, ReadIsStored, InOrder
<1>5. BatchIsHead'
  BY <1>2 DEF QueueInv, OrderInv, BatchIsHead
<1> QED
  BY <1>3, <1>4, <1>5 DEF OrderInv

\* An event that arrives is newer than the queue.
LEMMA EventKeepsOrder ==
  ASSUME QueueInv, Orderly, Event
  PROVE  OrderInv'
<1>1. arrived' = arrived + 1 /\ UNCHANGED <<pc, batch, progress, last>>
  BY DEF Event
<1>2. OneFlush'
  BY <1>1 DEF QueueInv, OrderInv, OneFlush, Idle
<1>3. CASE queue = None
  <2>1. UNCHANGED <<queue, stored>> /\ reads' = {[task |-> "enqueue", of |-> arrived + 1, value |-> stored]}
    BY <1>3 DEF Event, Read, Orderly
  <2>2. \A i \in 1 .. Len(stored) : stored[i] < arrived + 1
    BY StoredFacts
  <2>3. MemoryIsStored' /\ ReadIsStored' /\ InOrder' /\ BatchIsHead'
    BY <1>1, <1>3, <2>1, <2>2 DEF QueueInv, OrderInv, MemoryIsStored, ReadIsStored, InOrder, BatchIsHead
  <2> QED
    BY <1>2, <2>3 DEF OrderInv
<1>4. CASE queue # None
  <2>1. queue = stored /\ reads = {} /\ Push(stored, arrived + 1) /\ reads' = {}
    BY <1>4, NoReadsInMemory DEF Event
  <2>2. arrived + 1 \in Nat /\ \A i \in 1 .. Len(stored) : stored[i] < arrived + 1
    BY StoredFacts
  <2>3. /\ queue' = stored' /\ InOrder'
        /\ Len(stored') = Len(stored) + 1 - Count(stored, arrived + 1)
        /\ \A i \in 1 .. Len(stored) - Count(stored, arrived + 1) :
             stored'[i] = stored[Count(stored, arrived + 1) + i]
    BY <2>1, <2>2, PushKeepsOrder
  <2>4. BatchIsHead'
    <3> SUFFICES ASSUME NEW f \in Flushers, pc[f] = "fetch"
                 PROVE  /\ Len(batch[f]) \in 1 .. Len(stored')
                        /\ \A i \in 1 .. Len(batch[f]) : batch[f][i] = stored'[i]
                        /\ progress[f] > 0 => last = stored'[progress[f]]
      BY <1>1 DEF BatchIsHead
    <3>1. Count(stored, arrived + 1) = 0
      BY <2>1 DEF Push, Count, InFlight, Orderly
    <3>2. stored \in Seq(Nat) /\ Len(stored) \in Nat /\ Len(stored) =< MaxQueue
      BY StoredFacts, SeqMonotonic
    <3>3. Len(stored') = Len(stored) + 1 - 0 /\ \A i \in 1 .. Len(stored) - 0 : stored'[i] = stored[0 + i]
      BY <2>3, <3>1
    <3>4. Len(stored') = Len(stored) + 1 /\ \A i \in 1 .. Len(stored) : stored'[i] = stored[i]
      BY <3>2, <3>3
    <3>5. /\ Len(batch[f]) \in 1 .. Len(stored)
          /\ \A i \in 1 .. Len(batch[f]) : batch[f][i] = stored[i]
          /\ progress[f] > 0 => last = stored[progress[f]]
          /\ progress[f] \in Nat /\ progress[f] =< Len(batch[f])
      BY DEF QueueInv, OrderInv, BatchIsHead, TypeInv, TypeOK
    <3> QED
      BY <3>2, <3>4, <3>5
  <2> QED
    BY <1>2, <2>1, <2>3, <2>4 DEF OrderInv, MemoryIsStored, ReadIsStored
<1> QED
  BY <1>3, <1>4

LEMMA StartKeepsOrder ==
  ASSUME QueueInv, Orderly, NEW f \in Flushers, Start(f),
         UNCHANGED <<queue, batch, stored, arrived, progress, last>>
  PROVE  OrderInv'
<1>1. InOrder' /\ MemoryIsStored'
  BY DEF QueueInv, OrderInv, InOrder, MemoryIsStored
<1>2. CASE UNCHANGED <<reads, pc>>
  BY <1>1, <1>2 DEF QueueInv, OrderInv, OneFlush, Idle, ReadIsStored, BatchIsHead
<1>3. CASE ~UNCHANGED <<reads, pc>>
  <2>1. \A g \in Flushers : Idle(g)
    BY <1>3 DEF Start, Orderly
  <2>2. /\ pc'[f] \in {"load", "config"} /\ \A g \in Flushers \ {f} : pc'[g] = pc[g]
        /\ \/ UNCHANGED reads
           \/ queue = None /\ pc'[f] = "load" /\ reads' = {[task |-> "flush", of |-> f, value |-> stored]}
    BY <1>3 DEF Start, Read, Orderly, QueueInv, TypeInv, TypeOK
  <2>3. OneFlush'
    BY <2>1, <2>2 DEF OneFlush, Idle
  <2>4. BatchIsHead'
    BY <2>1, <2>2 DEF BatchIsHead, Idle
  <2>5. ReadIsStored'
    <3>1. CASE UNCHANGED reads
      <4>1. \A r \in reads : r.task # "flush"
        BY <2>1 DEF QueueInv, OrderInv, ReadIsStored, TypeInv, TypeOK
      <4> QED
        BY <3>1, <4>1 DEF QueueInv, OrderInv, ReadIsStored
    <3>2. CASE queue = None /\ pc'[f] = "load" /\ reads' = {[task |-> "flush", of |-> f, value |-> stored]}
      BY <3>2 DEF ReadIsStored, Idle
    <3> QED
      BY <2>2, <3>1, <3>2
  <2> QED
    BY <1>1, <2>3, <2>4, <2>5 DEF OrderInv
<1> QED
  BY <1>2, <1>3

\* A batch is taken from the head.
LEMMA PostKeepsOrder ==
  ASSUME QueueInv, NEW f \in Flushers, ~Idle(f), queue # None, queue # <<>>, Post(f), sending' \in BOOLEAN,
         UNCHANGED <<queue, timer, reads, stored, configured, booting, arrived, received, last,
                     dropped, saved, failures, kills>>
  PROVE  OrderInv'
<1>1. queue = stored /\ reads = {} /\ Len(stored) \in Nat /\ stored \in Seq(1 .. arrived)
  BY NoReadsInMemory
<1>2. MemoryIsStored' /\ ReadIsStored' /\ InOrder'
  BY <1>1 DEF QueueInv, OrderInv, MemoryIsStored, ReadIsStored, InOrder
<1>3. pc'[f] = "fetch" /\ progress'[f] = 0 /\ \A g \in Flushers \ {f} : pc'[g] = pc[g]
  BY DEF Post, QueueInv, TypeInv, TypeOK
<1>4. OneFlush'
  BY <1>3 DEF QueueInv, OrderInv, OneFlush, Idle
<1>5. \A g \in Flushers \ {f} : pc'[g] # "fetch"
  BY <1>3 DEF QueueInv, OrderInv, OneFlush, Idle
<1>6. /\ Len(batch'[f]) =< Len(stored)
      /\ \A i \in 1 .. Len(batch'[f]) : batch'[f][i] = stored[i]
  BY <1>1, PostTyped DEF QueueInv
<1>7. Len(batch'[f]) \in Nat /\ Len(batch'[f]) # 0
  <2> DEFINE n == IF Len(queue) < Batch THEN Len(queue) ELSE Batch
  <2>1. Len(stored) # 0
    BY <1>1, EmptySeq
  <2>2. batch'[f] = SubSeq(queue, 1, n)
    BY DEF Post, QueueInv, TypeInv, TypeOK
  <2>3. n \in 0 .. Len(stored) /\ n # 0
    BY <1>1, <2>1, QueueAssumption
  <2> HIDE DEF n
  <2> QED
    BY <1>1, <2>2, <2>3, HeadFacts
<1>8. Len(batch'[f]) \in 1 .. Len(stored)
  BY <1>1, <1>6, <1>7
<1>9. BatchIsHead'
  BY <1>3, <1>5, <1>6, <1>8 DEF BatchIsHead
<1> QED
  BY <1>2, <1>4, <1>9 DEF OrderInv

LEMMA ServerKeepsOrder ==
  ASSUME QueueInv, NEW f \in Flushers, ServerHandles(f)
  PROVE  OrderInv'
<1>1. /\ pc[f] = "fetch" /\ progress[f] \in Nat /\ progress[f] < Len(batch[f]) /\ last' = batch[f][progress[f] + 1]
      /\ progress'[f] = progress[f] + 1
      /\ UNCHANGED <<queue, timer, sending, reads, pc, batch, stored, arrived>>
  BY DEF ServerHandles, memory, QueueInv, TypeInv, TypeOK
<1>2. OneFlush' /\ MemoryIsStored' /\ ReadIsStored' /\ InOrder'
  BY <1>1 DEF QueueInv, OrderInv, OneFlush, Idle, MemoryIsStored, ReadIsStored, InOrder
<1>3. \A g \in Flushers \ {f} : pc[g] # "fetch"
  BY <1>1 DEF QueueInv, OrderInv, OneFlush, Idle
<1>4. /\ Len(batch[f]) \in 1 .. Len(stored) /\ Len(stored) \in Nat
      /\ \A i \in 1 .. Len(batch[f]) : batch[f][i] = stored[i]
  BY <1>1, StoredFacts DEF QueueInv, OrderInv, BatchIsHead
<1>5. progress[f] + 1 \in 1 .. Len(batch[f])
  BY <1>1, <1>4
<1>6. last' = stored[progress'[f]]
  BY <1>1, <1>4, <1>5
<1>7. BatchIsHead'
  BY <1>1, <1>3, <1>4, <1>6 DEF BatchIsHead
<1> QED
  BY <1>2, <1>7 DEF OrderInv

\* Cutting off the batch leaves the rest in order.
LEMMA SpliceKeepsOrder ==
  ASSUME QueueInv, NEW f \in Flushers, pc[f] = "fetch", Splice(f),
         UNCHANGED <<reads, batch, arrived, progress, last>>
  PROVE  /\ OrderInv'
         /\ Len(stored') = Len(stored) - Len(batch[f])
         /\ \A i \in 1 .. Len(stored') : stored'[i] = stored[Len(batch[f]) + i]
<1>1. queue # None /\ queue = stored /\ reads = {} /\ Len(stored) \in Nat /\ stored \in Seq(1 .. arrived)
  BY NoReadsInMemory DEF QueueInv, TypeInv, Loaded
<1>2. Len(batch[f]) \in 1 .. Len(stored)
  BY DEF QueueInv, OrderInv, BatchIsHead
<1>3. queue' = stored' /\ stored' = SubSeq(stored, Len(batch[f]) + 1, Len(stored)) /\ pc' = [pc EXCEPT ![f] = "loop"]
  BY <1>1 DEF Splice
<1>4. Len(batch[f]) \in Nat /\ Len(batch[f]) =< Len(stored)
  BY <1>1, <1>2
<1>5. /\ Len(stored') = Len(stored) - Len(batch[f])
      /\ \A i \in 1 .. Len(stored') : stored'[i] = stored[Len(batch[f]) + i]
  <2>1. /\ Len(SubSeq(stored, Len(batch[f]) + 1, Len(stored)))
             = IF Len(batch[f]) =< Len(stored) THEN Len(stored) - Len(batch[f]) ELSE 0
        /\ \A i \in 1 .. Len(SubSeq(stored, Len(batch[f]) + 1, Len(stored))) :
             SubSeq(stored, Len(batch[f]) + 1, Len(stored))[i] = stored[Len(batch[f]) + i]
    BY <1>1, <1>4, TailFacts
  <2> QED
    BY <1>3, <1>4, <2>1
<1>6. InOrder'
  <2> SUFFICES ASSUME NEW i \in 1 .. Len(stored'), NEW j \in 1 .. Len(stored'), i < j
               PROVE  stored'[i] < stored'[j]
    BY DEF InOrder
  <2>1. Len(batch[f]) + i \in 1 .. Len(stored) /\ Len(batch[f]) + j \in 1 .. Len(stored)
        /\ Len(batch[f]) + i < Len(batch[f]) + j
    BY <1>1, <1>4, <1>5
  <2> QED
    BY <1>5, <2>1 DEF QueueInv, OrderInv, InOrder
<1>7. pc'[f] = "loop" /\ \A g \in Flushers \ {f} : pc'[g] = pc[g]
  BY <1>3 DEF QueueInv, TypeInv, TypeOK
<1>8. OneFlush' /\ BatchIsHead'
  BY <1>7 DEF QueueInv, OrderInv, OneFlush, Idle, BatchIsHead
<1>9. MemoryIsStored' /\ ReadIsStored'
  BY <1>1, <1>3 DEF MemoryIsStored, ReadIsStored
<1> QED
  BY <1>5, <1>6, <1>8, <1>9 DEF OrderInv

\* A message that reads the queue finds nobody else at it.
LEMMA ReadKeepsOrder ==
  ASSUME QueueInv, Orderly, queue = None, NEW task \in ReadTasks \ {"enqueue", "flush"}, Read(task, None),
         UNCHANGED <<queue, pc, batch, stored, arrived, progress, last>>
  PROVE  OrderInv'
<1>1. reads' = {[task |-> task, of |-> None, value |-> stored]}
  BY DEF Read, Orderly
<1>2. ReadIsStored'
  BY <1>1 DEF ReadIsStored
<1> QED
  BY <1>2 DEF QueueInv, OrderInv, OneFlush, Idle, MemoryIsStored, InOrder, BatchIsHead

\* Nothing is in flight when the queue is cleared.
LEMMA ClearNowKeepsOrder ==
  ASSUME QueueInv, Orderly, NEW q, ClearNow(q), reads' = {},
         UNCHANGED <<pc, batch, arrived, progress, last>>
  PROVE  OrderInv' /\ stored' = <<>>
<1>1. queue' = <<>> /\ stored' = <<>> /\ ~InFlight
  BY DEF ClearNow, Orderly
<1>2. InOrder'
  BY <1>1, EmptySeq DEF InOrder
<1> QED
  BY <1>1, <1>2 DEF QueueInv, OrderInv, OneFlush, Idle, MemoryIsStored, ReadIsStored, InFlight, BatchIsHead

LEMMA ReadAnsweredKeepsOrder ==
  ASSUME QueueInv, Orderly, NEW r \in reads, ReadAnswered(r)
  PROVE  OrderInv'
<1>1. reads' = {} /\ UNCHANGED <<batch, arrived, progress, last>>
  BY DEF ReadAnswered, QueueInv, OrderInv, ReadIsStored
<1>2. /\ queue = None /\ r.value = stored /\ r.task \in ReadTasks
      /\ r.task = "flush" => r.of \in Flushers /\ ~Idle(r.of)
      /\ r.task = "enqueue" => r.of = arrived /\ \A i \in 1 .. Len(stored) : stored[i] < arrived
  BY DEF QueueInv, OrderInv, ReadIsStored, TypeInv, TypeOK
<1>3. \A f \in Flushers : pc[f] \notin {"config", "fetch", "loop"}
  BY <1>2 DEF QueueInv, TypeInv, Loaded
<1>4. CASE r.task = "enqueue"
  <2>1. Push(stored, arrived) /\ UNCHANGED pc
    BY <1>2, <1>4 DEF ReadAnswered
  <2>2. arrived \in Nat
    BY StoredFacts
  <2>3. queue' = stored' /\ InOrder'
    BY <1>2, <1>4, <2>1, <2>2, PushKeepsOrder
  <2> QED
    BY <1>1, <1>3, <2>1, <2>3 DEF QueueInv, OrderInv, OneFlush, Idle, MemoryIsStored, ReadIsStored, BatchIsHead
<1>5. CASE r.task = "clear"
  BY <1>1, <1>5, ClearNowKeepsOrder DEF ReadAnswered
<1>6. CASE r.task \in {"flush", "startup", "status"}
  <2>1. queue' = stored /\ UNCHANGED stored
    BY <1>2, <1>6 DEF ReadAnswered
  <2>2. /\ \A f \in Flushers : pc'[f] # "fetch"
        /\ \A f \in Flushers : ~Idle(f)' => ~Idle(f)
    BY <1>2, <1>3, <1>6 DEF ReadAnswered, Idle, QueueInv, TypeInv, TypeOK
  <2>3. OneFlush' /\ BatchIsHead'
    BY <2>2 DEF QueueInv, OrderInv, OneFlush, BatchIsHead
  <2> QED
    BY <1>1, <2>1, <2>3 DEF QueueInv, OrderInv, MemoryIsStored, ReadIsStored, InOrder
<1> QED
  BY <1>2, <1>4, <1>5, <1>6 DEF ReadTasks

LEMMA OrderStep ==
  ASSUME QueueInv, Orderly, [Next]_vars
  PROVE  OrderInv'
<1>1. CASE Event
  BY <1>1, EventKeepsOrder
<1>2. CASE Clear
  <2>1. UNCHANGED <<pc, batch, arrived, progress, last>>
    BY <1>2 DEF Clear
  <2>2. CASE queue = None
    BY <1>2, <2>1, <2>2, ReadKeepsOrder DEF Clear, ReadTasks
  <2>3. CASE queue # None
    BY <1>2, <2>1, <2>3, NoReadsInMemory, ClearNowKeepsOrder DEF Clear
  <2> QED
    BY <2>2, <2>3
<1>3. CASE Status
  BY <1>3, ReadKeepsOrder DEF Status, ReadTasks, outside
<1>4. CASE Startup
  <2>1. UNCHANGED <<queue, pc, batch, stored, arrived, progress, last>>
    BY <1>4 DEF Startup, outside
  <2>2. CASE queue = None
    BY <1>4, <2>1, <2>2, ReadKeepsOrder DEF Startup, ReadTasks
  <2>3. CASE UNCHANGED reads
    BY <2>1, <2>3 DEF QueueInv, OrderInv, OneFlush, Idle, MemoryIsStored, ReadIsStored, InOrder, BatchIsHead
  <2> QED
    BY <1>4, <2>2, <2>3 DEF Startup
<1>5. CASE Unload \/ \E kind \in Ends : Kill(kind)
  <2>1. /\ queue' = None /\ reads' = {} /\ pc' = [f \in Flushers |-> "idle"] /\ UNCHANGED stored
    BY <1>5 DEF Unload, Kill, Forget
  <2> QED
    BY <2>1 DEF QueueInv, OrderInv, OneFlush, Idle, MemoryIsStored, ReadIsStored, InOrder, BatchIsHead
<1>6. ASSUME NEW r \in reads, ReadAnswered(r)
      PROVE  OrderInv'
  BY <1>6, ReadAnsweredKeepsOrder
<1>7. ASSUME NEW f \in Flushers, Timer(f) \/ Alarm(f) \/ Options(f)
      PROVE  OrderInv'
  BY <1>7, StartKeepsOrder DEF Timer, Alarm, Options, outside
<1>8. ASSUME NEW f \in Flushers, Config(f) \/ Again(f)
      PROVE  OrderInv'
  <2>1. /\ queue # None /\ pc[f] \in {"config", "loop", "fetch"}
        /\ UNCHANGED <<queue, timer, reads, stored, configured, booting, arrived, received, last,
                       dropped, saved, failures, kills>>
    BY <1>8 DEF Config, Again, QueueInv, TypeInv, Loaded
  <2>2. CASE queue # <<>> /\ Post(f) /\ sending' \in BOOLEAN
    BY <2>1, <2>2, PostKeepsOrder DEF Idle
  <2>3. CASE /\ pc' = [pc EXCEPT ![f] = "idle"]
             /\ \A g \in Flushers \ {f} : batch'[g] = batch[g] /\ progress'[g] = progress[g]
    BY <2>1, <2>3, IdleKeepsOrder
  <2>4. CASE Finish(f)
    BY <2>3, <2>4 DEF Finish, QueueInv, TypeInv, TypeOK
  <2>5. CASE pc' = [pc EXCEPT ![f] = "idle"] /\ UNCHANGED <<batch, progress>>
    BY <2>3, <2>5
  <2> QED
    BY <1>8, <2>2, <2>4, <2>5 DEF Config, Again, QueueInv, TypeInv, TypeOK
<1>9. ASSUME NEW f \in Flushers, ServerHandles(f)
      PROVE  OrderInv'
  BY <1>9, ServerKeepsOrder
<1>10. ASSUME NEW f \in Flushers, AnswerOk(f) \/ AnswerRejected(f)
       PROVE  OrderInv'
  BY <1>10, SpliceKeepsOrder DEF AnswerOk, AnswerRejected, outside
<1>11. ASSUME NEW f \in Flushers, AnswerFailed(f)
       PROVE  OrderInv'
  BY <1>11, IdleKeepsOrder DEF AnswerFailed, Finish, QueueInv, TypeInv, TypeOK
<1>12. CASE UNCHANGED vars
  BY <1>12 DEF vars, memory, outside, QueueInv, OrderInv, OneFlush, Idle, MemoryIsStored, ReadIsStored,
     InOrder, BatchIsHead
<1> QED
  BY <1>1, <1>2, <1>3, <1>4, <1>5, <1>6, <1>7, <1>8, <1>9, <1>10, <1>11, <1>12 DEF Next

LEMMA OrderInit ==
  ASSUME Init
  PROVE  OrderInv
BY EmptySeq DEF Init, OrderInv, OneFlush, Idle, MemoryIsStored, ReadIsStored, InOrder, BatchIsHead

-----------------------------------------------------------------------------
(* What the server sees is an EventStream *)

LEMMA OpenFacts ==
  ASSUME QueueInv
  PROVE  /\ Open = Elems(stored) \cup Waits
         /\ Open \subseteq 1 .. arrived
         /\ reads = {} => Waits = {}
<1>1. Open = Elems(stored) \cup Waits
  BY DEF Open, Stored, Elems, Waits
<1>2. Elems(stored) \subseteq 1 .. arrived
  BY StoredFacts, ElemsIn
<1>3. Waits \subseteq 1 .. arrived
  BY DEF Waits
<1>4. reads = {} => Waits = {}
  BY DEF Waits, Waiting
<1> QED
  BY <1>1, <1>2, <1>3, <1>4

\* What is left of an ordered queue without its first k events.
LEMMA CutElems ==
  ASSUME NEW q \in Seq(Nat), NEW t \in Seq(Nat), NEW k \in 0 .. Len(q),
         \A i, j \in 1 .. Len(q) : i < j => q[i] < q[j],
         Len(t) = Len(q) - k, \A i \in 1 .. Len(t) : t[i] = q[k + i]
  PROVE  Elems(t) = Elems(q) \ Heads(q, k) /\ Heads(q, k) \subseteq Elems(q)
<1>1. /\ Len(q) \in Nat /\ Len(t) \in Nat
      /\ Elems(q) = {q[i] : i \in 1 .. Len(q)} /\ Elems(t) = {t[i] : i \in 1 .. Len(t)}
  BY LenProperties, ElemsIn
<1>2. \A i \in 1 .. Len(q) : q[i] \in Nat
  BY ElementOfSeq
<1>3. Heads(q, k) \subseteq Elems(q)
  BY <1>1 DEF Heads
<1>4. ASSUME NEW e \in Elems(t)
      PROVE  e \in Elems(q) /\ e \notin Heads(q, k)
  <2>1. PICK i \in 1 .. Len(t) : e = t[i]
    BY <1>1, <1>4
  <2>2. k + i \in 1 .. Len(q) /\ e = q[k + i]
    BY <1>1, <2>1
  <2>3. \A j \in 1 .. k : j \in 1 .. Len(q) /\ j < k + i
    <3>1. i \in Nat /\ i >= 1 /\ k \in Nat /\ k =< Len(q)
      BY <1>1, <2>1
    <3> QED
      BY <1>1, <3>1
  <2>4. \A j \in 1 .. k : q[j] < q[k + i] /\ q[j] \in Nat
    BY <1>2, <2>2, <2>3
  <2>5. \A j \in 1 .. k : q[j] # q[k + i]
    BY <1>2, <2>2, <2>4
  <2> QED
    BY <1>1, <2>2, <2>5 DEF Heads
<1>5. ASSUME NEW e \in Elems(q), e \notin Heads(q, k)
      PROVE  e \in Elems(t)
  <2>1. PICK i \in 1 .. Len(q) : e = q[i]
    BY <1>1
  <2>2. i \notin 1 .. k
    BY <1>5, <2>1 DEF Heads
  <2>3. i - k \in 1 .. Len(t) /\ k + (i - k) = i
    BY <1>1, <2>2
  <2>4. t[i - k] = q[k + (i - k)]
    BY <2>3
  <2> QED
    BY <1>1, <2>1, <2>3, <2>4
<1> QED
  BY <1>3, <1>4, <1>5

\* The events up to the k-th of an ordered queue are its first k.
LEMMA HeadsUpTo ==
  ASSUME NEW q \in Seq(Nat), NEW k \in 1 .. Len(q),
         \A i, j \in 1 .. Len(q) : i < j => q[i] < q[j]
  PROVE  Heads(q, k) = {e \in Elems(q) : e =< q[k]}
<1>1. /\ Len(q) \in Nat /\ \A i \in 1 .. Len(q) : q[i] \in Nat
      /\ Elems(q) = {q[i] : i \in 1 .. Len(q)}
  BY LenProperties, ElementOfSeq, ElemsIn
<1>2. \A i \in 1 .. k : i \in 1 .. Len(q) /\ (i = k \/ i < k)
  BY <1>1
<1>3. \A i \in 1 .. k : q[i] =< q[k]
  BY <1>1, <1>2
<1>4. \A i \in 1 .. Len(q) : i \in 1 .. k \/ k < i
  BY <1>1
<1>5. \A i \in 1 .. Len(q) : q[i] =< q[k] => i \in 1 .. k
  BY <1>1, <1>4
<1> QED
  BY <1>1, <1>2, <1>3, <1>5 DEF Heads

\* The four ways in which the stream moves, by what happens to the events kept.
LEMMA StreamOpen ==
  ASSUME Open \subseteq 1 .. arrived
  PROVE  Stream!Open = Open
BY DEF Stream!Open

LEMMA StreamStays ==
  ASSUME Open' = Open, Lost' = Lost, UNCHANGED <<arrived, received, last, dropped>>
  PROVE  UNCHANGED Stream!vars
BY DEF Stream!vars

LEMMA StreamAccepts ==
  ASSUME QueueInv, NEW gone \in SUBSET Open,
         arrived' = arrived + 1, Open' = (Open \ gone) \cup {arrived + 1},
         dropped' = dropped \cup gone, Lost' = Lost, UNCHANGED <<received, last>>
  PROVE  Stream!Next
<1>1. Open \subseteq 1 .. arrived /\ Stream!Open = Open /\ arrived \in Nat
  BY OpenFacts, StreamOpen, StoredFacts
<1>2. (1 .. arrived') \ Open' = ((1 .. arrived) \ Open) \cup gone
  <2>1. 1 .. arrived' = (1 .. arrived) \cup {arrived + 1} /\ arrived + 1 \notin 1 .. arrived
    BY <1>1
  <2> QED
    BY <1>1, <2>1
<1>3. Stream!Accept
  BY <1>1, <1>2 DEF Stream!Accept
<1> QED
  BY <1>3 DEF Stream!Next

LEMMA StreamGivesUp ==
  ASSUME QueueInv, NEW gone \in SUBSET Open,
         Open' = Open \ gone, dropped' = dropped \cup gone, Lost' = Lost,
         UNCHANGED <<arrived, received, last>>
  PROVE  Stream!Next
<1>1. Open \subseteq 1 .. arrived /\ Stream!Open = Open
  BY OpenFacts, StreamOpen
<1>2. (1 .. arrived') \ Open' = ((1 .. arrived) \ Open) \cup gone
  BY <1>1
<1>3. Stream!GiveUp
  BY <1>1, <1>2 DEF Stream!GiveUp
<1> QED
  BY <1>3 DEF Stream!Next

LEMMA StreamAcknowledges ==
  ASSUME QueueInv, Open' = Open \ {e \in Open : e =< last}, Lost' = Lost,
         UNCHANGED <<arrived, received, dropped, last>>
  PROVE  Stream!Next
<1>1. Open \subseteq 1 .. arrived /\ Stream!Open = Open
  BY OpenFacts, StreamOpen
<1>2. (1 .. arrived') \ Open' = ((1 .. arrived) \ Open) \cup {e \in Open : e =< last}
  BY <1>1
<1>3. Stream!Acknowledge
  BY <1>1, <1>2 DEF Stream!Acknowledge
<1> QED
  BY <1>3 DEF Stream!Next

LEMMA StreamHandles ==
  ASSUME QueueInv, NEW e \in Open,
         \/ \A d \in Open : e =< d
         \/ e > last /\ \A d \in Open : d < e => d =< last,
         received' = received \cup {e}, last' = e, Open' = Open, Lost' = Lost, UNCHANGED <<arrived, dropped>>
  PROVE  Stream!Next
<1>1. Stream!Open = Open
  BY OpenFacts, StreamOpen
<1>2. Stream!Handle(e)
  BY <1>1 DEF Stream!Handle
<1> QED
  BY <1>1, <1>2 DEF Stream!Next

\* Pushing a newer event: the queue gives up its first events and keeps the new one.
LEMMA PushElems ==
  ASSUME QueueInv, NEW e \in Nat, \A i \in 1 .. Len(stored) : stored[i] < e, Push(stored, e)
  PROVE  LET gone == Heads(stored, Count(stored, e))
         IN  /\ gone \subseteq Elems(stored) /\ e \notin gone
             /\ Elems(stored') = (Elems(stored) \ gone) \cup {e}
             /\ dropped' = dropped \cup gone
<1> DEFINE n == Count(stored, e)
           gone == Heads(stored, n)
           rest == SubSeq(stored, n + 1, Len(stored))
<1>1. stored \in Seq(Nat) /\ Len(stored) \in Nat /\ Elems(stored) = {stored[i] : i \in 1 .. Len(stored)}
  BY StoredFacts, SeqMonotonic, ElemsIn
<1>2. /\ n \in 0 .. 1 /\ n =< Len(stored)
      /\ Len(stored') = Len(stored) + 1 - n
      /\ \A i \in 1 .. Len(stored) - n : stored'[i] = stored[n + i]
      /\ stored'[Len(stored')] = e
      /\ dropped' = dropped \cup gone
  BY PushKeepsOrder
<1>3. stored' \in Seq(Nat)
  <2>1. stored' = Cut(stored, e)
    BY DEF Push, Cut, Count
  <2>2. Len(stored) =< MaxQueue
    BY StoredFacts
  <2> QED
    BY <1>1, <2>1, <2>2, PushFacts
<1>4. Elems(stored') = {stored'[i] : i \in 1 .. Len(stored')}
  BY <1>3, ElemsIn
<1> HIDE DEF n
<1>5. n \in Nat /\ n \in 0 .. Len(stored) /\ n =< Len(stored)
  BY <1>1, <1>2
<1>6. /\ rest \in Seq(Nat) /\ Len(rest) = Len(stored) - n
      /\ \A i \in 1 .. Len(rest) : rest[i] = stored[n + i]
  <2>1. /\ rest \in Seq(Nat)
        /\ Len(rest) = IF n =< Len(stored) THEN Len(stored) - n ELSE 0
        /\ \A i \in 1 .. Len(rest) : rest[i] = stored[n + i]
    BY <1>1, <1>5, TailFacts
  <2> QED
    BY <1>5, <2>1
<1> HIDE DEF rest
<1>7. Elems(rest) = Elems(stored) \ gone /\ gone \subseteq Elems(stored)
  <2>1. \A i, j \in 1 .. Len(stored) : i < j => stored[i] < stored[j]
    BY DEF QueueInv, OrderInv, InOrder
  <2> QED
    BY <1>1, <1>5, <1>6, <2>1, CutElems
<1>8. Elems(stored') = Elems(rest) \cup {e}
  <2>1. Elems(rest) = {rest[i] : i \in 1 .. Len(rest)}
    BY <1>6, ElemsIn
  <2>2. Len(rest) \in Nat /\ Len(stored') = Len(rest) + 1
    BY <1>1, <1>2, <1>5, <1>6
  <2>3. \A i \in 1 .. Len(rest) : stored'[i] = rest[i]
    BY <1>2, <1>6
  <2>4. \A i \in 1 .. Len(stored') : i \in 1 .. Len(rest) \/ i = Len(stored')
    BY <2>2
  <2>5. Len(stored') \in 1 .. Len(stored') /\ \A i \in 1 .. Len(rest) : i \in 1 .. Len(stored')
    BY <2>2
  <2>6. ASSUME NEW d \in Elems(stored')
        PROVE  d \in Elems(rest) \cup {e}
    <3>1. PICK i \in 1 .. Len(stored') : d = stored'[i]
      BY <1>4, <2>6
    <3>2. CASE i \in 1 .. Len(rest)
      <4>1. d = rest[i]
        BY <2>3, <3>1, <3>2
      <4> QED
        BY <2>1, <3>2, <4>1
    <3>3. CASE i = Len(stored')
      BY <1>2, <3>1, <3>3
    <3> QED
      BY <2>4, <3>2, <3>3
  <2>7. ASSUME NEW d \in Elems(rest) \cup {e}
        PROVE  d \in Elems(stored')
    BY <1>2, <1>4, <2>1, <2>3, <2>5
  <2> QED
    BY <2>6, <2>7
<1>9. e \notin Elems(stored)
  <2>1. \A i \in 1 .. Len(stored) : stored[i] \in Nat /\ stored[i] < e
    BY <1>1, ElementOfSeq
  <2>2. \A i \in 1 .. Len(stored) : stored[i] # e
    BY <2>1
  <2> QED
    BY <1>1, <2>2
<1> QED
  BY <1>2, <1>7, <1>8, <1>9 DEF n

\* Every event that arrives is saved, or waits to be; nothing else changes what is kept,
\* except the end of the worker.
LEMMA KeptStep ==
  ASSUME QueueInv, Orderly, [Next]_vars, \A kind \in Ends : ~Kill(kind)
  PROVE  \/ arrived' = arrived + 1 /\ Kept' = Kept \cup {arrived + 1}
         \/ arrived' = arrived /\ Kept' = Kept
<1>1. CASE Event
  <2>1. arrived' = arrived + 1 /\ arrived \in Nat
    BY <1>1, StoredFacts DEF Event
  <2>2. CASE queue = None
    <3>1. /\ reads = {} /\ UNCHANGED saved
          /\ reads' = {[task |-> "enqueue", of |-> arrived + 1, value |-> stored]}
      BY <1>1, <2>2 DEF Event, Read, Orderly
    <3>2. Waits = {} /\ Waits' = {arrived + 1}
      BY <2>1, <3>1 DEF Waits, Waiting
    <3> QED
      BY <2>1, <3>1, <3>2 DEF Kept
  <2>3. CASE queue # None
    <3>1. reads = {} /\ reads' = {} /\ saved' = saved \cup {arrived + 1}
      BY <1>1, <2>3, NoReadsInMemory DEF Event, Push
    <3>2. Waits = {} /\ Waits' = {}
      BY <3>1 DEF Waits, Waiting
    <3> QED
      BY <2>1, <3>1, <3>2 DEF Kept
  <2> QED
    BY <2>2, <2>3
<1>2. ASSUME NEW r \in reads, ReadAnswered(r)
      PROVE  arrived' = arrived /\ Kept' = Kept
  <2>1. /\ arrived' = arrived /\ reads = {r} /\ reads' = {} /\ r.task \in ReadTasks
        /\ r.task = "enqueue" => r.of \in 1 .. arrived
    BY <1>2 DEF ReadAnswered, QueueInv, OrderInv, ReadIsStored, TypeInv, TypeOK
  <2>2. Waits' = {}
    BY <2>1 DEF Waits, Waiting
  <2>3. CASE r.task = "enqueue"
    <3>1. saved' = saved \cup {r.of}
      BY <1>2, <2>3 DEF ReadAnswered, Push
    <3>2. Waits = {r.of}
      BY <2>1, <2>3 DEF Waits, Waiting
    <3> QED
      BY <2>1, <2>2, <3>1, <3>2 DEF Kept
  <2>4. CASE r.task # "enqueue"
    <3>1. saved' = saved
      BY <1>2, <2>1, <2>4 DEF ReadAnswered, ReadTasks
    <3>2. Waits = {}
      BY <2>1, <2>4 DEF Waits, Waiting
    <3> QED
      BY <2>1, <2>2, <3>1, <3>2 DEF Kept
  <2> QED
    BY <2>3, <2>4
<1>3. ASSUME UNCHANGED <<arrived, saved>>,
             \A r \in reads' : r \in reads \/ r.task # "enqueue",
             \A r \in reads : r \in reads'
      PROVE  arrived' = arrived /\ Kept' = Kept
  <2>1. \A e \in 1 .. arrived : Waiting(e)' <=> Waiting(e)
    BY <1>3 DEF Waiting
  <2> QED
    BY <1>3, <2>1 DEF Kept, Waits
<1>4. CASE Clear \/ Status \/ Startup
  BY <1>3, <1>4 DEF Clear, Status, Startup, ClearNow, Read, outside
<1>5. ASSUME NEW f \in Flushers, Timer(f) \/ Alarm(f) \/ Options(f)
      PROVE  arrived' = arrived /\ Kept' = Kept
  <2>1. Start(f) /\ UNCHANGED <<arrived, saved>>
    BY <1>5 DEF Timer, Alarm, Options, outside
  <2>2. reads' = reads \/ reads' = reads \cup {[task |-> "flush", of |-> f, value |-> stored]}
    BY <2>1 DEF Start, Read
  <2> QED
    BY <1>3, <2>1, <2>2
<1>6. ASSUME NEW f \in Flushers,
             \/ Config(f) \/ Again(f) \/ ServerHandles(f)
             \/ AnswerOk(f) \/ AnswerRejected(f) \/ AnswerFailed(f)
      PROVE  arrived' = arrived /\ Kept' = Kept
  BY <1>3, <1>6 DEF Config, Again, ServerHandles, AnswerOk, AnswerRejected, AnswerFailed, memory, outside
<1>7. CASE Unload
  BY <1>3, <1>7 DEF Unload, Forget
<1>8. CASE UNCHANGED vars
  BY <1>3, <1>8 DEF vars, memory, outside
<1> QED
  BY <1>1, <1>2, <1>4, <1>5, <1>6, <1>7, <1>8 DEF Next

\* Only the end of the worker loses an event.
LEMMA LostStays ==
  ASSUME QueueInv, Orderly, [Next]_vars, \A kind \in Ends : ~Kill(kind)
  PROVE  Lost' = Lost
<1>1. arrived \in Nat
  BY StoredFacts
<1>2. Lost = (1 .. arrived) \ Kept /\ Lost' = (1 .. arrived') \ Kept'
  BY DEF Lost, Kept, Waits
<1>3. CASE arrived' = arrived + 1 /\ Kept' = Kept \cup {arrived + 1}
  <2>1. 1 .. arrived' = (1 .. arrived) \cup {arrived + 1} /\ arrived + 1 \notin 1 .. arrived
    BY <1>1, <1>3
  <2> QED
    BY <1>2, <1>3, <2>1
<1> QED
  BY <1>2, <1>3, KeptStep

\* What is pushed is saved, and what is cut was.
LEMMA PushSaves ==
  ASSUME QueueInv, NEW e \in Nat, \A i \in 1 .. Len(stored) : stored[i] < e, Push(stored, e)
  PROVE  saved' = saved \cup {e} /\ Elems(stored') \subseteq saved'
<1>1. saved' = saved \cup {e} /\ Elems(stored) \subseteq saved
  BY DEF Push, QueueInv, SavedInv
<1> QED
  BY <1>1, PushElems

LEMMA SpliceSaves ==
  ASSUME QueueInv, NEW f \in Flushers, pc[f] = "fetch", Splice(f),
         UNCHANGED <<reads, batch, arrived, progress, last>>
  PROVE  Elems(stored') \subseteq Elems(stored)
<1> DEFINE k == Len(batch[f])
<1>1. /\ queue # None /\ queue = stored /\ stored \in Seq(1 .. arrived) /\ Len(stored) \in Nat
      /\ k \in 1 .. Len(stored)
  BY NoReadsInMemory DEF QueueInv, TypeInv, Loaded, OrderInv, BatchIsHead
<1>2. Len(stored') = Len(stored) - k /\ \A i \in 1 .. Len(stored') : stored'[i] = stored[k + i]
  BY SpliceKeepsOrder
<1>3. stored' \in Seq(1 .. arrived)
  <2>1. stored' = SubSeq(stored, k + 1, Len(stored)) /\ k \in Nat
    BY <1>1 DEF Splice
  <2> QED
    BY <1>1, <2>1, TailFacts
<1> HIDE DEF k
<1>4. \A i \in 1 .. Len(stored') : k + i \in 1 .. Len(stored)
  BY <1>1, <1>2
<1>5. /\ Elems(stored) = {stored[i] : i \in 1 .. Len(stored)}
      /\ Elems(stored') = {stored'[i] : i \in 1 .. Len(stored')}
  BY <1>1, <1>3, ElemsIn
<1> QED
  BY <1>2, <1>4, <1>5

LEMMA SavedStep ==
  ASSUME QueueInv, Orderly, [Next]_vars
  PROVE  SavedInv'
<1>1. /\ arrived \in Nat /\ saved \subseteq 1 .. arrived /\ received \subseteq saved
      /\ Elems(stored) \subseteq saved /\ Waits \cap saved = {} /\ Waits \subseteq 1 .. arrived
  BY StoredFacts DEF QueueInv, SavedInv, TypeInv, TypeOK, Waits
<1>2. CASE \E kind \in Ends : Kill(kind)
  <2>1. PICK kind \in Ends : Kill(kind)
    BY <1>2
  <2>2. reads' = {} /\ UNCHANGED <<stored, arrived, received, saved>>
    BY <2>1 DEF Kill, Forget
  <2>3. Waits' = {}
    BY <2>2 DEF Waits, Waiting
  <2>4. kills'[kind] # 0
    BY <2>1 DEF Kill, QueueInv, TypeInv, TypeOK
  <2> QED
    BY <1>1, <2>2, <2>3, <2>4 DEF SavedInv
<1>3. CASE \A kind \in Ends : ~Kill(kind)
  <2>1. kills' = kills
    BY <1>3 DEF Next, Event, Clear, Status, Startup, Unload, ReadAnswered, Timer, Alarm, Options, Config,
       Again, ServerHandles, AnswerOk, AnswerRejected, AnswerFailed, vars, outside
  <2>2. (\A kind \in Ends : kills'[kind] = 0) => 1 .. arrived' \subseteq Kept'
    <3>1. (\A kind \in Ends : kills[kind] = 0) => 1 .. arrived \subseteq Kept
      BY DEF QueueInv, SavedInv
    <3>2. 1 .. arrived + 1 = (1 .. arrived) \cup {arrived + 1}
      BY <1>1
    <3> QED
      BY <1>3, <2>1, <3>1, <3>2, KeptStep
  <2>3. CASE Event
    <3>1. arrived' = arrived + 1 /\ UNCHANGED received
      BY <2>3 DEF Event
    <3>2. CASE queue = None
      <4>1. /\ UNCHANGED <<stored, saved>>
            /\ reads' = {[task |-> "enqueue", of |-> arrived + 1, value |-> stored]}
        BY <2>3, <3>2 DEF Event, Read, Orderly
      <4>2. Waits' \subseteq {arrived + 1}
        BY <4>1 DEF Waits, Waiting
      <4>3. arrived + 1 \notin saved
        BY <1>1
      <4> QED
        BY <1>1, <2>2, <3>1, <4>1, <4>2, <4>3 DEF SavedInv
    <3>3. CASE queue # None
      <4>1. queue = stored /\ reads = {} /\ reads' = {} /\ Push(stored, arrived + 1)
        BY <2>3, <3>3, NoReadsInMemory DEF Event
      <4>2. arrived + 1 \in Nat /\ \A i \in 1 .. Len(stored) : stored[i] < arrived + 1
        BY StoredFacts
      <4>3. saved' = saved \cup {arrived + 1} /\ Elems(stored') \subseteq saved'
        BY <4>1, <4>2, PushSaves
      <4>4. Waits' = {}
        BY <4>1 DEF Waits, Waiting
      <4> QED
        BY <1>1, <2>2, <3>1, <4>3, <4>4 DEF SavedInv
    <3> QED
      BY <3>2, <3>3
  <2>4. ASSUME NEW r \in reads, ReadAnswered(r)
        PROVE  SavedInv'
    <3>1. /\ r.value = stored /\ r.task \in ReadTasks /\ reads' = {} /\ UNCHANGED received
          /\ r.task = "enqueue" => r.of = arrived /\ \A i \in 1 .. Len(stored) : stored[i] < arrived
      BY <2>4 DEF ReadAnswered, QueueInv, OrderInv, ReadIsStored, TypeInv, TypeOK
    <3>2. Waits' = {}
      BY <3>1 DEF Waits, Waiting
    <3>3. CASE r.task = "enqueue"
      <4>1. Push(stored, arrived)
        BY <2>4, <3>1, <3>3 DEF ReadAnswered
      <4>2. saved' = saved \cup {arrived} /\ Elems(stored') \subseteq saved'
        BY <1>1, <3>1, <3>3, <4>1, PushSaves
      <4> QED
        BY <1>1, <2>2, <3>1, <3>2, <4>2 DEF SavedInv
    <3>4. CASE r.task = "clear"
      <4>1. stored' = <<>> /\ UNCHANGED saved
        BY <2>4, <3>4 DEF ReadAnswered, ClearNow
      <4>2. Elems(stored') = {}
        BY <4>1, EmptySeq DEF Elems
      <4> QED
        BY <1>1, <2>2, <3>1, <3>2, <4>1, <4>2 DEF SavedInv
    <3>5. CASE r.task \notin {"enqueue", "clear"}
      <4>1. UNCHANGED <<stored, saved>>
        BY <2>4, <3>1, <3>5 DEF ReadAnswered, ReadTasks
      <4> QED
        BY <1>1, <2>2, <3>1, <3>2, <4>1 DEF SavedInv
    <3> QED
      BY <3>3, <3>4, <3>5
  <2>5. ASSUME UNCHANGED <<arrived, saved>>, received' \subseteq saved, Elems(stored') \subseteq saved,
               \A r \in reads' : r \in reads \/ r.task # "enqueue"
        PROVE  SavedInv'
    <3>1. Waits' \subseteq Waits
      BY <2>5 DEF Waits, Waiting
    <3> QED
      BY <1>1, <2>2, <2>5, <3>1 DEF SavedInv
  <2>6. CASE Clear
    <3>1. CASE queue = None
      BY <1>1, <2>5, <2>6, <3>1 DEF Clear, Read
    <3>2. CASE queue # None
      <4>1. stored' = <<>>
        BY <2>6, <3>2 DEF Clear, ClearNow
      <4>2. Elems(stored') = {}
        BY <4>1, EmptySeq DEF Elems
      <4> QED
        BY <1>1, <2>5, <2>6, <3>2, <4>2 DEF Clear
    <3> QED
      BY <3>1, <3>2
  <2>7. CASE Status \/ Startup \/ Unload
    <3>1. UNCHANGED <<arrived, saved, received, stored>>
      BY <2>7 DEF Status, Startup, Unload, Forget, outside
    <3>2. \A r \in reads' : r \in reads \/ r.task # "enqueue"
      BY <2>7 DEF Status, Startup, Unload, Forget, Read
    <3> QED
      BY <1>1, <2>5, <3>1, <3>2
  <2>8. ASSUME NEW f \in Flushers,
               \/ Timer(f) \/ Alarm(f) \/ Options(f)
               \/ Config(f) \/ Again(f) \/ AnswerFailed(f)
        PROVE  SavedInv'
    <3>1. UNCHANGED <<arrived, saved, received, stored>>
      BY <2>8 DEF Timer, Alarm, Options, Config, Again, AnswerFailed, outside
    <3>2. Start(f) \/ UNCHANGED reads
      BY <2>8 DEF Timer, Alarm, Options, Config, Again, AnswerFailed
    <3>3. \A r \in reads' : r \in reads \/ r.task # "enqueue"
      BY <3>2 DEF Start, Read
    <3> QED
      BY <1>1, <2>5, <3>1, <3>3
  <2>9. ASSUME NEW f \in Flushers, ServerHandles(f)
        PROVE  SavedInv'
    <3>1. /\ pc[f] = "fetch" /\ progress[f] \in Nat /\ progress[f] < Len(batch[f])
          /\ last' = batch[f][progress[f] + 1] /\ received' = received \cup {last'}
          /\ UNCHANGED <<reads, stored, arrived, saved>>
      BY <2>9 DEF ServerHandles, memory, QueueInv, TypeInv, TypeOK
    <3>2. /\ Len(batch[f]) \in 1 .. Len(stored) /\ Len(stored) \in Nat /\ stored \in Seq(1 .. arrived)
          /\ \A i \in 1 .. Len(batch[f]) : batch[f][i] = stored[i]
      BY <3>1, StoredFacts DEF QueueInv, OrderInv, BatchIsHead
    <3>3. progress[f] + 1 \in 1 .. Len(batch[f]) /\ progress[f] + 1 \in 1 .. Len(stored)
      BY <3>1, <3>2
    <3>4. last' \in Elems(stored)
      BY <3>1, <3>2, <3>3, ElemsIn
    <3> QED
      BY <1>1, <2>5, <3>1, <3>4
  <2>10. ASSUME NEW f \in Flushers, AnswerOk(f) \/ AnswerRejected(f)
         PROVE  SavedInv'
    <3>1. /\ pc[f] = "fetch" /\ Splice(f)
          /\ UNCHANGED <<reads, batch, arrived, received, progress, last, saved>>
      BY <2>10 DEF AnswerOk, AnswerRejected, outside
    <3>2. Elems(stored') \subseteq Elems(stored)
      BY <3>1, SpliceSaves
    <3> QED
      BY <1>1, <2>5, <3>1, <3>2
  <2>11. CASE UNCHANGED vars
    BY <1>1, <2>5, <2>11 DEF vars, memory, outside
  <2> QED
    BY <1>3, <2>3, <2>4, <2>6, <2>7, <2>8, <2>9, <2>10, <2>11 DEF Next
<1> QED
  BY <1>2, <1>3

LEMMA SavedInit ==
  ASSUME Init
  PROVE  SavedInv
<1>1. stored = <<>> /\ arrived = 0 /\ received = {} /\ saved = {}
  BY DEF Init
<1>2. Elems(stored) = {} /\ 1 .. arrived = {}
  BY <1>1, EmptySeq DEF Elems
<1> QED
  BY <1>1, <1>2 DEF SavedInv, Waits

LEMMA QueueStep ==
  ASSUME QueueInv, Orderly, [Next]_vars
  PROVE  QueueInv'
<1>1. TypeInv'
  BY TypeStep DEF QueueInv
<1>2. OrderInv' /\ SavedInv'
  BY OrderStep, SavedStep
<1> QED
  BY <1>1, <1>2 DEF QueueInv

\* An event that arrives joins the open ones, and a full queue gives up its first.
LEMMA EventMaps ==
  ASSUME QueueInv, Orderly, Event, Lost' = Lost
  PROVE  Stream!Next
<1>1. arrived' = arrived + 1 /\ UNCHANGED <<received, last>>
  BY DEF Event
<1>2. /\ arrived \in Nat /\ Open \subseteq 1 .. arrived /\ Open = Elems(stored) \cup Waits
      /\ \A i \in 1 .. Len(stored) : stored[i] < arrived + 1
  BY StoredFacts, OpenFacts
<1>3. Open' = Elems(stored') \cup Waits'
  BY DEF Open, Stored, Elems, Waits
<1>4. CASE queue = None
  <2>1. /\ UNCHANGED <<stored, dropped>> /\ reads = {}
        /\ reads' = {[task |-> "enqueue", of |-> arrived + 1, value |-> stored]}
    BY <1>4 DEF Event, Read, Orderly
  <2>2. Waits = {}
    BY <2>1 DEF Waits, Waiting
  <2>3. Waits' = {arrived + 1}
    BY <1>1, <1>2, <2>1 DEF Waits, Waiting
  <2>4. Open' = (Open \ {}) \cup {arrived + 1} /\ dropped' = dropped \cup {} /\ {} \in SUBSET Open
    BY <1>2, <1>3, <2>1, <2>2, <2>3
  <2> QED
    BY <1>1, <2>4, StreamAccepts
<1>5. CASE queue # None
  <2> DEFINE gone == Heads(stored, Count(stored, arrived + 1))
  <2>1. queue = stored /\ reads = {} /\ reads' = {} /\ Push(stored, arrived + 1)
    BY <1>5, NoReadsInMemory DEF Event
  <2>2. /\ gone \subseteq Elems(stored)
        /\ Elems(stored') = (Elems(stored) \ gone) \cup {arrived + 1}
        /\ dropped' = dropped \cup gone
    BY <1>2, <2>1, PushElems
  <2> HIDE DEF gone
  <2>3. Waits = {} /\ Waits' = {}
    BY <2>1 DEF Waits, Waiting
  <2>4. Open' = (Open \ gone) \cup {arrived + 1} /\ gone \in SUBSET Open
    BY <1>2, <1>3, <2>2, <2>3
  <2> QED
    BY <1>1, <2>2, <2>4, StreamAccepts
<1> QED
  BY <1>4, <1>5

\* The event that waited for storage is pushed; it was open and stays so.
LEMMA ReadAnsweredMaps ==
  ASSUME QueueInv, Orderly, NEW r \in reads, ReadAnswered(r), Lost' = Lost
  PROVE  Stream!Next \/ UNCHANGED Stream!vars
<1>1. /\ r.value = stored /\ r.task \in ReadTasks /\ reads = {r} /\ reads' = {}
      /\ r.task = "enqueue" => r.of = arrived /\ \A i \in 1 .. Len(stored) : stored[i] < arrived
      /\ UNCHANGED <<arrived, received, last>>
  BY DEF ReadAnswered, QueueInv, OrderInv, ReadIsStored, TypeInv, TypeOK
<1>2. /\ arrived \in Nat /\ Open \subseteq 1 .. arrived /\ Open = Elems(stored) \cup Waits
      /\ Open' = Elems(stored') \cup Waits'
  BY StoredFacts, OpenFacts DEF Open, Stored, Elems, Waits
<1>3. Waits' = {}
  BY <1>1 DEF Waits, Waiting
<1>4. CASE r.task = "enqueue"
  <2> DEFINE gone == Heads(stored, Count(stored, arrived))
  <2>1. Push(stored, arrived)
    BY <1>1, <1>4 DEF ReadAnswered
  <2>2. /\ gone \subseteq Elems(stored) /\ arrived \notin gone
        /\ Elems(stored') = (Elems(stored) \ gone) \cup {arrived}
        /\ dropped' = dropped \cup gone
    BY <1>1, <1>2, <1>4, <2>1, PushElems
  <2> HIDE DEF gone
  <2>3. Waits = {arrived}
    <3>1. r.of \in 1 .. arrived
      BY <1>4 DEF QueueInv, TypeInv, TypeOK
    <3> QED
      BY <1>1, <1>4, <3>1 DEF Waits, Waiting
  <2>4. Open' = Open \ gone /\ gone \in SUBSET Open
    BY <1>2, <1>3, <2>2, <2>3
  <2> QED
    BY <1>1, <2>2, <2>4, StreamGivesUp
<1>5. CASE r.task # "enqueue"
  <2>1. Waits = {}
    BY <1>1, <1>5 DEF Waits, Waiting
  <2>2. CASE r.task = "clear"
    <3>1. stored' = <<>> /\ dropped' = dropped \cup Elems(stored)
      BY <1>1, <2>2 DEF ReadAnswered, ClearNow, Elems
    <3>2. Elems(stored') = {}
      BY <3>1, EmptySeq DEF Elems
    <3>3. Open' = Open \ Elems(stored) /\ Elems(stored) \in SUBSET Open
      BY <1>2, <1>3, <2>1, <3>2
    <3> QED
      BY <1>1, <3>1, <3>3, StreamGivesUp
  <2>3. CASE r.task # "clear"
    <3>1. UNCHANGED <<stored, dropped>>
      BY <1>1, <1>5, <2>3 DEF ReadAnswered, ReadTasks
    <3>2. Open' = Open
      BY <1>2, <1>3, <2>1, <3>1
    <3> QED
      BY <1>1, <3>1, <3>2, StreamStays
  <2> QED
    BY <2>2, <2>3
<1> QED
  BY <1>4, <1>5

LEMMA ClearMaps ==
  ASSUME QueueInv, Orderly, Clear, Lost' = Lost
  PROVE  Stream!Next \/ UNCHANGED Stream!vars
<1>1. UNCHANGED <<arrived, received, last>>
  BY DEF Clear
<1>2. Open = Elems(stored) \cup Waits /\ Open' = Elems(stored') \cup Waits'
  BY OpenFacts DEF Open, Stored, Elems, Waits
<1>3. CASE queue = None
  <2>1. UNCHANGED <<stored, dropped>> /\ reads = {} /\ reads' = {[task |-> "clear", of |-> None, value |-> stored]}
    BY <1>3 DEF Clear, Read, Orderly
  <2>2. Waits = {} /\ Waits' = {}
    BY <2>1 DEF Waits, Waiting
  <2> QED
    BY <1>1, <1>2, <2>1, <2>2, StreamStays
<1>4. CASE queue # None
  <2>1. reads = {} /\ reads' = {} /\ stored' = <<>> /\ dropped' = dropped \cup Elems(stored)
    BY <1>4, NoReadsInMemory DEF Clear, ClearNow, Elems
  <2>2. Waits = {} /\ Waits' = {}
    BY <2>1 DEF Waits, Waiting
  <2>3. Elems(stored') = {}
    BY <2>1, EmptySeq DEF Elems
  <2>4. Open' = Open \ Elems(stored) /\ Elems(stored) \in SUBSET Open
    BY <1>2, <2>2, <2>3
  <2> QED
    BY <1>1, <2>1, <2>4, StreamGivesUp
<1> QED
  BY <1>3, <1>4

\* Nothing the stream sees has changed.
LEMMA SameMaps ==
  ASSUME Lost' = Lost, UNCHANGED <<reads, stored, arrived, received, last, dropped>>
  PROVE  UNCHANGED Stream!vars
<1>1. Open' = Open
  BY DEF Open, Stored, Waiting
<1> QED
  BY <1>1, StreamStays

\* The end of the worker takes the event that waited with it: the newest one.
LEMMA KillMaps ==
  ASSUME QueueInv, NEW kind \in Ends, Kill(kind)
  PROVE  Stream!Next \/ UNCHANGED Stream!vars
<1>1. UNCHANGED <<stored, arrived, received, last, dropped, saved>> /\ reads' = {}
  BY DEF Kill, Forget
<1>2. Open = Elems(stored) \cup Waits /\ Open' = Elems(stored) \cup Waits' /\ Open \subseteq 1 .. arrived
  BY <1>1, OpenFacts DEF Open, Stored, Elems, Waits
<1>3. Waits' = {}
  BY <1>1 DEF Waits, Waiting
<1>4. Lost = (1 .. arrived) \ (saved \cup Waits) /\ Lost' = (1 .. arrived) \ saved
  BY <1>1, <1>3 DEF Lost, Waits
<1>5. CASE Waits = {}
  BY <1>1, <1>2, <1>3, <1>4, <1>5, StreamStays
<1>6. CASE Waits # {}
  <2>1. Waits = {arrived} /\ arrived \in 1 .. arrived
    BY <1>6 DEF Waits, Waiting, QueueInv, OrderInv, ReadIsStored
  <2>2. arrived \notin saved /\ arrived \notin received /\ arrived \notin Elems(stored)
    BY <2>1 DEF QueueInv, SavedInv
  <2>3. arrived \in Open \ received /\ Open' = Open \ {arrived} /\ Lost' = Lost \cup {arrived}
    BY <1>2, <1>3, <1>4, <2>1, <2>2
  <2>4. (1 .. arrived') \ Open' = ((1 .. arrived) \ Open) \cup {arrived}
    BY <1>1, <2>1, <2>3
  <2>5. Stream!Lose
    BY <1>1, <1>2, <2>3, <2>4, StreamOpen DEF Stream!Lose
  <2> QED
    BY <2>5 DEF Stream!Next
<1> QED
  BY <1>5, <1>6

\* A worker that is unloaded waits for nothing.
LEMMA UnloadMaps ==
  ASSUME QueueInv, Unload, Lost' = Lost
  PROVE  UNCHANGED Stream!vars
BY SameMaps DEF Unload, Forget

\* The next event of a batch is the head of the queue, or follows the one handled last.
LEMMA ServerMaps ==
  ASSUME QueueInv, NEW f \in Flushers, ServerHandles(f), Lost' = Lost
  PROVE  Stream!Next
<1> DEFINE p == progress[f]
<1>1. /\ pc[f] = "fetch" /\ p \in Nat /\ p < Len(batch[f])
      /\ last' = batch[f][p + 1] /\ received' = received \cup {last'}
      /\ UNCHANGED <<queue, reads, stored, arrived, dropped>>
  BY DEF ServerHandles, memory, QueueInv, TypeInv, TypeOK
<1>2. queue # None
  BY <1>1 DEF QueueInv, TypeInv, Loaded
<1>3. reads = {} /\ stored \in Seq(Nat) /\ Len(stored) \in Nat
  BY <1>2, NoReadsInMemory, StoredFacts, SeqMonotonic
<1>4. /\ Len(batch[f]) \in 1 .. Len(stored)
      /\ \A i \in 1 .. Len(batch[f]) : batch[f][i] = stored[i]
      /\ p > 0 => last = stored[p]
  BY <1>1 DEF QueueInv, OrderInv, BatchIsHead
<1> HIDE DEF p
<1>5. Open = {stored[i] : i \in 1 .. Len(stored)} /\ Open' = Open
  <2>1. Waits = {} /\ Waits' = {}
    BY <1>1, <1>3 DEF Waits, Waiting
  <2>2. Open = Elems(stored) \cup Waits /\ Open' = Elems(stored') \cup Waits'
    BY OpenFacts DEF Open, Stored, Elems, Waits
  <2>3. Elems(stored) = {stored[i] : i \in 1 .. Len(stored)}
    BY <1>3, ElemsIn
  <2> QED
    BY <1>1, <2>1, <2>2, <2>3
<1>6. p + 1 \in 1 .. Len(stored) /\ p + 1 \in 1 .. Len(batch[f])
  BY <1>1, <1>3, <1>4
<1>7. last' = stored[p + 1] /\ last' \in Open
  BY <1>1, <1>4, <1>5, <1>6
<1>8. \A i \in 1 .. Len(stored) : stored[i] \in Nat
  BY <1>3, ElementOfSeq
<1>9. \A i, j \in 1 .. Len(stored) : i < j => stored[i] < stored[j]
  BY DEF QueueInv, OrderInv, InOrder
<1>10. CASE p = 0
  <2>1. \A i \in 1 .. Len(stored) : i = 1 \/ 1 < i
    OBVIOUS
  <2>2. \A i \in 1 .. Len(stored) : stored[p + 1] =< stored[i]
    BY <1>6, <1>8, <1>9, <1>10, <2>1
  <2>3. \A d \in Open : last' =< d
    BY <1>5, <1>7, <2>2
  <2> QED
    BY <1>1, <1>5, <1>7, <2>3, StreamHandles
<1>11. CASE p > 0
  <2>1. p \in 1 .. Len(stored) /\ p < p + 1 /\ last = stored[p]
    BY <1>1, <1>4, <1>6, <1>11
  <2>2. last' > last
    BY <1>6, <1>7, <1>8, <1>9, <2>1
  <2>3. \A i \in 1 .. Len(stored) : i < p \/ i = p \/ i = p + 1 \/ p + 1 < i
    BY <1>1
  <2>4. \A i \in 1 .. Len(stored) : stored[i] < stored[p + 1] => stored[i] =< stored[p]
    BY <1>6, <1>8, <1>9, <2>1, <2>3
  <2>5. \A d \in Open : d < last' => d =< last
    BY <1>5, <1>7, <2>1, <2>4
  <2> QED
    BY <1>1, <1>5, <1>7, <2>2, <2>5, StreamHandles
<1> QED
  BY <1>1, <1>10, <1>11

\* A whole batch is acknowledged, or it is given up.
LEMMA AnswerMaps ==
  ASSUME QueueInv, NEW f \in Flushers, AnswerOk(f) \/ AnswerRejected(f), Lost' = Lost
  PROVE  Stream!Next
<1> DEFINE k == Len(batch[f])
<1>1. /\ pc[f] = "fetch" /\ Splice(f)
      /\ UNCHANGED <<reads, batch, arrived, received, progress, last>>
  BY DEF AnswerOk, AnswerRejected, outside
<1>2. queue # None
  BY <1>1 DEF QueueInv, TypeInv, Loaded
<1>3. /\ reads = {} /\ stored \in Seq(Nat) /\ stored \in Seq(1 .. arrived) /\ Len(stored) \in Nat
      /\ arrived \in Nat
  BY <1>2, NoReadsInMemory, StoredFacts, SeqMonotonic
<1>4. /\ k \in 1 .. Len(stored)
      /\ \A i \in 1 .. k : batch[f][i] = stored[i]
      /\ progress[f] > 0 => last = stored[progress[f]]
  BY <1>1 DEF QueueInv, OrderInv, BatchIsHead
<1>5. Len(stored') = Len(stored) - k /\ \A i \in 1 .. Len(stored') : stored'[i] = stored[k + i]
  BY <1>1, SpliceKeepsOrder
<1>6. stored' \in Seq(Nat)
  <2>1. stored' = SubSeq(stored, k + 1, Len(stored))
    BY <1>1, <1>2, NoReadsInMemory DEF Splice
  <2>2. k \in Nat
    BY <1>3, <1>4
  <2> QED
    BY <1>3, <2>1, <2>2, TailFacts
<1>7. DOMAIN batch[f] = 1 .. k
  BY LenProperties DEF QueueInv, TypeInv, TypeOK
<1> HIDE DEF k
<1>8. k \in 0 .. Len(stored)
  BY <1>4
<1>9. \A i, j \in 1 .. Len(stored) : i < j => stored[i] < stored[j]
  BY DEF QueueInv, OrderInv, InOrder
<1>10. Elems(stored') = Elems(stored) \ Heads(stored, k) /\ Heads(stored, k) \subseteq Elems(stored)
  BY <1>3, <1>5, <1>6, <1>8, <1>9, CutElems
<1>11. Open = Elems(stored) /\ Open' = Open \ Heads(stored, k) /\ Heads(stored, k) \in SUBSET Open
  <2>1. Waits = {} /\ Waits' = {}
    BY <1>1, <1>3 DEF Waits, Waiting
  <2>2. Open = Elems(stored) \cup Waits /\ Open' = Elems(stored') \cup Waits'
    BY OpenFacts DEF Open, Stored, Elems, Waits
  <2> QED
    BY <1>10, <2>1, <2>2
<1>12. CASE AnswerOk(f)
  <2>1. progress[f] = k /\ UNCHANGED dropped
    BY <1>12 DEF AnswerOk, outside, k
  <2>2. last = stored[k]
    BY <1>3, <1>4, <2>1
  <2>3. Heads(stored, k) = {e \in Elems(stored) : e =< stored[k]}
    BY <1>3, <1>4, <1>9, HeadsUpTo
  <2>4. Open' = Open \ {e \in Open : e =< last}
    BY <1>11, <2>2, <2>3
  <2> QED
    BY <1>1, <2>1, <2>4, StreamAcknowledges
<1>13. CASE AnswerRejected(f)
  <2>1. dropped' = dropped \cup {batch[f][i] : i \in DOMAIN batch[f]}
    BY <1>13 DEF AnswerRejected
  <2>2. {batch[f][i] : i \in DOMAIN batch[f]} = Heads(stored, k)
    BY <1>4, <1>7 DEF Heads
  <2> QED
    BY <1>1, <1>11, <2>1, <2>2, StreamGivesUp
<1> QED
  BY <1>12, <1>13

\* Everything else leaves the stream as it is.
LEMMA StartMaps ==
  ASSUME QueueInv, NEW f \in Flushers, Start(f), Lost' = Lost,
         UNCHANGED <<stored, arrived, received, last, dropped>>
  PROVE  UNCHANGED Stream!vars
<1>1. \A r \in reads' : r \in reads \/ r.task = "flush"
  BY DEF Start, Read
<1>2. \A r \in reads : r \in reads'
  BY DEF Start, Read
<1>3. \A e \in 1 .. arrived : Waiting(e)' <=> Waiting(e)
  BY <1>1, <1>2 DEF Waiting
<1>4. Waits' = Waits
  BY <1>3 DEF Waits
<1>5. Open' = Open
  BY <1>4, OpenFacts DEF Open, Stored, Elems, Waits
<1> QED
  BY <1>5, StreamStays

LEMMA ReadMaps ==
  ASSUME QueueInv, NEW task \in ReadTasks \ {"enqueue"}, Read(task, None), Lost' = Lost,
         UNCHANGED <<stored, arrived, received, last, dropped>>
  PROVE  UNCHANGED Stream!vars
<1>1. reads' = reads \cup {[task |-> task, of |-> None, value |-> stored]}
  BY DEF Read
<1>2. \A e \in 1 .. arrived : Waiting(e)' <=> Waiting(e)
  BY <1>1 DEF Waiting
<1>3. Waits' = Waits
  BY <1>2 DEF Waits
<1>4. Open' = Open
  BY <1>3, OpenFacts DEF Open, Stored, Elems, Waits
<1> QED
  BY <1>4, StreamStays

LEMMA MapsStep ==
  ASSUME QueueInv, Orderly, [Next]_vars
  PROVE  Stream!Next \/ UNCHANGED Stream!vars
<1>13. CASE \E kind \in Ends : Kill(kind)
  BY <1>13, KillMaps
<1> SUFFICES ASSUME \A kind \in Ends : ~Kill(kind)
             PROVE  Stream!Next \/ UNCHANGED Stream!vars
  BY <1>13
<1>12. Lost' = Lost
  BY LostStays
<1>1. CASE Event
  BY <1>12, <1>1, EventMaps
<1>2. CASE Clear
  BY <1>12, <1>2, ClearMaps
<1>3. CASE Status
  BY <1>12, <1>3, ReadMaps DEF Status, ReadTasks, outside
<1>4. CASE Startup
  <2>1. UNCHANGED <<stored, arrived, received, last, dropped>>
    BY <1>4 DEF Startup, outside
  <2>2. CASE Read("startup", None)
    BY <1>12, <2>1, <2>2, ReadMaps DEF ReadTasks
  <2>3. CASE UNCHANGED reads
    BY <1>12, <2>1, <2>3, SameMaps
  <2> QED
    BY <1>4, <2>2, <2>3 DEF Startup
<1>5. CASE Unload
  BY <1>12, <1>5, UnloadMaps
<1>6. ASSUME NEW r \in reads, ReadAnswered(r)
      PROVE  Stream!Next \/ UNCHANGED Stream!vars
  BY <1>12, <1>6, ReadAnsweredMaps
<1>7. ASSUME NEW f \in Flushers, Timer(f) \/ Alarm(f) \/ Options(f)
      PROVE  UNCHANGED Stream!vars
  BY <1>12, <1>7, StartMaps DEF Timer, Alarm, Options, outside
<1>8. ASSUME NEW f \in Flushers, Config(f) \/ Again(f) \/ AnswerFailed(f)
      PROVE  UNCHANGED Stream!vars
  BY <1>12, <1>8, SameMaps DEF Config, Again, AnswerFailed
<1>9. ASSUME NEW f \in Flushers, ServerHandles(f)
      PROVE  Stream!Next
  BY <1>12, <1>9, ServerMaps
<1>10. ASSUME NEW f \in Flushers, AnswerOk(f) \/ AnswerRejected(f)
       PROVE  Stream!Next
  BY <1>12, <1>10, AnswerMaps
<1>11. CASE UNCHANGED vars
  BY <1>12, <1>11, SameMaps DEF vars, memory, outside
<1> QED
  BY <1>1, <1>2, <1>3, <1>4, <1>5, <1>6, <1>7, <1>8, <1>9, <1>10, <1>11 DEF Next

LEMMA MapsInit ==
  ASSUME Init
  PROVE  Stream!Init
<1>1. arrived = 0 /\ received = {} /\ dropped = {} /\ last = 0
  BY DEF Init
<1>2. 1 .. arrived = {} /\ Lost = {}
  BY <1>1 DEF Lost
<1> QED
  BY <1>1, <1>2 DEF Stream!Init

-----------------------------------------------------------------------------
(* Theorems *)

\* As long as no handlers overlap and the queue is not cut under a batch in flight, the
\* collector keeps an EventStream's promise: in order, without gaps, each event until it is
\* acknowledged or given up, and none lost but the newest one when the worker ends before it
\* is saved.  This holds for any length of queue and batch, any number of failures, and ends
\* of the browser and the worker.
THEOREM ImplementsStream == ASSUME Orderly PROVE Spec => StreamSpec
<1>1. Init => QueueInv /\ Stream!Init
  BY TypeInit, OrderInit, SavedInit, MapsInit DEF QueueInv
<1>2. QueueInv /\ [Next]_vars => QueueInv'
  BY QueueStep
<1>3. QueueInv /\ [Next]_vars => [Stream!Next]_(Stream!vars)
  BY MapsStep
<1> QED
  BY <1>1, <1>2, <1>3, PTL DEF Spec, StreamSpec, Stream!Spec

\* What an EventStream keeps: nothing between the first open event and the last one handled
\* was skipped, and what the collector is done with was handled, openly given up, or lost
\* before the server saw it.
Settled == (1 .. arrived) \ Open

StreamTyped ==
  /\ arrived \in Nat /\ last \in 0 .. arrived
  /\ received \subseteq 1 .. arrived /\ dropped \subseteq Settled
  /\ Lost \subseteq Settled \ received

NothingSkipped == \A e \in Stream!Open : e =< last => e \in received
Accounted      == Settled \subseteq received \cup dropped \cup Lost

StreamInv == StreamTyped /\ NothingSkipped /\ Accounted

LEMMA StreamStep ==
  ASSUME StreamInv, [Stream!Next]_(Stream!vars)
  PROVE  StreamInv'
<1> USE DEF StreamInv, StreamTyped, NothingSkipped, Accounted, Stream!Open, Settled
<1>1. CASE Stream!Accept
  BY <1>1 DEF Stream!Accept
<1>2. ASSUME NEW e \in Stream!Open, Stream!Handle(e)
      PROVE  StreamInv'
  BY <1>2 DEF Stream!Handle
<1>3. CASE Stream!Acknowledge
  BY <1>3 DEF Stream!Acknowledge
<1>4. CASE Stream!GiveUp
  BY <1>4 DEF Stream!GiveUp
<1>5. CASE Stream!Lose
  BY <1>5 DEF Stream!Lose
<1>6. CASE UNCHANGED Stream!vars
  BY <1>6 DEF Stream!vars
<1> QED
  BY <1>1, <1>2, <1>3, <1>4, <1>5, <1>6 DEF Stream!Next

\* Whatever is repeated and given up, the server of an EventStream has handled every event
\* the collector is done with, unless it was given up or lost, and none was skipped on the way.
THEOREM StreamKeepsAccount == StreamSpec => [](StreamTyped /\ Accounted)
<1>1. Stream!Init => StreamInv
  BY DEF Stream!Init, StreamInv, StreamTyped, NothingSkipped, Accounted, Stream!Open, Settled
<1>2. StreamInv /\ [Stream!Next]_(Stream!vars) => StreamInv'
  BY StreamStep
<1>3. StreamInv => StreamTyped /\ Accounted
  BY DEF StreamInv
<1> QED
  BY <1>1, <1>2, <1>3, PTL DEF StreamSpec, Stream!Spec

\* An event that was saved once is in the queue, has reached the server, or was dropped by a
\* rejection, clearing or overflow, whatever ends the worker and however often; and as long
\* as neither browser nor worker were killed, every event is saved or about to be.
THEOREM NothingIsLost == ASSUME Orderly PROVE Spec => []NothingLost
<1>1. Init => QueueInv
  BY TypeInit, OrderInit, SavedInit DEF QueueInv
<1>2. QueueInv /\ [Next]_vars => QueueInv'
  BY QueueStep
<1>3. Spec => [](StreamTyped /\ Accounted)
  BY ImplementsStream, StreamKeepsAccount, PTL
<1>4. QueueInv /\ Accounted => NothingLost
  <2> SUFFICES ASSUME QueueInv, Accounted
               PROVE  NothingLost
    OBVIOUS
  <2>1. /\ saved \subseteq 1 .. arrived /\ Waits \cap saved = {}
        /\ Open = Elems(stored) \cup Waits /\ Stored = Elems(stored)
    BY OpenFacts DEF QueueInv, SavedInv, TypeInv, TypeOK, Stored, Elems
  <2>2. Lost \cap saved = {} /\ (1 .. arrived) \ Open \subseteq received \cup dropped \cup Lost
    BY DEF Accounted, Settled, Lost
  <2>3. saved \subseteq received \cup dropped \cup Stored
    BY <2>1, <2>2
  <2>4. (\A kind \in Ends : kills[kind] = 0) => Lost = {}
    BY DEF Lost, Kept, Waits, QueueInv, SavedInv
  <2> QED
    BY <2>3, <2>4 DEF NothingLost
<1> QED
  BY <1>1, <1>2, <1>3, <1>4, PTL DEF Spec

=============================================================================
