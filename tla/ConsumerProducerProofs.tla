----------------------- MODULE ConsumerProducerProofs -----------------------
(* Proofs about ConsumerProducer for any number of producers, workers and  *)
(* jobs, any queue sizes and either overflow mode.                         *)
EXTENDS ConsumerProducer, FiniteSetTheorems, SequenceTheorems, TLAPS

(* What the program counters say about the locals of a thread.             *)
Shape ==
  /\ \A p \in Producers : pc[p] # "idle" => call[p] \in Calls
  /\ \A p \in Producers : pc[p] \in {"give_up", "discard"} => victim[p] \in Jobs
  /\ \A w \in Workers : hand[w] # NoOne <=> wpc[w] \in {"popped", "consume", "account"}
  /\ ctl = "init" => \A w \in Workers : wpc[w] = "off"

Typed == TypeOK /\ Shape

LEMMA CapacityIsPositive == \A i \in Priorities : Capacity(i) \in Nat \ {0}
  BY SizeAssumption DEF SizeAssumption, Capacity

(* The entry add_job_do_ builds from its arguments.                        *)
LEMMA EntryOfCall ==
  ASSUME NEW c \in Calls, NEW n \in Nat
  PROVE  [job |-> c.job, id |-> n + 1, not_discardable |-> c.not_discardable] \in Entries
  BY DEF Calls, Entries

LEMMA TypedInit == Init => Typed
  <1> SUFFICES ASSUME Init PROVE Typed
    OBVIOUS
  <1>1. queue \in [Priorities -> Seq(Entries)] /\ \A i \in Priorities : Len(queue[i]) <= Capacity(i)
    BY SizeAssumption DEF Init, SizeAssumption, Capacity
  <1>2. flushes \in 0..MaxFlushes
    BY SizeAssumption DEF Init, SizeAssumption
  <1>3. TypeOK
    BY <1>1, <1>2 DEF Init, TypeOK
  <1>4. Shape
    BY DEF Init, Shape
  <1> QED BY <1>3, <1>4 DEF Typed

LEMMA TypedProducer ==
  ASSUME Typed, NEW p \in Producers, ProducerStep(p)
  PROVE  Typed'
  <1> USE DEF Typed, TypeOK, Shape, Goto, Wait, NotifyAll, queueVars, producerVars, workerVars,
          controlVars, jobVars
  <1>1. CASE AddSeesPaused(p)
    BY <1>1 DEF AddSeesPaused
  <1>2. CASE AddWaitsPaused(p)
    BY <1>2 DEF AddWaitsPaused, Threads, CondVars
  <1>3. CASE AddWaitsFull(p)
    BY <1>3 DEF AddWaitsFull, Threads, CondVars
  <1>4. CASE AddGivesUp(p)
    <2>1. call[p] \in Calls /\ call[p].job \in Jobs /\ call[p].prio \in Priorities
      BY <1>4 DEF AddGivesUp, Calls
    <2>2. added' \in [Priorities -> Nat] /\ dropped' \in [Priorities -> Nat]
      BY <1>4, <2>1, SMTT(30) DEF AddGivesUp, CountGivenUp
    <2>3. victim' \in [Producers -> Jobs \cup {NoOne}] /\ victim'[p] \in Jobs
      BY <1>4, <2>1 DEF AddGivesUp
    <2> QED BY <1>4, <2>1, <2>2, <2>3 DEF AddGivesUp
  <1>5. CASE AddDiscardsHead(p)
    <2> DEFINE i == call[p].prio
    <2>1. call[p] \in Calls /\ i \in Priorities
      BY <1>5 DEF AddDiscardsHead, Calls
    <2>2. queue[i] \in Seq(Entries) /\ Len(queue[i]) = Capacity(i) /\ queue[i] # <<>>
      BY <1>5, <2>1, CapacityIsPositive DEF AddDiscardsHead, Full
    <2>3. /\ Head(queue[i]) \in Entries
          /\ Tail(queue[i]) \in Seq(Entries) /\ Len(Tail(queue[i])) <= Len(queue[i])
      BY <2>2
    <2>4. /\ queue' \in [Priorities -> Seq(Entries)]
          /\ \A k \in Priorities : Len(queue'[k]) <= Capacity(k)
      BY <1>5, <2>1, <2>2, <2>3, CapacityIsPositive DEF AddDiscardsHead
    <2>5. Head(queue[i]).job \in Jobs /\ Head(queue[i]).id \in Nat
      BY <2>3 DEF Entries
    <2>6. /\ dropped' \in [Priorities -> Nat] /\ finished_job_id' \in [Priorities -> Nat]
          /\ victim' \in [Producers -> Jobs \cup {NoOne}] /\ victim'[p] \in Jobs
      <3>1. /\ dropped' = [dropped EXCEPT ![i] = @ + 1]
            /\ finished_job_id' = [finished_job_id EXCEPT ![i] = Head(queue[i]).id]
            /\ victim' = [victim EXCEPT ![p] = Head(queue[i]).job]
        BY <1>5 DEF AddDiscardsHead
      <3> DEFINE h == Head(queue[i])
      <3> HIDE DEF i, h
      <3> QED BY <2>1, <2>5, <3>1 DEF h
    <2> QED BY <1>5, <2>1, <2>4, <2>6 DEF AddDiscardsHead
  <1>6. CASE ConsumeVictim(p)
    BY <1>6 DEF ConsumeVictim
  <1>7. CASE NotifyDiscarded(p)
    BY <1>7 DEF NotifyDiscarded, CondVars
  <1>8. CASE AddEnqueues(p)
    <2> DEFINE i == call[p].prio
               e == [job |-> call[p].job, id |-> job_id[i] + 1,
                     not_discardable |-> call[p].not_discardable]
    <2>1. call[p] \in Calls /\ i \in Priorities
      BY <1>8 DEF AddEnqueues, Calls
    <2>2. e \in Entries /\ job_id[i] + 1 \in Nat
      BY <2>1 DEF Calls, Entries
    <2>3. queue[i] \in Seq(Entries) /\ Len(queue[i]) < Capacity(i)
      BY <1>8, <2>1, CapacityIsPositive DEF AddEnqueues, Full
    <2> HIDE DEF e
    <2>4. Append(queue[i], e) \in Seq(Entries) /\ Len(Append(queue[i], e)) = Len(queue[i]) + 1
      BY <2>2, <2>3
    <2>5. queue' = [queue EXCEPT ![i] = Append(queue[i], e)]
      BY <1>8 DEF AddEnqueues, Enqueue, e
    <2>6. /\ queue' \in [Priorities -> Seq(Entries)]
          /\ \A k \in Priorities : Len(queue'[k]) <= Capacity(k)
      BY <2>1, <2>3, <2>4, <2>5, CapacityIsPositive, SMTT(30)
    <2>7. /\ job_id' \in [Priorities -> Nat] /\ added' \in [Priorities -> Nat]
          /\ ticket' \in [Producers -> Nat]
      BY <1>8, <2>1, <2>2, SMTT(30) DEF AddEnqueues
    <2>8. /\ pc' = [pc EXCEPT ![p] = "enqueued"]
          /\ UNCHANGED <<mutex, waiting, paused, shutdown, finished, dropped, finished_job_id>>
          /\ UNCHANGED <<call, victim, wpc, hand, ctl, flushes, fresh, consumed>>
      BY <1>8 DEF AddEnqueues
    <2> HIDE DEF i
    <2>9. pc' \in [Producers -> {"idle", "enter", "pausing", "give_up", "discard", "discarded",
                                 "enqueued", "wait_done"}]
      BY <2>8
    <2>10. TypeOK'
      BY <2>6, <2>7, <2>8, <2>9
    <2>11. Shape'
      BY <2>1, <2>8 DEF i
    <2> QED BY <2>10, <2>11
  <1>9. CASE NotifyEnqueued(p)
    BY <1>9 DEF NotifyEnqueued, CondVars
  <1>10. CASE WaitDone(p)
    BY <1>10 DEF WaitDone, Threads, CondVars
  <1>11. CASE WaitDoneReturns(p)
    BY <1>11 DEF WaitDoneReturns
  <1> QED BY <1>1, <1>2, <1>3, <1>4, <1>5, <1>6, <1>7, <1>8, <1>9, <1>10, <1>11
          DEF ProducerStep

LEMMA TypedWorker ==
  ASSUME Typed, NEW w \in Workers, WorkerStep(w)
  PROVE  Typed'
  <1> USE NoOneAssumption DEF NoOneAssumption, Typed, TypeOK, Shape, WGoto, Wait, NotifyAll, queueVars, producerVars, workerVars,
          controlVars, jobVars
  <1>1. CASE GetWaits(w)
    BY <1>1 DEF GetWaits, Threads, CondVars
  <1>2. ASSUME NEW i \in Priorities, GetPops(w, i) PROVE Typed'
    <2> DEFINE t == [job |-> Head(queue[i]).job, id |-> Head(queue[i]).id, prio |-> i,
                     prefer |-> (i = "high" \/ Len(queue[i]) <= PreferSize)]
    <2>1. queue[i] \in Seq(Entries) /\ queue[i] # <<>>
      BY <1>2 DEF GetPops
    <2>2. /\ Head(queue[i]) \in Entries
          /\ Tail(queue[i]) \in Seq(Entries) /\ Len(Tail(queue[i])) <= Len(queue[i])
      BY <2>1
    <2>3. /\ queue' \in [Priorities -> Seq(Entries)]
          /\ \A k \in Priorities : Len(queue'[k]) <= Capacity(k)
      BY <1>2, <2>1, <2>2, CapacityIsPositive, SMTT(30) DEF GetPops
    <2>4. t \in Taken
      BY <2>2 DEF Entries, Taken
    <2>5. hand' = [hand EXCEPT ![w] = t] /\ wpc' = [wpc EXCEPT ![w] = "popped"] /\ wpc[w] = "get"
      BY <1>2 DEF GetPops
    <2> HIDE DEF t
    <2>6. hand' \in [Workers -> Taken \cup {NoOne}] /\ hand'[w] # NoOne
      BY <2>4, <2>5
    <2> QED BY <1>2, <2>3, <2>5, <2>6, SMTT(30) DEF GetPops
  <1>3. CASE NotifyPopped(w)
    BY <1>3 DEF NotifyPopped, CondVars
  <1>4. CASE Consume(w)
    <2>1. hand[w] \in Taken /\ hand[w].job \in Jobs
      BY <1>4 DEF Consume, Taken
    <2>2. consumed' \in [Jobs -> Nat]
      BY <1>4, <2>1 DEF Consume
    <2> QED BY <1>4, <2>2 DEF Consume
  <1>5. CASE Account(w)
    <2> DEFINE i == hand[w].prio
    <2>1. hand[w] \in Taken
      BY <1>5 DEF Account
    <2>2. i \in Priorities /\ hand[w].id \in Nat
      BY <2>1 DEF Taken
    <2>3. /\ finished' \in [Priorities -> Nat] /\ dropped' \in [Priorities -> Nat]
          /\ finished_job_id' \in [Priorities -> Nat]
      BY <1>5, <2>2, SMTT(30) DEF Account
    <2> QED BY <1>5, <2>3 DEF Account
  <1>6. CASE NotifyAccounted(w)
    BY <1>6 DEF NotifyAccounted, CondVars
  <1>7. CASE GetShutdown(w)
    BY <1>7 DEF GetShutdown
  <1>8. CASE NotifyLeaving(w)
    BY <1>8 DEF NotifyLeaving, CondVars
  <1> QED BY <1>1, <1>2, <1>3, <1>4, <1>5, <1>6, <1>7, <1>8 DEF WorkerStep

(* The loop of flush_and_pause puts Control to sleep at most.              *)
LEMMA FlushLoopTyped ==
  ASSUME waiting \in [CondVars -> SUBSET Threads], FlushLoop
  PROVE  waiting' \in [CondVars -> SUBSET Threads] /\ ctl' \in {"flushing", "flushed"}
<1>1. CASE Unfinished
  BY <1>1 DEF FlushLoop, Wait, Threads
<1>2. CASE ~Unfinished
  BY <1>2 DEF FlushLoop
<1> QED BY <1>1, <1>2

LEMMA TypedStep == Typed /\ [Next]_vars => Typed'
  <1> SUFFICES ASSUME Typed, [Next]_vars PROVE Typed'
    OBVIOUS
  <1> USE DEF queueVars, producerVars, workerVars, controlVars, jobVars
  <1>1. ASSUME NEW p \in Producers, NEW j \in Jobs, NEW i \in Priorities,
               NEW nd \in BOOLEAN, NEW wait \in BOOLEAN, Call(p, j, i, nd, wait)
        PROVE  Typed'
    BY <1>1 DEF Call, Goto, Typed, TypeOK, Shape, Calls
  <1>2. ASSUME NEW p \in Producers, ProducerStep(p) PROVE Typed'
    BY <1>2, TypedProducer
  <1>3. ASSUME NEW w \in Workers, WorkerStep(w) PROVE Typed'
    BY <1>3, TypedWorker
  <1>4. CASE Start
    BY <1>4 DEF Start, Typed, TypeOK, Shape
  <1>5. CASE FlushAndPause
    <2>1. flushes' \in 0..MaxFlushes
      BY <1>5, SizeAssumption DEF FlushAndPause, Typed, TypeOK, SizeAssumption
    <2>2. waiting' \in [CondVars -> SUBSET Threads] /\ ctl' \in {"flushing", "flushed"}
      <3>1. waiting \in [CondVars -> SUBSET Threads]
        BY DEF Typed, TypeOK
      <3> QED BY <1>5, <3>1, FlushLoopTyped DEF FlushAndPause
    <2> QED BY <1>5, <2>1, <2>2 DEF FlushAndPause, Typed, TypeOK, Shape
  <1>6. CASE FlushWakes
    <2>1. waiting \in [CondVars -> SUBSET Threads]
      BY DEF Typed, TypeOK
    <2>2. waiting' \in [CondVars -> SUBSET Threads] /\ ctl' \in {"flushing", "flushed"}
      BY <1>6, <2>1, FlushLoopTyped DEF FlushWakes
    <2> QED BY <1>6, <2>2 DEF FlushWakes, Typed, TypeOK, Shape
  <1>7. CASE Resume
    BY <1>7 DEF Resume, Typed, TypeOK, Shape
  <1>8. CASE NotifyResumed
    BY <1>8 DEF NotifyResumed, NotifyAll, Typed, TypeOK, Shape
  <1>9. CASE Shutdown
    BY <1>9 DEF Shutdown, NotifyShutdown, Typed, TypeOK, Shape
  <1>10. CASE Joined
    BY <1>10 DEF Joined, Typed, TypeOK, Shape
  <1>11. ASSUME NEW cv \in CondVars, NEW t \in Threads, SpuriousWakeup(cv, t) PROVE Typed'
    BY <1>11 DEF SpuriousWakeup, Typed, TypeOK, Shape
  <1>12. CASE UNCHANGED vars
    BY <1>12 DEF vars, Typed, TypeOK, Shape
  <1> QED BY <1>1, <1>2, <1>3, <1>4, <1>5, <1>6, <1>7, <1>8, <1>9, <1>10, <1>11, <1>12
          DEF Next, ControlStep

(* Every variable keeps its type, and no queue outgrows its ring buffer    *)
(* (the assertion of CpQueue::add).                                        *)
THEOREM PoolTypes == Spec => []TypeOK
  <1>1. Typed => TypeOK
    BY DEF Typed
  <1> QED BY TypedInit, TypedStep, <1>1, PTL DEF Spec

-----------------------------------------------------------------------------
(* Accounting and FlushedMeansDrained.  While flush_and_pause has paused   *)
(* the pool no job is queued, so equal totals stay equal.                  *)
PausedWhileFlushing == ctl \in {"flushing", "flushed"} => paused

Drained == Typed /\ Accounting /\ PausedWhileFlushing /\ FlushedMeansDrained

LEMMA HoldingIsFinite ==
  \A i \in Priorities : IsFiniteSet(Holding(i)) /\ Cardinality(Holding(i)) \in Nat
  BY ThreadAssumption, FS_Subset, FS_CardinalityType DEF ThreadAssumption, Holding

(* A step that changes no counter, queue or hand keeps the account.        *)
LEMMA AccountUnchanged ==
  ASSUME Accounting, UNCHANGED <<added, finished, dropped, queue, hand>>
  PROVE  Accounting'
  BY DEF Accounting, Holding

Held(i) == Cardinality(Holding(i))

(* The ways a job of priority i moves through the account.                 *)
Accepted(i) == /\ added'[i] = added[i] + 1 /\ finished'[i] = finished[i]
               /\ dropped'[i] = dropped[i]
               /\ Len(queue'[i]) = Len(queue[i]) + 1 /\ Held(i)' = Held(i)
GivenUp(i)  == /\ added'[i] = added[i] + 1 /\ finished'[i] = finished[i]
               /\ dropped'[i] = dropped[i] + 1
               /\ Len(queue'[i]) = Len(queue[i]) /\ Held(i)' = Held(i)
Discards(i) == /\ added'[i] = added[i] /\ finished'[i] = finished[i]
               /\ dropped'[i] = dropped[i] + 1
               /\ Len(queue'[i]) = Len(queue[i]) - 1 /\ Held(i)' = Held(i)
TakesUp(i)  == /\ added'[i] = added[i] /\ finished'[i] = finished[i]
               /\ dropped'[i] = dropped[i]
               /\ Len(queue'[i]) = Len(queue[i]) - 1 /\ Held(i)' = Held(i) + 1
Accounts(i) == /\ added'[i] = added[i]
               /\ finished'[i] + dropped'[i] = finished[i] + dropped[i] + 1
               /\ Len(queue'[i]) = Len(queue[i]) /\ Held(i)' = Held(i) - 1

OthersKeep(i) ==
  \A k \in Priorities \ {i} :
    /\ added'[k] = added[k] /\ finished'[k] = finished[k] /\ dropped'[k] = dropped[k]
    /\ queue'[k] = queue[k] /\ Held(k)' = Held(k)

LEMMA CountersAreNat ==
  ASSUME Typed, NEW i \in Priorities
  PROVE  /\ added[i] \in Nat /\ finished[i] \in Nat /\ dropped[i] \in Nat
         /\ queue[i] \in Seq(Entries) /\ Len(queue[i]) \in Nat /\ Held(i) \in Nat
  <1>1. queue[i] \in Seq(Entries)
    BY DEF Typed, TypeOK
  <1> QED BY <1>1, HoldingIsFinite, LenProperties DEF Typed, TypeOK, Held

LEMMA AccountMoves ==
  ASSUME Typed, Typed', Accounting, NEW i \in Priorities, OthersKeep(i),
         Accepted(i) \/ GivenUp(i) \/ Discards(i) \/ TakesUp(i) \/ Accounts(i)
  PROVE  Accounting'
  <1> DEFINE a == added[i]  f == finished[i]  d == dropped[i]  l == Len(queue[i])  c == Held(i)
             a1 == added'[i]  f1 == finished'[i]  d1 == dropped'[i]
             l1 == Len(queue'[i])  c1 == Held(i)'
  <1>1. a \in Nat /\ f \in Nat /\ d \in Nat /\ l \in Nat /\ c \in Nat
    BY CountersAreNat
  <1>2. a1 \in Nat /\ f1 \in Nat /\ d1 \in Nat /\ l1 \in Nat /\ c1 \in Nat
    <2>1. queue'[i] \in Seq(Entries) /\ Len(queue'[i]) \in Nat
      BY Typed', LenProperties DEF Typed, TypeOK
    <2>2. Held(i)' \in Nat
      <3>1. IsFiniteSet(Holding(i)')
        BY ThreadAssumption, FS_Subset DEF ThreadAssumption, Holding
      <3> QED BY <3>1, FS_CardinalityType DEF Held
    <2> QED BY <2>1, <2>2, Typed' DEF Typed, TypeOK
  <1>3. a = f + d + l + c
    BY DEF Accounting, Held
  <1>4. \/ a1 = a + 1 /\ f1 = f /\ d1 = d /\ l1 = l + 1 /\ c1 = c
        \/ a1 = a + 1 /\ f1 = f /\ d1 = d + 1 /\ l1 = l /\ c1 = c
        \/ a1 = a /\ f1 = f /\ d1 = d + 1 /\ l1 = l - 1 /\ c1 = c
        \/ a1 = a /\ f1 = f /\ d1 = d /\ l1 = l - 1 /\ c1 = c + 1
        \/ a1 = a /\ f1 + d1 = f + d + 1 /\ l1 = l /\ c1 = c - 1
    BY DEF Accepted, GivenUp, Discards, TakesUp, Accounts
  <1>5. a1 = f1 + d1 + l1 + c1
    <2> HIDE DEF a, f, d, l, c, a1, f1, d1, l1, c1
    <2> QED BY <1>1, <1>2, <1>3, <1>4
  <1>6. \A k \in Priorities \ {i} :
          added'[k] = finished'[k] + dropped'[k] + Len(queue'[k]) + Held(k)'
    BY DEF OthersKeep, Accounting, Held
  <1> QED BY <1>5, <1>6 DEF Accounting, Held

LEMMA QueueLengths ==
  ASSUME NEW q \in Seq(Entries)
  PROVE  /\ q # <<>> => Len(Tail(q)) = Len(q) - 1
         /\ \A e \in Entries : Len(Append(q, e)) = Len(q) + 1
  BY HeadTailProperties, AppendProperties

(* The cases of add_job_do_ that move a job.                               *)
LEMMA AccountAdd ==
  ASSUME Typed, Typed', Accounting, NEW p \in Producers,
         AddGivesUp(p) \/ AddDiscardsHead(p) \/ AddEnqueues(p)
  PROVE  Accounting'
  <1> SUFFICES ASSUME NEW i \in Priorities, i = call[p].prio, call[p] \in Calls PROVE Accounting'
    BY DEF AddGivesUp, AddDiscardsHead, AddEnqueues, Typed, Shape, Calls
  <1>1. UNCHANGED <<finished, hand>>
    BY DEF AddGivesUp, AddDiscardsHead, AddEnqueues, workerVars
  <1>2. \A k \in Priorities : Held(k)' = Held(k)
    BY <1>1 DEF Held, Holding
  <1>3. /\ added \in [Priorities -> Nat] /\ dropped \in [Priorities -> Nat]
        /\ queue \in [Priorities -> Seq(Entries)] /\ job_id \in [Priorities -> Nat]
    BY DEF Typed, TypeOK
  <1>4. OthersKeep(i)
    BY <1>1, <1>2, <1>3 DEF OthersKeep, AddGivesUp, AddDiscardsHead, AddEnqueues, CountGivenUp
  <1>5. CASE AddGivesUp(p)
    <2>1. GivenUp(i)
      BY <1>1, <1>2, <1>3, <1>5 DEF AddGivesUp, CountGivenUp, GivenUp
    <2> QED BY <1>4, <2>1, AccountMoves
  <1>6. CASE AddDiscardsHead(p)
    <2>1. queue[i] # <<>> /\ queue'[i] = Tail(queue[i])
      BY <1>3, <1>6, CapacityIsPositive DEF AddDiscardsHead, Full
    <2>2. Discards(i)
      BY <1>1, <1>2, <1>3, <1>6, <2>1, QueueLengths DEF AddDiscardsHead, Discards
    <2> QED BY <1>4, <2>2, AccountMoves
  <1>7. CASE AddEnqueues(p)
    <2>1. \E e \in Entries : queue'[i] = Append(queue[i], e)
      BY <1>3, <1>7, EntryOfCall DEF AddEnqueues, Enqueue
    <2>2. Accepted(i)
      BY <1>1, <1>2, <1>3, <1>7, <2>1, QueueLengths DEF AddEnqueues, Accepted
    <2> QED BY <1>4, <2>2, AccountMoves
  <1> QED BY <1>5, <1>6, <1>7

(* A worker takes a job over from the queue ...                            *)
LEMMA AccountPop ==
  ASSUME Typed, Typed', Accounting, NEW w \in Workers, NEW i \in Priorities, GetPops(w, i)
  PROVE  Accounting'
  <1>1. hand[w] = NoOne /\ hand'[w] # NoOne /\ hand'[w].prio = i
    BY DEF GetPops, WGoto, Typed, TypeOK, Shape
  <1>2. \A v \in Workers \ {w} : hand'[v] = hand[v]
    BY DEF GetPops, Typed, TypeOK
  <1>3. \A k \in Priorities : Holding(k)' = IF k = i THEN Holding(k) \cup {w} ELSE Holding(k)
    BY <1>1, <1>2 DEF Holding
  <1>4. Held(i)' = Held(i) + 1
    <2>1. Holding(i)' = Holding(i) \cup {w} /\ IsFiniteSet(Holding(i))
      BY <1>3, HoldingIsFinite
    <2>2. w \notin Holding(i)
      BY <1>1 DEF Holding
    <2> QED BY <2>1, <2>2, FS_AddElement DEF Held
  <1>5. queue[i] \in Seq(Entries) /\ queue[i] # <<>> /\ queue'[i] = Tail(queue[i])
    BY DEF GetPops, Typed, TypeOK
  <1>6. UNCHANGED <<added, finished, dropped>>
    BY DEF GetPops
  <1>7. TakesUp(i)
    BY <1>4, <1>5, <1>6, QueueLengths DEF TakesUp
  <1>8. OthersKeep(i)
    BY <1>3, <1>6 DEF OthersKeep, Held, GetPops, Typed, TypeOK
  <1> QED BY <1>7, <1>8, AccountMoves

(* ... and counts it as finished or dropped when it has consumed it.       *)
LEMMA AccountDone ==
  ASSUME Typed, Typed', Accounting, NEW w \in Workers, Account(w)
  PROVE  Accounting'
  <1>1. hand[w] # NoOne /\ hand[w] \in Taken /\ hand'[w] = NoOne
    BY DEF Account, Typed, TypeOK, Shape
  <1> SUFFICES ASSUME NEW i \in Priorities, i = hand[w].prio PROVE Accounting'
    BY <1>1 DEF Taken
  <1>2. \A v \in Workers \ {w} : hand'[v] = hand[v]
    BY DEF Account, Typed, TypeOK
  <1>3. \A k \in Priorities : Holding(k)' = IF k = i THEN Holding(k) \ {w} ELSE Holding(k)
    BY <1>1, <1>2 DEF Holding
  <1>4. Held(i)' = Held(i) - 1
    <2>1. Holding(i)' = Holding(i) \ {w} /\ IsFiniteSet(Holding(i))
      BY <1>3, HoldingIsFinite
    <2>2. w \in Holding(i)
      BY <1>1 DEF Holding
    <2> QED BY <2>1, <2>2, FS_RemoveElement DEF Held
  <1>5. finished \in [Priorities -> Nat] /\ dropped \in [Priorities -> Nat]
    BY DEF Typed, TypeOK
  <1>6. finished'[i] + dropped'[i] = finished[i] + dropped[i] + 1
    <2>1. CASE hand[w].prefer
      BY <1>5, <2>1 DEF Account
    <2>2. CASE ~hand[w].prefer
      BY <1>5, <2>2 DEF Account
    <2> QED BY <2>1, <2>2
  <1>7. UNCHANGED <<added, queue>>
    BY DEF Account
  <1>8. Accounts(i)
    BY <1>4, <1>6, <1>7 DEF Accounts
  <1>9. OthersKeep(i)
    BY <1>3, <1>5, <1>7 DEF OthersKeep, Held, Account
  <1> QED BY <1>8, <1>9, AccountMoves

LEMMA AccountStep == Typed /\ Typed' /\ Accounting /\ [Next]_vars => Accounting'
  <1> SUFFICES ASSUME Typed, Typed', Accounting, [Next]_vars PROVE Accounting'
    OBVIOUS
  <1> USE DEF queueVars, workerVars
  <1>1. ASSUME NEW p \in Producers, ProducerStep(p) PROVE Accounting'
    <2>1. CASE AddGivesUp(p) \/ AddDiscardsHead(p) \/ AddEnqueues(p)
      BY <2>1, AccountAdd
    <2>2. CASE ~(AddGivesUp(p) \/ AddDiscardsHead(p) \/ AddEnqueues(p))
      BY <1>1, <2>2, AccountUnchanged
      DEF ProducerStep, AddSeesPaused, AddWaitsPaused, AddWaitsFull, ConsumeVictim,
          NotifyDiscarded, NotifyEnqueued, WaitDone, WaitDoneReturns
    <2> QED BY <2>1, <2>2
  <1>2. ASSUME NEW w \in Workers, WorkerStep(w) PROVE Accounting'
    <2>1. CASE \E i \in Priorities : GetPops(w, i)
      BY <2>1, AccountPop
    <2>2. CASE Account(w)
      BY <2>2, AccountDone
    <2>3. CASE ~(Account(w) \/ \E i \in Priorities : GetPops(w, i))
      BY <1>2, <2>3, AccountUnchanged
      DEF WorkerStep, GetWaits, NotifyPopped, Consume, NotifyAccounted, GetShutdown, NotifyLeaving
    <2> QED BY <2>1, <2>2, <2>3
  <1>3. ASSUME NEW p \in Producers, NEW j \in Jobs, NEW i \in Priorities,
               NEW nd \in BOOLEAN, NEW wait \in BOOLEAN, Call(p, j, i, nd, wait)
        PROVE  Accounting'
    BY <1>3, AccountUnchanged DEF Call
  <1>4. CASE ControlStep \/ FlushAndPause \/ Shutdown
    BY <1>4, AccountUnchanged
    DEF ControlStep, Start, FlushWakes, Resume, NotifyResumed, Joined, FlushAndPause, Shutdown
  <1>5. ASSUME NEW cv \in CondVars, NEW t \in Threads, SpuriousWakeup(cv, t) PROVE Accounting'
    BY <1>5, AccountUnchanged DEF SpuriousWakeup
  <1>6. CASE UNCHANGED vars
    BY <1>6, AccountUnchanged DEF vars
  <1> QED BY <1>1, <1>2, <1>3, <1>4, <1>5, <1>6 DEF Next

LEMMA AccountInit == Init => Accounting
  <1> SUFFICES ASSUME Init, NEW i \in Priorities
               PROVE  added[i] = finished[i] + dropped[i] + Len(queue[i]) + Cardinality(Holding(i))
    BY DEF Accounting
  <1>1. Holding(i) = {}
    BY DEF Init, Holding
  <1>2. added[i] = 0 /\ finished[i] = 0 /\ dropped[i] = 0 /\ Len(queue[i]) = 0
    BY DEF Init
  <1> QED BY <1>1, <1>2, FS_EmptySet

(* The jobs handed over are all accounted for, in every reachable state:   *)
(* added = finished + dropped + queued + in a worker's hands.  It is what  *)
(* the assertion of flush_and_pause rests on.                              *)
THEOREM JobsAreAccountedFor == Spec => []Accounting
  <1>1. Typed /\ Accounting /\ [Next]_vars => (Typed /\ Accounting)'
    BY TypedStep, AccountStep
  <1> QED BY TypedInit, AccountInit, <1>1, PTL DEF Spec

-----------------------------------------------------------------------------
(* Equal totals mean that nothing is queued and no worker has a job ...    *)
LEMMA EqualTotals ==
  ASSUME Typed, Accounting, ~Unfinished
  PROVE  AllEmpty /\ \A w \in Workers : hand[w] = NoOne
  <1>1. "low" \in Priorities /\ "high" \in Priorities
    BY DEF Priorities
  <1> DEFINE a(i) == added[i]  f(i) == finished[i]  d(i) == dropped[i]
             l(i) == Len(queue[i])  c(i) == Held(i)
  <1>2. \A i \in Priorities :
          /\ a(i) \in Nat /\ f(i) \in Nat /\ d(i) \in Nat /\ l(i) \in Nat /\ c(i) \in Nat
          /\ a(i) = f(i) + d(i) + l(i) + c(i)
    BY CountersAreNat DEF Accounting, Held
  <1>3. a("low") + a("high") = (f("low") + f("high")) + (d("low") + d("high"))
    BY DEF Unfinished, Total
  <1>4. \A i \in Priorities : l(i) = 0 /\ c(i) = 0
    <2>1. l("low") = 0 /\ c("low") = 0 /\ l("high") = 0 /\ c("high") = 0
      <3> DEFINE al == a("low")  fl == f("low")  dl == d("low")  ll == l("low")  cl == c("low")
                 ah == a("high")  fh == f("high")  dh == d("high")  lh == l("high")  ch == c("high")
      <3>1. /\ al \in Nat /\ fl \in Nat /\ dl \in Nat /\ ll \in Nat /\ cl \in Nat
            /\ ah \in Nat /\ fh \in Nat /\ dh \in Nat /\ lh \in Nat /\ ch \in Nat
            /\ al = fl + dl + ll + cl /\ ah = fh + dh + lh + ch
            /\ al + ah = (fl + fh) + (dl + dh)
        BY <1>1, <1>2, <1>3
      <3>2. ll = 0 /\ cl = 0 /\ lh = 0 /\ ch = 0
        <4> HIDE DEF al, fl, dl, ll, cl, ah, fh, dh, lh, ch
        <4> QED BY <3>1
      <3> QED BY <3>2
    <2> QED BY <2>1 DEF Priorities
  <1>5. AllEmpty
    BY <1>4, CountersAreNat, EmptySeq DEF AllEmpty
  <1>6. \A i \in Priorities : Holding(i) = {}
    BY <1>4, HoldingIsFinite, FS_EmptySet DEF Held
  <1>7. \A w \in Workers : hand[w] = NoOne
    BY <1>6 DEF Holding, Typed, TypeOK, Taken
  <1> QED BY <1>5, <1>7

(* ... and while the pool is paused and idle nobody changes that.          *)
LEMMA FlushedStep ==
  ASSUME Typed, Typed', Accounting, PausedWhileFlushing, FlushedMeansDrained, [Next]_vars
  PROVE  PausedWhileFlushing' /\ FlushedMeansDrained'
  <1> USE DEF PausedWhileFlushing, FlushedMeansDrained, AllEmpty, queueVars, workerVars, controlVars
  <1>1. ASSUME NEW p \in Producers, ProducerStep(p)
        PROVE  PausedWhileFlushing' /\ FlushedMeansDrained'
    <2>1. UNCHANGED <<controlVars, hand>>
      BY <1>1
      DEF ProducerStep, AddSeesPaused, AddWaitsPaused, AddWaitsFull, AddGivesUp, AddDiscardsHead,
          ConsumeVictim, NotifyDiscarded, AddEnqueues, NotifyEnqueued, WaitDone, WaitDoneReturns
    <2>2. queue' = queue \/ ~paused
      BY <1>1
      DEF ProducerStep, AddSeesPaused, AddWaitsPaused, AddWaitsFull, AddGivesUp, AddDiscardsHead,
          ConsumeVictim, NotifyDiscarded, AddEnqueues, NotifyEnqueued, WaitDone, WaitDoneReturns
    <2> QED BY <2>1, <2>2
  <1>2. ASSUME NEW w \in Workers, WorkerStep(w)
        PROVE  PausedWhileFlushing' /\ FlushedMeansDrained'
    <2>1. UNCHANGED controlVars
      BY <1>2
      DEF WorkerStep, GetWaits, GetPops, NotifyPopped, Consume, Account, NotifyAccounted,
          GetShutdown, NotifyLeaving
    <2>2. ctl = "flushed" => UNCHANGED <<queue, hand>>
      BY <1>2
      DEF WorkerStep, GetWaits, GetPops, NotifyPopped, Consume, Account, NotifyAccounted,
          GetShutdown, NotifyLeaving, Typed, Shape
    <2> QED BY <2>1, <2>2
  <1>3. ASSUME NEW p \in Producers, NEW j \in Jobs, NEW i \in Priorities,
               NEW nd \in BOOLEAN, NEW wait \in BOOLEAN, Call(p, j, i, nd, wait)
        PROVE  PausedWhileFlushing' /\ FlushedMeansDrained'
    BY <1>3 DEF Call
  <1>4. CASE FlushAndPause \/ FlushWakes
    <2>1. UNCHANGED <<queue, hand>> /\ ctl' \in {"flushing", "flushed"}
          /\ (ctl' = "flushed" => ~Unfinished) /\ paused'
      BY <1>4 DEF FlushAndPause, FlushWakes, FlushLoop
    <2> QED BY <2>1, EqualTotals
  <1>5. CASE Start \/ Resume \/ NotifyResumed \/ Joined \/ Shutdown
    BY <1>5 DEF Start, Resume, NotifyResumed, Joined, Shutdown
  <1>6. ASSUME NEW cv \in CondVars, NEW t \in Threads, SpuriousWakeup(cv, t)
        PROVE  PausedWhileFlushing' /\ FlushedMeansDrained'
    BY <1>6 DEF SpuriousWakeup
  <1>7. CASE UNCHANGED vars
    BY <1>7 DEF vars
  <1> QED BY <1>1, <1>2, <1>3, <1>4, <1>5, <1>6, <1>7 DEF Next, ControlStep

(* flush_and_pause keeps its word: from its return until resume() nothing  *)
(* is queued and no worker has a job.                                      *)
THEOREM FlushDrains == Spec => []FlushedMeansDrained
  <1>1. Init => PausedWhileFlushing /\ FlushedMeansDrained
    BY DEF Init, PausedWhileFlushing, FlushedMeansDrained
  <1>2. Drained /\ [Next]_vars => Drained'
    BY TypedStep, AccountStep, FlushedStep DEF Drained
  <1>3. Init => Drained
    BY TypedInit, AccountInit, <1>1 DEF Drained
  <1>4. Drained => FlushedMeansDrained
    BY DEF Drained
  <1> QED BY <1>2, <1>3, <1>4, PTL DEF Spec

-----------------------------------------------------------------------------
(* OldestFirst.  It is not inductive alone: that a new entry is younger    *)
(* than the jobs in the workers' hands needs that no id is ahead of        *)
(* job_id_; and BlockingWaitDone, below, needs that the finished id is     *)
(* behind every queued one.                                                *)
IdsBehind ==
  \A i \in Priorities :
    /\ finished_job_id[i] <= job_id[i]
    /\ \A w \in Holding(i) : hand[w].id <= job_id[i]
    /\ \A n \in 1..Len(queue[i]) : finished_job_id[i] < queue[i][n].id

Aged == OldestFirst /\ IdsBehind

(* What the two say of one priority.                                       *)
AgedIn(i) ==
  /\ \A m, n \in 1..Len(queue[i]) : m < n => queue[i][m].id < queue[i][n].id
  /\ finished_job_id[i] <= job_id[i]
  /\ \A w \in Holding(i) : hand[w].id <= job_id[i]
  /\ \A n \in 1..Len(queue[i]) :
       /\ finished_job_id[i] < queue[i][n].id /\ queue[i][n].id <= job_id[i]
       /\ \A w \in Holding(i) : hand[w].id < queue[i][n].id

LEMMA AgedByPriority == Aged <=> \A i \in Priorities : AgedIn(i)
  BY DEF Aged, AgedIn, OldestFirst, IdsBehind

(* A step that touches neither ids nor entries of a priority.              *)
LEMMA AgedUnchanged ==
  ASSUME NEW i \in Priorities, AgedIn(i),
         queue'[i] = queue[i], job_id'[i] = job_id[i], finished_job_id'[i] = finished_job_id[i],
         \A w \in Holding(i)' : w \in Holding(i) /\ hand'[w] = hand[w]
  PROVE  AgedIn(i)'
  BY DEF AgedIn

(* The entries behind the head of a queue.                                 *)
LEMMA TailOfQueue ==
  ASSUME NEW q \in Seq(Entries), q # <<>>
  PROVE  /\ 1 \in 1..Len(q) /\ Head(q) = q[1] /\ Head(q) \in Entries
         /\ Tail(q) \in Seq(Entries) /\ Len(Tail(q)) = Len(q) - 1
         /\ \A n \in 1..Len(Tail(q)) : n + 1 \in 1..Len(q) /\ Tail(q)[n] = q[n + 1]
  <1>1. Len(q) \in Nat \ {0} /\ q[1] \in Entries
    BY EmptySeq, ElementOfSeq
  <1>2. /\ Tail(q) \in Seq(Entries) /\ Len(Tail(q)) = Len(q) - 1
        /\ \A n \in 1..Len(Tail(q)) : Tail(q)[n] = q[n + 1]
    BY HeadTailProperties
  <1> QED BY <1>1, <1>2

LEMMA EntryIds ==
  ASSUME NEW q \in Seq(Entries), NEW n \in 1..Len(q)
  PROVE  q[n] \in Entries /\ q[n].id \in Nat /\ q[n].job \in Jobs
  <1>1. q[n] \in Entries
    BY ElementOfSeq
  <1> QED BY <1>1 DEF Entries

LEMMA AgedEnqueue ==
  ASSUME Typed, NEW p \in Producers, AddEnqueues(p), NEW i \in Priorities, i = call[p].prio, AgedIn(i)
  PROVE  AgedIn(i)'
  <1> DEFINE q == queue[i]
             e == [job |-> call[p].job, id |-> job_id[i] + 1,
                   not_discardable |-> call[p].not_discardable]
  <1>1. call[p] \in Calls /\ q \in Seq(Entries) /\ job_id[i] \in Nat /\ finished_job_id[i] \in Nat
    BY DEF AddEnqueues, Typed, TypeOK, Shape
  <1>2. e \in Entries /\ e.id = job_id[i] + 1
    BY <1>1, EntryOfCall
  <1>3. /\ job_id'[i] = job_id[i] + 1 /\ finished_job_id'[i] = finished_job_id[i]
        /\ queue'[i] = Append(q, e) /\ UNCHANGED hand
    BY DEF AddEnqueues, Enqueue, Typed, TypeOK, workerVars
  <1>4. Holding(i)' = Holding(i)
    BY <1>3 DEF Holding
  <1> HIDE DEF e
  <1>5. /\ Len(queue'[i]) = Len(q) + 1 /\ queue'[i][Len(q) + 1] = e
        /\ \A n \in 1..Len(q) : queue'[i][n] = q[n]
    BY <1>1, <1>2, <1>3, AppendProperties
  <1>6. Len(q) \in Nat /\ \A n \in 1..Len(q) : q[n].id \in Nat
    BY <1>1, EntryIds, LenProperties
  <1>7. \A w \in Holding(i) : hand[w].id \in Nat
    BY DEF Holding, Typed, TypeOK, Taken
  <1>8. \A n \in 1..Len(queue'[i]) : n \in 1..Len(q) \/ n = Len(q) + 1
    BY <1>5, <1>6
  <1>9. job_id[i] < job_id'[i] /\ finished_job_id[i] <= job_id[i] /\ finished_job_id'[i] < job_id'[i]
    BY <1>1, <1>3 DEF AgedIn
  <1>10. \A n \in 1..Len(q) : q[n].id < e.id /\ q[n].id <= job_id'[i]
    <2>1. \A n \in 1..Len(q) : q[n].id <= job_id[i] /\ q[n].id \in Nat
      BY <1>6 DEF AgedIn
    <2> HIDE DEF q
    <2> QED BY <2>1, <1>1, <1>2, <1>3
  <1>11. \A w \in Holding(i) : hand[w].id < e.id /\ hand[w].id <= job_id'[i]
    BY <1>1, <1>2, <1>3, <1>7 DEF AgedIn
  <1>12. \A m, n \in 1..Len(queue'[i]) : m < n => queue'[i][m].id < queue'[i][n].id
    <2> SUFFICES ASSUME NEW m \in 1..Len(queue'[i]), NEW n \in 1..Len(queue'[i]), m < n
                 PROVE  queue'[i][m].id < queue'[i][n].id
      OBVIOUS
    <2>1. m \in 1..Len(q)
      BY <1>5, <1>6, <1>8
    <2>2. CASE n \in 1..Len(q)
      BY <2>1, <2>2, <1>5 DEF AgedIn
    <2>3. CASE n = Len(q) + 1
      BY <2>1, <2>3, <1>5, <1>10
    <2> QED BY <2>2, <2>3, <1>8
  <1>13. \A n \in 1..Len(queue'[i]) :
           /\ finished_job_id'[i] < queue'[i][n].id /\ queue'[i][n].id <= job_id'[i]
           /\ \A w \in Holding(i) : hand[w].id < queue'[i][n].id
    <2> SUFFICES ASSUME NEW n \in 1..Len(queue'[i])
                 PROVE  /\ finished_job_id'[i] < queue'[i][n].id /\ queue'[i][n].id <= job_id'[i]
                        /\ \A w \in Holding(i) : hand[w].id < queue'[i][n].id
      OBVIOUS
    <2>1. CASE n \in 1..Len(q)
      BY <2>1, <1>3, <1>5, <1>10 DEF AgedIn
    <2>2. CASE n = Len(q) + 1
      <3>1. queue'[i][n] = e
        BY <2>2, <1>5
      <3>2. e.id = job_id'[i] /\ job_id'[i] \in Nat
        <4>1. job_id[i] \in Nat /\ e.id = job_id[i] + 1 /\ job_id'[i] = job_id[i] + 1
          BY <1>1, <1>2, <1>3, Zenon
        <4> QED BY <4>1
      <3> QED BY <3>1, <3>2, <1>9, <1>11
    <2> QED BY <2>1, <2>2, <1>8
  <1>14. finished_job_id'[i] <= job_id'[i]
    BY <1>1, <1>3, <1>9
  <1>15. UNCHANGED hand
    BY <1>3
  <1> QED BY <1>4, <1>11, <1>12, <1>13, <1>14, <1>15 DEF AgedIn

(* Without its head a queue is as it was, and all of it is younger.        *)
LEMMA AgedTail ==
  ASSUME NEW i \in Priorities, queue[i] \in Seq(Entries), queue[i] # <<>>, AgedIn(i)
  PROVE  /\ \A m, n \in 1..Len(Tail(queue[i])) : m < n => Tail(queue[i])[m].id < Tail(queue[i])[n].id
         /\ \A n \in 1..Len(Tail(queue[i])) :
              /\ finished_job_id[i] < Tail(queue[i])[n].id /\ Tail(queue[i])[n].id <= job_id[i]
              /\ Head(queue[i]).id < Tail(queue[i])[n].id
              /\ \A w \in Holding(i) : hand[w].id < Tail(queue[i])[n].id
         /\ Head(queue[i]).id <= job_id[i]
  <1> DEFINE q == queue[i]
  <1>1. /\ 1 \in 1..Len(q) /\ Head(q) = q[1] /\ Len(q) \in Nat /\ Len(Tail(q)) = Len(q) - 1
        /\ \A n \in 1..Len(Tail(q)) : n + 1 \in 1..Len(q) /\ Tail(q)[n] = q[n + 1] /\ 1 < n + 1
    BY TailOfQueue, LenProperties
  <1>2. \A m, n \in 1..Len(Tail(q)) : m < n => m + 1 < n + 1
    BY <1>1
  <1>3. /\ \A m, n \in 1..Len(q) : m < n => q[m].id < q[n].id
        /\ \A n \in 1..Len(q) :
             /\ finished_job_id[i] < q[n].id /\ q[n].id <= job_id[i]
             /\ \A w \in Holding(i) : hand[w].id < q[n].id
    BY DEF AgedIn
  <1> HIDE DEF q
  <1>4. \A m, n \in 1..Len(Tail(q)) : m < n => Tail(q)[m].id < Tail(q)[n].id
    BY <1>1, <1>2, <1>3
  <1>5. \A n \in 1..Len(Tail(q)) :
          /\ finished_job_id[i] < Tail(q)[n].id /\ Tail(q)[n].id <= job_id[i]
          /\ Head(q).id < Tail(q)[n].id
          /\ \A w \in Holding(i) : hand[w].id < Tail(q)[n].id
    BY <1>1, <1>3
  <1>6. Head(q).id <= job_id[i]
    BY <1>1, <1>3
  <1> QED BY <1>4, <1>5, <1>6 DEF q

LEMMA AgedDiscard ==
  ASSUME Typed, NEW p \in Producers, AddDiscardsHead(p), NEW i \in Priorities, i = call[p].prio,
         AgedIn(i)
  PROVE  AgedIn(i)'
  <1> DEFINE q == queue[i]
  <1>1. q \in Seq(Entries) /\ q # <<>>
    BY CapacityIsPositive DEF AddDiscardsHead, Full, Typed, TypeOK
  <1>2. /\ job_id'[i] = job_id[i] /\ finished_job_id'[i] = Head(q).id
        /\ queue'[i] = Tail(q) /\ UNCHANGED hand
    BY DEF AddDiscardsHead, Typed, TypeOK, workerVars
  <1>3. Holding(i)' = Holding(i)
    BY <1>2 DEF Holding
  <1>4. Len(q) \in Nat /\ \A n \in 1..Len(q) : q[n].id \in Nat
    BY <1>1, EntryIds, LenProperties
  <1>5. job_id[i] \in Nat /\ finished_job_id[i] \in Nat
    BY DEF Typed, TypeOK
  <1> DEFINE t == Tail(q)
             h == Head(q)
  <1>6. /\ \A m, n \in 1..Len(t) : m < n => t[m].id < t[n].id
        /\ \A n \in 1..Len(t) : /\ t[n].id <= job_id[i] /\ h.id < t[n].id
                                /\ \A w \in Holding(i) : hand[w].id < t[n].id
        /\ h.id <= job_id[i]
    BY <1>1, AgedTail
  <1> HIDE DEF t, h, q
  <1>7. \A w \in Holding(i) : hand[w].id <= job_id[i]
    BY DEF AgedIn
  <1>8. queue'[i] = t /\ finished_job_id'[i] = h.id
    BY <1>2, Zenon DEF t, h, q
  <1> QED BY <1>2, <1>3, <1>6, <1>7, <1>8, Zenon DEF AgedIn

LEMMA AgedPop ==
  ASSUME Typed, NEW w \in Workers, NEW i \in Priorities, GetPops(w, i), AgedIn(i)
  PROVE  AgedIn(i)'
  <1> DEFINE q == queue[i]
  <1>1. q \in Seq(Entries) /\ q # <<>>
    BY DEF GetPops, Typed, TypeOK
  <1>2. /\ job_id'[i] = job_id[i] /\ finished_job_id'[i] = finished_job_id[i] /\ queue'[i] = Tail(q)
        /\ hand'[w].id = Head(q).id
    BY DEF GetPops, Typed, TypeOK
  <1>3. \A v \in Holding(i)' : v = w \/ (v \in Holding(i) /\ hand'[v] = hand[v])
    BY DEF GetPops, Typed, TypeOK, Holding
  <1>4. Len(q) \in Nat /\ \A n \in 1..Len(q) : q[n].id \in Nat
    BY <1>1, EntryIds, LenProperties
  <1>5. /\ \A m, n \in 1..Len(queue'[i]) : m < n => queue'[i][m].id < queue'[i][n].id
        /\ \A n \in 1..Len(queue'[i]) :
             /\ finished_job_id'[i] < queue'[i][n].id /\ queue'[i][n].id <= job_id'[i]
             /\ hand'[w].id < queue'[i][n].id
             /\ \A v \in Holding(i) : hand[v].id < queue'[i][n].id
    BY <1>1, <1>2, AgedTail
  <1>6. hand'[w].id <= job_id'[i] /\ finished_job_id'[i] <= job_id'[i]
    BY <1>1, <1>2, TailOfQueue DEF AgedIn
  <1> QED BY <1>2, <1>3, <1>5, <1>6 DEF AgedIn

LEMMA AgedAccount ==
  ASSUME Typed, NEW w \in Workers, Account(w), NEW i \in Priorities, i = hand[w].prio, AgedIn(i)
  PROVE  AgedIn(i)'
  <1>1. /\ job_id'[i] = job_id[i] /\ finished_job_id'[i] = hand[w].id /\ queue'[i] = queue[i]
    BY DEF Account, Typed, TypeOK
  <1>2. w \in Holding(i)
    BY DEF Account, Holding, Typed, Shape
  <1>3. \A v \in Holding(i)' : v \in Holding(i) /\ hand'[v] = hand[v]
    BY DEF Account, Typed, TypeOK, Holding
  <1>4. /\ hand[w].id <= job_id[i]
        /\ \A n \in 1..Len(queue[i]) : hand[w].id < queue[i][n].id
    BY <1>2 DEF AgedIn
  <1> QED BY <1>1, <1>3, <1>4 DEF AgedIn

LEMMA AgedStep == Typed /\ Aged /\ [Next]_vars => Aged'
  <1> SUFFICES ASSUME Typed, Aged, [Next]_vars, NEW i \in Priorities, AgedIn(i) PROVE AgedIn(i)'
    BY AgedByPriority DEF Aged, AgedIn, OldestFirst, IdsBehind
  <1> DEFINE Same == /\ queue'[i] = queue[i] /\ job_id'[i] = job_id[i]
                     /\ finished_job_id'[i] = finished_job_id[i]
                     /\ \A w \in Holding(i)' : w \in Holding(i) /\ hand'[w] = hand[w]
  <1> USE DEF queueVars, workerVars
  <1>1. ASSUME NEW p \in Producers, ProducerStep(p) PROVE AgedIn(i)'
    <2>1. CASE AddEnqueues(p) /\ i = call[p].prio
      BY <2>1, AgedEnqueue
    <2>2. CASE AddDiscardsHead(p) /\ i = call[p].prio
      BY <2>2, AgedDiscard
    <2>3. CASE (AddEnqueues(p) \/ AddDiscardsHead(p)) /\ i # call[p].prio
      <3>1. Same
        BY <2>3 DEF AddEnqueues, AddDiscardsHead, Holding, Typed, TypeOK
      <3> QED BY <3>1, AgedUnchanged
    <2>4. CASE ~AddEnqueues(p) /\ ~AddDiscardsHead(p)
      <3>1. Same
        BY <1>1, <2>4
        DEF ProducerStep, AddSeesPaused, AddWaitsPaused, AddWaitsFull, AddGivesUp, ConsumeVictim,
            NotifyDiscarded, NotifyEnqueued, WaitDone, WaitDoneReturns, Holding
      <3> QED BY <3>1, AgedUnchanged
    <2> QED BY <2>1, <2>2, <2>3, <2>4
  <1>2. ASSUME NEW w \in Workers, WorkerStep(w) PROVE AgedIn(i)'
    <2>1. ASSUME NEW k \in Priorities, GetPops(w, k) PROVE AgedIn(i)'
      <3>1. CASE i = k
        BY <2>1, <3>1, AgedPop
      <3>2. CASE i # k
        <4>1. Same
          BY <2>1, <3>2 DEF GetPops, Holding, Typed, TypeOK
        <4> QED BY <4>1, AgedUnchanged
      <3> QED BY <3>1, <3>2
    <2>2. CASE Account(w) /\ i = hand[w].prio
      BY <2>2, AgedAccount
    <2>3. CASE Account(w) /\ i # hand[w].prio
      <3>1. Same
        BY <2>3 DEF Account, Holding, Typed, TypeOK
      <3> QED BY <3>1, AgedUnchanged
    <2>4. CASE ~(Account(w) \/ \E k \in Priorities : GetPops(w, k))
      <3>1. Same
        BY <1>2, <2>4
        DEF WorkerStep, GetWaits, NotifyPopped, Consume, NotifyAccounted, GetShutdown,
            NotifyLeaving, Holding
      <3> QED BY <3>1, AgedUnchanged
    <2> QED BY <2>1, <2>2, <2>3, <2>4
  <1>3. CASE UNCHANGED <<queueVars, hand>>
    <2>1. Same
      BY <1>3 DEF Holding
    <2> QED BY <2>1, AgedUnchanged
  <1>4. UNCHANGED <<queueVars, hand>> \/ (\E p \in Producers : ProducerStep(p)) \/ (\E w \in Workers : WorkerStep(w))
    BY DEF Next, Call, ControlStep, Start, FlushWakes, Resume, NotifyResumed, Joined,
           FlushAndPause, Shutdown, SpuriousWakeup, vars
  <1> QED BY <1>1, <1>2, <1>3, <1>4

(* Jobs of a priority are taken in the order they were accepted, and what  *)
(* a worker has in its hands is older than what is queued, for any number  *)
(* of workers and in either mode.                                          *)
THEOREM JobsLeaveInOrder == Spec => []OldestFirst
  <1>1. Init => Aged
    BY DEF Init, Aged, OldestFirst, IdsBehind, Holding
  <1>2. Typed /\ Aged /\ [Next]_vars => (Typed /\ Aged)'
    BY TypedStep, AgedStep
  <1>3. Aged => OldestFirst
    BY DEF Aged
  <1> QED BY TypedInit, <1>1, <1>2, <1>3, PTL DEF Spec

-----------------------------------------------------------------------------
(* NotDiscardableReachesWorker.  Only two steps take an entry out of a     *)
(* queue: the discard of a head that may go, and a worker's pop.           *)
StillQueued(i, n) == \E m \in 1..Len(queue'[i]) : queue'[i][m] = queue[i][n]
ReachedWorker(i, n) ==
  \E w \in Workers : /\ hand'[w] # NoOne /\ hand'[w].prio = i
                     /\ hand'[w].id = queue[i][n].id /\ hand'[w].job = queue[i][n].job
Discarded(i, n) ==
  /\ \E p \in Producers : AddDiscardsHead(p)
  /\ ~queue[i][n].not_discardable

LEMMA OnlyHeadLeaves ==
  ASSUME NEW i \in Priorities, queue[i] \in Seq(Entries), queue[i] # <<>>,
         queue'[i] = Tail(queue[i]), NEW n \in 1..Len(queue[i]), n # 1
  PROVE  StillQueued(i, n)
  <1>1. /\ Len(queue[i]) \in Nat /\ Len(Tail(queue[i])) = Len(queue[i]) - 1
        /\ \A m \in 1..Len(Tail(queue[i])) : Tail(queue[i])[m] = queue[i][m + 1]
    BY TailOfQueue, LenProperties
  <1>2. n - 1 \in 1..Len(Tail(queue[i])) /\ (n - 1) + 1 = n
    BY <1>1
  <1> QED BY <1>1, <1>2 DEF StillQueued

LEMMA QueuedStep ==
  ASSUME Typed, [Next]_vars, NEW i \in Priorities, NEW n \in 1..Len(queue[i])
  PROVE  StillQueued(i, n) \/ ReachedWorker(i, n) \/ Discarded(i, n)
  <1> USE DEF queueVars
  <1>1. queue[i] \in Seq(Entries) /\ Len(queue[i]) \in Nat
    BY LenProperties DEF Typed, TypeOK
  <1>2. CASE queue'[i] = queue[i]
    BY <1>2 DEF StillQueued
  <1>3. ASSUME NEW p \in Producers, AddEnqueues(p), i = call[p].prio
        PROVE  StillQueued(i, n)
    <2>1. \E e \in Entries : queue'[i] = Append(queue[i], e)
      <3>1. call[p] \in Calls /\ job_id[i] \in Nat
        BY <1>3 DEF AddEnqueues, Typed, TypeOK, Shape
      <3> QED BY <1>3, <3>1, EntryOfCall DEF AddEnqueues, Enqueue, Typed, TypeOK
    <2> QED BY <1>1, <2>1, AppendProperties DEF StillQueued
  <1>4. ASSUME NEW p \in Producers, AddDiscardsHead(p), i = call[p].prio
        PROVE  StillQueued(i, n) \/ Discarded(i, n)
    <2>1. queue[i] # <<>> /\ queue'[i] = Tail(queue[i])
      BY <1>4, CapacityIsPositive DEF AddDiscardsHead, Full, Typed, TypeOK
    <2>2. CASE n = 1
      BY <1>1, <1>4, <2>1, <2>2, TailOfQueue DEF AddDiscardsHead, HeadMayGo, Discarded
    <2>3. CASE n # 1
      BY <1>1, <2>1, <2>3, OnlyHeadLeaves
    <2> QED BY <2>2, <2>3
  <1>5. ASSUME NEW w \in Workers, GetPops(w, i)
        PROVE  StillQueued(i, n) \/ ReachedWorker(i, n)
    <2>1. queue[i] # <<>> /\ queue'[i] = Tail(queue[i])
      BY <1>5 DEF GetPops, Typed, TypeOK
    <2>2. CASE n = 1
      <3>1. hand'[w] # NoOne
        BY <1>5, TypedStep DEF GetPops, WGoto, Typed, TypeOK, Shape
      <3>2. /\ hand'[w].job = Head(queue[i]).job /\ hand'[w].id = Head(queue[i]).id
            /\ hand'[w].prio = i
        BY <1>5 DEF GetPops, Typed, TypeOK
      <3> QED BY <2>1, <2>2, <3>1, <3>2, <1>1, TailOfQueue DEF ReachedWorker
    <2>3. CASE n # 1
      BY <1>1, <2>1, <2>3, OnlyHeadLeaves
    <2> QED BY <2>2, <2>3
  <1>6. \/ queue'[i] = queue[i]
        \/ \E p \in Producers : (AddEnqueues(p) \/ AddDiscardsHead(p)) /\ i = call[p].prio
        \/ \E w \in Workers : GetPops(w, i)
    <2>1. \/ queue' = queue
          \/ \E p \in Producers : AddEnqueues(p) \/ AddDiscardsHead(p)
          \/ \E w \in Workers, k \in Priorities : GetPops(w, k)
      BY DEF Next, Call, ControlStep, Start, FlushWakes, Resume, NotifyResumed, Joined,
             FlushAndPause, Shutdown, SpuriousWakeup, vars,
             ProducerStep, AddSeesPaused, AddWaitsPaused, AddWaitsFull, AddGivesUp, ConsumeVictim,
             NotifyDiscarded, NotifyEnqueued, WaitDone, WaitDoneReturns,
             WorkerStep, GetWaits, NotifyPopped, Consume, Account, NotifyAccounted, GetShutdown,
             NotifyLeaving
    <2>2. \A p \in Producers : (AddEnqueues(p) \/ AddDiscardsHead(p)) /\ i # call[p].prio
                                 => queue'[i] = queue[i]
      BY DEF AddEnqueues, AddDiscardsHead, Typed, TypeOK
    <2>3. \A w \in Workers, k \in Priorities : GetPops(w, k) /\ i # k => queue'[i] = queue[i]
      BY DEF GetPops, Typed, TypeOK
    <2> QED BY <2>1, <2>2, <2>3
  <1> QED BY <1>2, <1>3, <1>4, <1>5, <1>6

(* A job that must not be discarded leaves its queue in a worker's hands   *)
(* only, whoever else adds, gives up or discards meanwhile.                *)
THEOREM NotDiscardableIsKept == Spec => NotDiscardableReachesWorker
  <1>1. Typed /\ [Next]_vars =>
          [\A i \in Priorities : \A n \in 1..Len(queue[i]) :
             (queue[i][n].not_discardable /\ \A m \in 1..Len(queue'[i]) : queue'[i][m] # queue[i][n])
               => \E w \in Workers : hand'[w] # NoOne /\ hand'[w].job = queue[i][n].job]_vars
    BY QueuedStep DEF StillQueued, ReachedWorker, Discarded
  <1>2. Typed /\ [Next]_vars => Typed'
    BY TypedStep
  <1> QED BY TypedInit, <1>1, <1>2, PTL DEF Spec, NotDiscardableReachesWorker

-----------------------------------------------------------------------------
(* ImplementsService.  A job that was handed over and is not consumed yet  *)
(* is in exactly one place: with its caller, with the caller that gives it *)
(* up or discards it, in a queue, or in a worker's hands before consume.   *)
CallerHas == {<<"caller", p, 0, call[p].job>> :
                p \in {p \in Producers : pc[p] \in {"enter", "pausing", "discard", "discarded"}}}
VictimHas == {<<"victim", p, 0, victim[p]>> :
                p \in {p \in Producers : pc[p] \in {"give_up", "discard"}}}
Queued(i) == {<<"queue", i, queue[i][n].id, queue[i][n].job>> : n \in 1..Len(queue[i])}
QueueHas  == UNION {Queued(i) : i \in Priorities}
WorkerHas == {<<"worker", w, 0, hand[w].job>> :
                w \in {w \in Workers : wpc[w] \in {"popped", "consume"}}}

Whereabouts == CallerHas \cup VictimHas \cup QueueHas \cup WorkerHas

JobAt(a) == a[4]

(* A ledger of whereabouts: every job once, and exactly the jobs that are  *)
(* neither fresh nor consumed.                                             *)
Ledger(at, unused, count) ==
  /\ \A a, b \in at : JobAt(a) = JobAt(b) => a = b
  /\ \A a \in at : JobAt(a) \in Jobs \ unused /\ count[JobAt(a)] = 0
  /\ \A j \in Jobs \ unused : count[j] = 0 => \E a \in at : JobAt(a) = j
  /\ \A j \in Jobs : count[j] <= 1
  /\ \A j \in unused : count[j] = 0

EveryJobOnce == Ledger(Whereabouts, fresh, consumed)

LEMMA LedgerEnter ==
  ASSUME NEW at, NEW unused, NEW count, Ledger(at, unused, count),
         NEW a, JobAt(a) \in unused, JobAt(a) \in Jobs
  PROVE  Ledger(at \cup {a}, unused \ {JobAt(a)}, count)
  BY DEF Ledger

LEMMA LedgerMove ==
  ASSUME NEW at, NEW unused, NEW count, Ledger(at, unused, count),
         NEW a \in at, NEW b, JobAt(b) = JobAt(a)
  PROVE  Ledger((at \ {a}) \cup {b}, unused, count)
  BY DEF Ledger

LEMMA LedgerConsume ==
  ASSUME NEW at, NEW unused, NEW count \in [Jobs -> Nat], Ledger(at, unused, count),
         NEW a \in at
  PROVE  Ledger(at \ {a}, unused, [count EXCEPT ![JobAt(a)] = @ + 1])
  <1> DEFINE j == JobAt(a)
             after == [count EXCEPT ![j] = @ + 1]
  <1>1. j \in Jobs \ unused /\ count[j] = 0
    BY DEF Ledger
  <1>2. after[j] = 1 /\ \A k \in Jobs \ {j} : after[k] = count[k]
    BY <1>1
  <1>3. \A b \in at : JobAt(b) = j <=> b = a
    BY DEF Ledger
  <1> HIDE DEF j, after
  <1> QED BY <1>1, <1>2, <1>3 DEF Ledger

(* How the parts of the whereabouts change.                                *)
LEMMA CallerLeaves ==
  ASSUME NEW p \in Producers, pc[p] = "enter", pc' = [pc EXCEPT ![p] = pc'[p]],
         pc'[p] \notin {"enter", "pausing", "discard", "discarded"}, call' = call,
         DOMAIN pc = Producers
  PROVE  /\ CallerHas' = CallerHas \ {<<"caller", p, 0, call[p].job>>}
         /\ <<"caller", p, 0, call[p].job>> \in CallerHas
  BY DEF CallerHas

LEMMA CallerSame ==
  ASSUME call' = call,
         \A p \in Producers : pc'[p] \in {"enter", "pausing", "discard", "discarded"}
                                <=> pc[p] \in {"enter", "pausing", "discard", "discarded"}
  PROVE  CallerHas' = CallerHas
  BY DEF CallerHas

LEMMA VictimSame ==
  ASSUME victim' = victim,
         \A p \in Producers : pc'[p] \in {"give_up", "discard"} <=> pc[p] \in {"give_up", "discard"}
  PROVE  VictimHas' = VictimHas
  BY DEF VictimHas

LEMMA VictimChosen ==
  ASSUME NEW p \in Producers, NEW j, pc[p] = "enter", pc' = [pc EXCEPT ![p] = pc'[p]],
         pc'[p] \in {"give_up", "discard"}, victim' = [victim EXCEPT ![p] = j],
         DOMAIN pc = Producers, DOMAIN victim = Producers
  PROVE  VictimHas' = VictimHas \cup {<<"victim", p, 0, j>>}
  BY DEF VictimHas

LEMMA QueueSame ==
  ASSUME queue' = queue
  PROVE  QueueHas' = QueueHas
  BY DEF QueueHas, Queued

LEMMA QueueGrows ==
  ASSUME queue \in [Priorities -> Seq(Entries)], NEW i \in Priorities, NEW e \in Entries,
         queue' = [queue EXCEPT ![i] = Append(@, e)]
  PROVE  QueueHas' = QueueHas \cup {<<"queue", i, e.id, e.job>>}
  <1>1. /\ Len(queue'[i]) = Len(queue[i]) + 1 /\ queue'[i][Len(queue[i]) + 1] = e
        /\ \A n \in 1..Len(queue[i]) : queue'[i][n] = queue[i][n]
        /\ Len(queue[i]) \in Nat
    BY AppendProperties, LenProperties
  <1>2. \A n : n \in 1..Len(queue'[i]) <=> n \in 1..Len(queue[i]) \/ n = Len(queue[i]) + 1
    BY <1>1
  <1>3. Queued(i)' = Queued(i) \cup {<<"queue", i, e.id, e.job>>}
    BY <1>1, <1>2 DEF Queued
  <1>4. \A k \in Priorities \ {i} : Queued(k)' = Queued(k)
    BY DEF Queued
  <1> QED BY <1>3, <1>4 DEF QueueHas

LEMMA QueueShrinks ==
  ASSUME queue \in [Priorities -> Seq(Entries)], NEW i \in Priorities, queue[i] # <<>>,
         queue' = [queue EXCEPT ![i] = Tail(@)], AgedIn(i)
  PROVE  /\ QueueHas' = QueueHas \ {<<"queue", i, Head(queue[i]).id, Head(queue[i]).job>>}
         /\ <<"queue", i, Head(queue[i]).id, Head(queue[i]).job>> \in QueueHas
  <1> DEFINE q == queue[i]
             h == <<"queue", i, Head(q).id, Head(q).job>>
  <1>1. /\ 1 \in 1..Len(q) /\ Head(q) = q[1] /\ Len(q) \in Nat /\ Len(Tail(q)) = Len(q) - 1
        /\ \A n \in 1..Len(Tail(q)) : n + 1 \in 1..Len(q) /\ Tail(q)[n] = q[n + 1]
    BY TailOfQueue, LenProperties
  <1>2. queue'[i] = Tail(q)
    OBVIOUS
  <1>3. \A n \in 1..Len(Tail(q)) : Head(q).id # Tail(q)[n].id
    <2>1. \A n \in 1..Len(Tail(q)) : Head(q).id < Tail(q)[n].id
      BY AgedTail
    <2>2. Head(q).id \in Nat /\ \A n \in 1..Len(Tail(q)) : Tail(q)[n].id \in Nat
      BY <1>1, EntryIds
    <2> QED BY <2>1, <2>2
  <1>4. \A n \in 1..Len(q) \ {1} : n - 1 \in 1..Len(Tail(q)) /\ q[n] = Tail(q)[n - 1]
    BY <1>1
  <1>5. Queued(i)' = Queued(i) \ {h} /\ h \in Queued(i)
    <2>1. h \in Queued(i)
      BY <1>1 DEF Queued
    <2>2. Queued(i)' \subseteq Queued(i) \ {h}
      BY <1>1, <1>2, <1>3 DEF Queued
    <2>3. Queued(i) \ {h} \subseteq Queued(i)'
      <3> SUFFICES ASSUME NEW n \in 1..Len(q), n # 1
                   PROVE  <<"queue", i, q[n].id, q[n].job>> \in Queued(i)'
        BY <1>1 DEF Queued
      <3> QED BY <1>2, <1>4 DEF Queued
    <2> QED BY <2>1, <2>2, <2>3
  <1>6. \A k \in Priorities \ {i} : Queued(k)' = Queued(k) /\ h \notin Queued(k)
    BY DEF Queued
  <1> HIDE DEF h
  <1>7. \A x : x \in QueueHas' <=> x \in QueueHas /\ x # h
    BY <1>5, <1>6, Zenon DEF QueueHas
  <1>8. h \in QueueHas /\ QueueHas' = QueueHas \ {h}
    BY <1>5, <1>7 DEF QueueHas
  <1> QED BY <1>8 DEF h

LEMMA WorkerSame ==
  ASSUME \A w \in Workers : /\ wpc'[w] \in {"popped", "consume"} <=> wpc[w] \in {"popped", "consume"}
                            /\ wpc[w] \in {"popped", "consume"} => hand'[w] = hand[w]
  PROVE  WorkerHas' = WorkerHas
  BY DEF WorkerHas

(* Nobody is inside a call once shutdown() runs, the workers leave only    *)
(* then and only when nothing is queued, and it returns after them.        *)
OrderlyEnd ==
  /\ shutdown => ctl \in {"init", "joining", "down"}
  /\ ctl \in {"joining", "down"} => \A p \in Producers : pc[p] = "idle"
  /\ \A w \in Workers : wpc[w] \in {"leaving", "exited"} => AllEmpty /\ ctl \in {"joining", "down"}
  /\ ctl = "down" => \A w \in Workers : wpc[w] = "exited"

LEMMA OrderlyStep == Typed /\ OrderlyEnd /\ [Next]_vars => OrderlyEnd'
  <1> SUFFICES ASSUME Typed, OrderlyEnd, [Next]_vars PROVE OrderlyEnd'
    OBVIOUS
  <1> USE DEF queueVars, producerVars, workerVars, controlVars, Goto, WGoto
  <1>1. ASSUME NEW p \in Producers, ProducerStep(p) PROVE OrderlyEnd'
    <2>1. ctl \notin {"joining", "down"} /\ UNCHANGED <<controlVars, workerVars>>
      BY <1>1
      DEF ProducerStep, AddSeesPaused, AddWaitsPaused, AddWaitsFull, AddGivesUp, AddDiscardsHead,
          ConsumeVictim, NotifyDiscarded, AddEnqueues, NotifyEnqueued, WaitDone, WaitDoneReturns,
          OrderlyEnd
    <2> QED BY <2>1 DEF OrderlyEnd
  <1>2. ASSUME NEW w \in Workers, WorkerStep(w) PROVE OrderlyEnd'
    <2>1. UNCHANGED <<controlVars, producerVars>>
      BY <1>2
      DEF WorkerStep, GetWaits, GetPops, NotifyPopped, Consume, Account, NotifyAccounted,
          GetShutdown, NotifyLeaving
    <2>2. ctl \in {"joining", "down"} => \A p \in Producers : pc'[p] = "idle"
      BY <2>1 DEF OrderlyEnd
    <2>3. AllEmpty => AllEmpty'
      BY <1>2
      DEF WorkerStep, GetWaits, GetPops, NotifyPopped, Consume, Account, NotifyAccounted,
          GetShutdown, NotifyLeaving, AllEmpty
    <2>4. wpc[w] # "exited" /\ \A v \in Workers \ {w} : wpc'[v] = wpc[v]
      BY <1>2
      DEF WorkerStep, GetWaits, GetPops, NotifyPopped, Consume, Account, NotifyAccounted,
          GetShutdown, NotifyLeaving, Typed, TypeOK
    <2>5. wpc'[w] \in {"leaving", "exited"} => AllEmpty /\ ctl \in {"joining", "down"}
      <3>1. wpc'[w] \in {"leaving", "exited"} =>
              wpc[w] = "leaving" \/ (wpc[w] = "get" /\ AllEmpty /\ shutdown)
        BY <1>2
        DEF WorkerStep, GetWaits, GetPops, NotifyPopped, Consume, Account, NotifyAccounted,
            GetShutdown, NotifyLeaving, Typed, TypeOK
      <3> QED BY <3>1 DEF OrderlyEnd, Typed, Shape
    <2> QED BY <2>1, <2>2, <2>3, <2>4, <2>5 DEF OrderlyEnd
  <1>3. ASSUME NEW p \in Producers, NEW j \in Jobs, NEW i \in Priorities,
               NEW nd \in BOOLEAN, NEW wait \in BOOLEAN, Call(p, j, i, nd, wait)
        PROVE  OrderlyEnd'
    BY <1>3 DEF Call, OrderlyEnd, AllEmpty
  <1>4. CASE ControlStep \/ FlushAndPause \/ Shutdown
    <2>1. UNCHANGED <<queue, producerVars>>
      BY <1>4
      DEF ControlStep, Start, FlushWakes, Resume, NotifyResumed, Joined, FlushAndPause, Shutdown
    <2>2. CASE Start
      BY <2>1, <2>2 DEF Start, OrderlyEnd
    <2>3. CASE ~Start
      <3>1. UNCHANGED wpc
        BY <1>4, <2>3
        DEF ControlStep, FlushWakes, Resume, NotifyResumed, Joined, FlushAndPause, Shutdown
      <3> QED
        BY <1>4, <2>1, <2>3, <3>1
        DEF ControlStep, FlushWakes, Resume, NotifyResumed, Joined, FlushAndPause, FlushLoop,
            Shutdown, OrderlyEnd, AllEmpty
    <2> QED BY <2>2, <2>3
  <1>5. ASSUME NEW cv \in CondVars, NEW t \in Threads, SpuriousWakeup(cv, t) PROVE OrderlyEnd'
    BY <1>5 DEF SpuriousWakeup, OrderlyEnd, AllEmpty
  <1>6. CASE UNCHANGED vars
    BY <1>6 DEF vars, OrderlyEnd, AllEmpty
  <1> QED BY <1>1, <1>2, <1>3, <1>4, <1>5, <1>6 DEF Next

ServiceInv == Typed /\ Aged /\ EveryJobOnce /\ OrderlyEnd

LEMMA ServiceInit == Init => ServiceInv /\ Service!SInit
  <1> SUFFICES ASSUME Init PROVE ServiceInv /\ Service!SInit
    OBVIOUS
  <1>1. Whereabouts = {}
    <2>1. \A i \in Priorities : 1..Len(queue[i]) = {}
      BY DEF Init
    <2> QED BY <2>1 DEF Init, Whereabouts, CallerHas, VictimHas, QueueHas, Queued, WorkerHas
  <1>2. EveryJobOnce
    BY <1>1 DEF Init, EveryJobOnce, Ledger
  <1>3. Aged
    BY DEF Init, Aged, OldestFirst, IdsBehind, Holding
  <1>4. OrderlyEnd
    BY DEF Init, OrderlyEnd
  <1>5. Service!SInit
    BY DEF Init, Service!SInit
  <1> QED BY TypedInit, <1>2, <1>3, <1>4, <1>5 DEF ServiceInv

(* A job changes its place only, or nothing at all.                        *)
Rearranged == Ledger(Whereabouts', fresh, consumed) /\ UNCHANGED <<fresh, consumed>>

LEMMA RearrangedIsStutter ==
  ASSUME Rearranged, UNCHANGED ctl \/ (ctl # "down" /\ ctl' # "down")
  PROVE  EveryJobOnce' /\ UNCHANGED Service!svars
  BY DEF Rearranged, EveryJobOnce, Service!svars

(* A job is consumed: by a worker, or by the caller that drops it.         *)
LEMMA ConsumedIsStep ==
  ASSUME ServiceInv, NEW a \in Whereabouts, Whereabouts' = Whereabouts \ {a},
         fresh' = fresh, consumed' = [consumed EXCEPT ![JobAt(a)] = @ + 1],
         ctl # "down", UNCHANGED ctl
  PROVE  EveryJobOnce' /\ Service!SNext
  <1> DEFINE j == JobAt(a)
  <1>1. consumed \in [Jobs -> Nat]
    BY DEF ServiceInv, Typed, TypeOK
  <1>2. EveryJobOnce'
    BY <1>1, LedgerConsume DEF ServiceInv, EveryJobOnce
  <1>3. j \in Jobs \ fresh /\ consumed[j] = 0
    BY DEF ServiceInv, EveryJobOnce, Ledger
  <1>4. consumed'[j] = 1 /\ \A k \in Jobs \ {j} : consumed'[k] = consumed[k]
    BY <1>1, <1>3
  <1> HIDE DEF j
  <1>5. Service!ConsumeJob(j)
    BY <1>3, <1>4 DEF Service!ConsumeJob, j
  <1> QED BY <1>2, <1>3, <1>5 DEF Service!SNext

LEMMA HandedOverIsStep ==
  ASSUME ServiceInv, NEW p \in Producers, NEW j \in Jobs, NEW i \in Priorities,
         NEW nd \in BOOLEAN, NEW wait \in BOOLEAN, Call(p, j, i, nd, wait)
  PROVE  EveryJobOnce' /\ Service!SNext
  <1> DEFINE a == <<"caller", p, 0, j>>
  <1>1. call'[p].job = j /\ pc[p] = "idle" /\ pc'[p] = "enter" /\ j \in fresh
        /\ \A q \in Producers \ {p} : pc'[q] = pc[q] /\ call'[q] = call[q]
    BY DEF Call, Goto, ServiceInv, Typed, TypeOK
  <1>2. CallerHas' = CallerHas \cup {a}
    BY <1>1 DEF CallerHas
  <1>3. VictimHas' = VictimHas /\ QueueHas' = QueueHas /\ WorkerHas' = WorkerHas
    <2>1. VictimHas' = VictimHas
      BY <1>1, VictimSame DEF Call
    <2>2. QueueHas' = QueueHas
      BY QueueSame DEF Call, queueVars
    <2>3. WorkerHas' = WorkerHas
      BY WorkerSame DEF Call, workerVars
    <2> QED BY <2>1, <2>2, <2>3
  <1>4. Whereabouts' = Whereabouts \cup {a}
    BY <1>2, <1>3 DEF Whereabouts
  <1>5. JobAt(a) = j
    BY DEF JobAt
  <1> HIDE DEF a
  <1>6. EveryJobOnce'
    BY <1>1, <1>4, <1>5, LedgerEnter DEF Call, ServiceInv, EveryJobOnce
  <1>7. consumed[j] = 0
    BY <1>1 DEF ServiceInv, EveryJobOnce, Ledger
  <1>8. ctl # "down" /\ ctl' # "down"
    BY DEF Call, controlVars
  <1>9. Service!HandOver(j)
    BY <1>1, <1>7, <1>8 DEF Call, Service!HandOver
  <1> QED BY <1>6, <1>9 DEF Service!SNext

LEMMA Kinds ==
  /\ \A a \in CallerHas : a[1] = "caller"
  /\ \A a \in VictimHas : a[1] = "victim"
  /\ \A a \in QueueHas : a[1] = "queue"
  /\ \A a \in WorkerHas : a[1] = "worker"
  BY DEF CallerHas, VictimHas, QueueHas, Queued, WorkerHas

(* A job goes from one place to another.                                   *)
LEMMA Moves ==
  ASSUME EveryJobOnce, NEW a \in Whereabouts, NEW b, JobAt(b) = JobAt(a),
         Whereabouts' = (Whereabouts \ {a}) \cup {b}, UNCHANGED <<fresh, consumed, ctl>>
  PROVE  EveryJobOnce' /\ UNCHANGED Service!svars
  <1>1. Rearranged
    BY LedgerMove DEF Rearranged, EveryJobOnce
  <1> QED BY <1>1, RearrangedIsStutter

LEMMA Stays ==
  ASSUME EveryJobOnce, Whereabouts' = Whereabouts, UNCHANGED <<fresh, consumed>>,
         UNCHANGED ctl \/ (ctl # "down" /\ ctl' # "down")
  PROVE  EveryJobOnce' /\ UNCHANGED Service!svars
  BY RearrangedIsStutter DEF Rearranged, EveryJobOnce

LEMMA ServiceProducer ==
  ASSUME ServiceInv, NEW p \in Producers, ProducerStep(p)
  PROVE  EveryJobOnce' /\ [Service!SNext]_(Service!svars)
  <1> USE DEF queueVars, producerVars, workerVars, controlVars, jobVars, Goto
  <1>1. EveryJobOnce /\ Typed /\ DOMAIN pc = Producers /\ DOMAIN victim = Producers
    BY DEF ServiceInv, Typed, TypeOK
  <1>2. CASE AddGivesUp(p)
    <2> DEFINE a == <<"caller", p, 0, call[p].job>>
               b == <<"victim", p, 0, call[p].job>>
    <2>1. pc[p] = "enter" /\ pc' = [pc EXCEPT ![p] = "give_up"] /\ pc'[p] = "give_up"
      BY <1>1, <1>2 DEF AddGivesUp
    <2>2. CallerHas' = CallerHas \ {a} /\ a \in CallerHas
      BY <1>1, <1>2, <2>1, CallerLeaves DEF AddGivesUp
    <2>3. VictimHas' = VictimHas \cup {b}
      BY <1>1, <1>2, <2>1, VictimChosen DEF AddGivesUp
    <2>4. QueueHas' = QueueHas /\ WorkerHas' = WorkerHas
      BY <1>2, QueueSame, WorkerSame DEF AddGivesUp
    <2>5. JobAt(a) = JobAt(b) /\ a[1] = "caller" /\ b[1] = "victim"
      BY DEF JobAt
    <2> HIDE DEF a, b
    <2>6. a \in Whereabouts /\ Whereabouts' = (Whereabouts \ {a}) \cup {b}
      BY <2>2, <2>3, <2>4, <2>5, Kinds DEF Whereabouts
    <2> QED BY <1>1, <1>2, <2>5, <2>6, Moves DEF AddGivesUp
  <1>3. CASE AddDiscardsHead(p)
    <2> DEFINE i == call[p].prio
               h == Head(queue[i])
               a == <<"queue", i, h.id, h.job>>
               b == <<"victim", p, 0, h.job>>
    <2>1. i \in Priorities /\ queue[i] # <<>> /\ queue \in [Priorities -> Seq(Entries)] /\ AgedIn(i)
      BY <1>1, <1>3, CapacityIsPositive, AgedByPriority
      DEF AddDiscardsHead, Full, ServiceInv, Typed, TypeOK, Shape, Calls
    <2>2. pc[p] = "enter" /\ pc' = [pc EXCEPT ![p] = "discard"] /\ pc'[p] = "discard"
      BY <1>1, <1>3 DEF AddDiscardsHead
    <2>3. queue' = [queue EXCEPT ![i] = Tail(@)]
      BY <1>3 DEF AddDiscardsHead
    <2>4. QueueHas' = QueueHas \ {a} /\ a \in QueueHas
      BY <2>1, <2>3, QueueShrinks
    <2>5. VictimHas' = VictimHas \cup {b}
      BY <1>1, <1>3, <2>2, VictimChosen DEF AddDiscardsHead
    <2>6. CallerHas' = CallerHas
      BY <1>1, <1>3, <2>2, CallerSame DEF AddDiscardsHead
    <2>7. WorkerHas' = WorkerHas
      BY <1>3, WorkerSame DEF AddDiscardsHead
    <2>8. JobAt(a) = JobAt(b) /\ a[1] = "queue" /\ b[1] = "victim"
      BY DEF JobAt
    <2> HIDE DEF a, b
    <2>9. a \in Whereabouts /\ Whereabouts' = (Whereabouts \ {a}) \cup {b}
      BY <2>4, <2>5, <2>6, <2>7, <2>8, Kinds DEF Whereabouts
    <2> QED BY <1>1, <1>3, <2>8, <2>9, Moves DEF AddDiscardsHead
  <1>4. CASE AddEnqueues(p)
    <2> DEFINE i == call[p].prio
               e == [job |-> call[p].job, id |-> job_id[i] + 1,
                     not_discardable |-> call[p].not_discardable]
               a == <<"caller", p, 0, call[p].job>>
               b == <<"queue", i, e.id, e.job>>
    <2>1. i \in Priorities /\ queue \in [Priorities -> Seq(Entries)] /\ e \in Entries
      <3>1. call[p] \in Calls /\ job_id \in [Priorities -> Nat] /\ queue \in [Priorities -> Seq(Entries)]
        BY <1>1, <1>4 DEF AddEnqueues, Typed, TypeOK, Shape
      <3>2. i \in Priorities
        BY <3>1 DEF Calls
      <3>3. job_id[i] \in Nat
        BY <3>1, <3>2
      <3> QED BY <3>1, <3>2, <3>3, EntryOfCall
    <2>2. pc[p] = "enter" /\ pc' = [pc EXCEPT ![p] = "enqueued"] /\ pc'[p] = "enqueued"
      BY <1>1, <1>4 DEF AddEnqueues
    <2>3. JobAt(a) = JobAt(b) /\ a[1] = "caller" /\ b[1] = "queue"
      BY DEF JobAt
    <2>4. queue' = [queue EXCEPT ![i] = Append(@, e)]
      BY <1>4 DEF AddEnqueues, Enqueue
    <2>5. QueueHas' = QueueHas \cup {b}
      <3> HIDE DEF e
      <3> QED BY <2>1, <2>4, QueueGrows
    <2>6. CallerHas' = CallerHas \ {a} /\ a \in CallerHas
      BY <1>1, <1>4, <2>2, CallerLeaves DEF AddEnqueues
    <2>7. VictimHas' = VictimHas
      BY <1>1, <1>4, <2>2, VictimSame DEF AddEnqueues
    <2>8. WorkerHas' = WorkerHas
      BY <1>4, WorkerSame DEF AddEnqueues
    <2> HIDE DEF a, b, e
    <2>9. a \in Whereabouts /\ Whereabouts' = (Whereabouts \ {a}) \cup {b}
      BY <2>3, <2>5, <2>6, <2>7, <2>8, Kinds DEF Whereabouts
    <2> QED BY <1>1, <1>4, <2>3, <2>9, Moves DEF AddEnqueues
  <1>5. CASE ConsumeVictim(p)
    <2> DEFINE a == <<"victim", p, 0, victim[p]>>
    <2>1. /\ pc[p] \in {"give_up", "discard"} /\ pc'[p] \in {"idle", "discarded"}
          /\ pc'[p] = "idle" <=> pc[p] = "give_up"
          /\ \A q \in Producers \ {p} : pc'[q] = pc[q] /\ victim'[q] = victim[q]
      BY <1>1, <1>5 DEF ConsumeVictim
    <2>2. VictimHas' = VictimHas \ {a} /\ a \in VictimHas
      BY <2>1 DEF VictimHas
    <2>3. CallerHas' = CallerHas
      BY <1>5, <2>1, CallerSame DEF ConsumeVictim
    <2>4. QueueHas' = QueueHas /\ WorkerHas' = WorkerHas
      BY <1>5, QueueSame, WorkerSame DEF ConsumeVictim
    <2>5. JobAt(a) = victim[p] /\ a[1] = "victim"
      BY DEF JobAt
    <2>6. ctl # "down"
      BY <2>1 DEF ServiceInv, OrderlyEnd
    <2> HIDE DEF a
    <2>7. a \in Whereabouts /\ Whereabouts' = Whereabouts \ {a}
      BY <2>2, <2>3, <2>4, <2>5, Kinds DEF Whereabouts
    <2> QED BY <1>5, <2>5, <2>6, <2>7, ConsumedIsStep DEF ConsumeVictim
  <1>6. CASE ~(AddGivesUp(p) \/ AddDiscardsHead(p) \/ AddEnqueues(p) \/ ConsumeVictim(p))
    <2>1. UNCHANGED <<victim, call, queue, workerVars, controlVars, jobVars>>
      BY <1>6
      DEF ProducerStep, AddSeesPaused, AddWaitsPaused, AddWaitsFull, NotifyDiscarded,
          NotifyEnqueued, WaitDone, WaitDoneReturns
    <2>2. \A q \in Producers :
            /\ pc'[q] \in {"enter", "pausing", "discard", "discarded"}
                 <=> pc[q] \in {"enter", "pausing", "discard", "discarded"}
            /\ pc'[q] \in {"give_up", "discard"} <=> pc[q] \in {"give_up", "discard"}
      BY <1>1, <1>6
      DEF ProducerStep, AddSeesPaused, AddWaitsPaused, AddWaitsFull, NotifyDiscarded,
          NotifyEnqueued, WaitDone, WaitDoneReturns
    <2>3. Whereabouts' = Whereabouts
      BY <2>1, <2>2, CallerSame, VictimSame, QueueSame, WorkerSame DEF Whereabouts
    <2> QED BY <1>1, <2>1, <2>3, Stays
  <1> QED BY <1>2, <1>3, <1>4, <1>5, <1>6

LEMMA ServiceWorker ==
  ASSUME ServiceInv, NEW w \in Workers, WorkerStep(w)
  PROVE  EveryJobOnce' /\ [Service!SNext]_(Service!svars)
  <1> USE DEF queueVars, producerVars, workerVars, controlVars, jobVars, WGoto
  <1>1. EveryJobOnce /\ Typed /\ wpc \in [Workers -> {"off", "get", "popped", "consume", "account",
                                                      "accounted", "leaving", "exited"}]
    BY DEF ServiceInv, Typed, TypeOK
  <1>2. ASSUME NEW i \in Priorities, GetPops(w, i)
        PROVE  EveryJobOnce' /\ [Service!SNext]_(Service!svars)
    <2> DEFINE h == Head(queue[i])
               a == <<"queue", i, h.id, h.job>>
               b == <<"worker", w, 0, h.job>>
    <2>1. queue[i] # <<>> /\ queue \in [Priorities -> Seq(Entries)] /\ AgedIn(i)
          /\ queue' = [queue EXCEPT ![i] = Tail(@)]
      BY <1>2, AgedByPriority DEF GetPops, ServiceInv, Typed, TypeOK
    <2>2. QueueHas' = QueueHas \ {a} /\ a \in QueueHas
      BY <2>1, QueueShrinks
    <2>3. /\ wpc[w] = "get" /\ wpc'[w] = "popped" /\ hand'[w].job = h.job
          /\ \A v \in Workers \ {w} : wpc'[v] = wpc[v] /\ hand'[v] = hand[v]
      BY <1>1, <1>2 DEF GetPops, Typed, TypeOK
    <2>4. WorkerHas' = WorkerHas \cup {b}
      BY <2>3 DEF WorkerHas
    <2>5. CallerHas' = CallerHas
      BY <1>2, CallerSame DEF GetPops
    <2>6. VictimHas' = VictimHas
      BY <1>2, VictimSame DEF GetPops
    <2>7. JobAt(a) = JobAt(b) /\ a[1] = "queue" /\ b[1] = "worker"
      BY DEF JobAt
    <2> HIDE DEF a, b
    <2>8. a \in Whereabouts /\ Whereabouts' = (Whereabouts \ {a}) \cup {b}
      BY <2>2, <2>4, <2>5, <2>6, <2>7, Kinds DEF Whereabouts
    <2> QED BY <1>1, <1>2, <2>7, <2>8, Moves DEF GetPops
  <1>3. CASE Consume(w)
    <2> DEFINE a == <<"worker", w, 0, hand[w].job>>
    <2>1. /\ wpc[w] = "consume" /\ wpc'[w] = "account" /\ hand' = hand
          /\ \A v \in Workers \ {w} : wpc'[v] = wpc[v]
      BY <1>1, <1>3 DEF Consume
    <2>2. WorkerHas' = WorkerHas \ {a} /\ a \in WorkerHas
      BY <2>1 DEF WorkerHas
    <2>3. CallerHas' = CallerHas /\ QueueHas' = QueueHas
      BY <1>3, CallerSame, QueueSame DEF Consume
    <2>4. VictimHas' = VictimHas
      BY <1>3, VictimSame DEF Consume
    <2>5. JobAt(a) = hand[w].job /\ a[1] = "worker"
      BY DEF JobAt
    <2>6. ctl # "down"
      BY <2>1 DEF ServiceInv, OrderlyEnd
    <2> HIDE DEF a
    <2>7. a \in Whereabouts /\ Whereabouts' = Whereabouts \ {a}
      BY <2>2, <2>3, <2>4, <2>5, Kinds DEF Whereabouts
    <2> QED BY <1>3, <2>5, <2>6, <2>7, ConsumedIsStep DEF Consume
  <1>4. CASE ~(Consume(w) \/ \E i \in Priorities : GetPops(w, i))
    <2>1. UNCHANGED <<queue, producerVars, controlVars, jobVars>>
      BY <1>4
      DEF WorkerStep, GetWaits, NotifyPopped, Account, NotifyAccounted, GetShutdown, NotifyLeaving
    <2>2. \A v \in Workers :
            /\ wpc'[v] \in {"popped", "consume"} <=> wpc[v] \in {"popped", "consume"}
            /\ wpc[v] \in {"popped", "consume"} => hand'[v] = hand[v]
      BY <1>1, <1>4
      DEF WorkerStep, GetWaits, NotifyPopped, Account, NotifyAccounted, GetShutdown, NotifyLeaving,
          Typed, TypeOK
    <2>3. Whereabouts' = Whereabouts
      BY <2>1, <2>2, CallerSame, VictimSame, QueueSame, WorkerSame DEF Whereabouts
    <2> QED BY <1>1, <2>1, <2>3, Stays
  <1> QED BY <1>2, <1>3, <1>4

(* shutdown() returns with nothing outstanding.                            *)
LEMMA JoinedIsClose ==
  ASSUME ServiceInv, Joined
  PROVE  EveryJobOnce' /\ Service!SNext
  <1> USE DEF queueVars, producerVars, workerVars, controlVars, jobVars
  <1>1. Whereabouts' = Whereabouts
    BY CallerSame, VictimSame, QueueSame, WorkerSame DEF Joined, Whereabouts
  <1>2. EveryJobOnce'
    BY <1>1 DEF Joined, ServiceInv, EveryJobOnce
  <1>3. AllEmpty /\ \A p \in Producers : pc[p] = "idle"
    BY ThreadAssumption DEF ThreadAssumption, Joined, ServiceInv, OrderlyEnd
  <1>4. Whereabouts = {}
    <2>1. CallerHas = {} /\ VictimHas = {}
      BY <1>3 DEF CallerHas, VictimHas
    <2>2. QueueHas = {}
      <3>1. \A i \in Priorities : 1..Len(queue[i]) = {}
        BY <1>3 DEF AllEmpty
      <3> QED BY <3>1 DEF QueueHas, Queued
    <2>3. WorkerHas = {}
      BY DEF WorkerHas, Joined
    <2> QED BY <2>1, <2>2, <2>3 DEF Whereabouts
  <1>5. {j \in Jobs \ fresh : consumed[j] = 0} = {}
    BY <1>4 DEF ServiceInv, EveryJobOnce, Ledger
  <1>6. Service!Close
    BY <1>5 DEF Joined, Service!Close
  <1> QED BY <1>2, <1>6 DEF Service!SNext

LEMMA ServiceStep ==
  ASSUME ServiceInv, [Next]_vars
  PROVE  EveryJobOnce' /\ [Service!SNext]_(Service!svars)
  <1> USE DEF queueVars, producerVars, workerVars, controlVars, jobVars
  <1>1. ASSUME NEW p \in Producers, ProducerStep(p)
        PROVE  EveryJobOnce' /\ [Service!SNext]_(Service!svars)
    BY <1>1, ServiceProducer
  <1>2. ASSUME NEW w \in Workers, WorkerStep(w)
        PROVE  EveryJobOnce' /\ [Service!SNext]_(Service!svars)
    BY <1>2, ServiceWorker
  <1>3. ASSUME NEW p \in Producers, NEW j \in Jobs, NEW i \in Priorities,
               NEW nd \in BOOLEAN, NEW wait \in BOOLEAN, Call(p, j, i, nd, wait)
        PROVE  EveryJobOnce' /\ [Service!SNext]_(Service!svars)
    BY <1>3, HandedOverIsStep
  <1>4. CASE Joined
    BY <1>4, JoinedIsClose
  <1>5. ASSUME UNCHANGED <<queue, producerVars, jobVars, hand>>,
               UNCHANGED ctl \/ (ctl # "down" /\ ctl' # "down"),
               UNCHANGED wpc \/ Start
        PROVE  EveryJobOnce' /\ [Service!SNext]_(Service!svars)
    <2>1. WorkerHas' = WorkerHas
      BY <1>5, WorkerSame DEF Start, ServiceInv, Typed, Shape
    <2>2. Whereabouts' = Whereabouts
      BY <1>5, <2>1, CallerSame, VictimSame, QueueSame DEF Whereabouts
    <2> QED BY <1>5, <2>2, Stays DEF ServiceInv
  <1>6. CASE Start \/ FlushWakes \/ Resume \/ NotifyResumed \/ FlushAndPause \/ Shutdown
    BY <1>5, <1>6
    DEF Start, FlushWakes, Resume, NotifyResumed, FlushAndPause, FlushLoop, Shutdown
  <1>7. ASSUME NEW cv \in CondVars, NEW t \in Threads, SpuriousWakeup(cv, t)
        PROVE  EveryJobOnce' /\ [Service!SNext]_(Service!svars)
    BY <1>5, <1>7 DEF SpuriousWakeup
  <1>8. CASE UNCHANGED vars
    BY <1>5, <1>8 DEF vars
  <1> QED BY <1>1, <1>2, <1>3, <1>4, <1>6, <1>7, <1>8 DEF Next, ControlStep

(* The pool implements the service its callers rely on: whatever they hand *)
(* over is consumed exactly once, by a worker or by the caller that drops  *)
(* it, and when shutdown() has returned nothing is outstanding.            *)
THEOREM PoolServesJobs == Spec => ImplementsService
  <1>1. ServiceInv /\ [Next]_vars => ServiceInv' /\ [Service!SNext]_(Service!svars)
    BY ServiceStep, TypedStep, AgedStep, OrderlyStep DEF ServiceInv
  <1> QED BY ServiceInit, <1>1, PTL DEF Spec, ImplementsService, Service!SSpec

-----------------------------------------------------------------------------
(* BlockingWaitDone.  In a blocking pool nothing is discarded, so the job  *)
(* of a call that has queued it goes from the queue through a worker's     *)
(* hands to its consumption, and with one worker finished_job_id reaches   *)
(* its id last.                                                            *)
InQueue(i, id, j) == \E n \in 1..Len(queue[i]) : queue[i][n].id = id /\ queue[i][n].job = j
InHands(i, id, j) == \E w \in Holding(i) : hand[w].id = id /\ hand[w].job = j

OnItsWay(p) ==
  \/ InQueue(call[p].prio, ticket[p], call[p].job)
  \/ InHands(call[p].prio, ticket[p], call[p].job)
  \/ consumed[call[p].job] = 1

WaitsForItsJob ==
  /\ \A w \in Workers : wpc[w] = "account" => consumed[hand[w].job] = 1
  /\ \A p \in Producers : pc[p] # "idle" /\ call[p].wait_done => SyncAllowed
  /\ \A p \in Producers : pc[p] = "wait_done" => call[p].wait_done
  /\ Blocking => /\ \A p \in Producers : pc[p] \notin {"give_up", "discard"}
                 /\ SyncAllowed => \A i \in Priorities : \A w \in Holding(i) :
                                     finished_job_id[i] < hand[w].id
                 /\ \A p \in Producers : pc[p] \in {"enqueued", "wait_done"} => OnItsWay(p)

LEMMA ConsumedStays ==
  ASSUME ServiceInv, [Next]_vars, NEW j \in Jobs, consumed[j] = 1
  PROVE  consumed'[j] = 1
  <1>1. [Service!SNext]_(Service!svars)
    BY ServiceStep
  <1>2. consumed \in [Jobs -> Nat]
    BY DEF ServiceInv, Typed, TypeOK
  <1> QED BY <1>1, <1>2 DEF Service!SNext, Service!HandOver, Service!ConsumeJob, Service!Close,
                            Service!svars

(* Where the workers are, and what they hold, is their own business.       *)
LEMMA OnlyWorkersMove ==
  ASSUME [Next]_vars
  PROVE  (\E w \in Workers : WorkerStep(w)) \/ Start \/ UNCHANGED workerVars
  <1>1. ASSUME NEW p \in Producers, ProducerStep(p) PROVE UNCHANGED workerVars
    <2>1. CASE AddSeesPaused(p) \/ AddWaitsPaused(p) \/ AddWaitsFull(p) \/ AddGivesUp(p)
      BY <2>1 DEF AddSeesPaused, AddWaitsPaused, AddWaitsFull, AddGivesUp, workerVars
    <2>2. CASE AddDiscardsHead(p) \/ ConsumeVictim(p) \/ NotifyDiscarded(p)
      BY <2>2 DEF AddDiscardsHead, ConsumeVictim, NotifyDiscarded, workerVars
    <2>3. CASE AddEnqueues(p) \/ NotifyEnqueued(p) \/ WaitDone(p) \/ WaitDoneReturns(p)
      BY <2>3 DEF AddEnqueues, NotifyEnqueued, WaitDone, WaitDoneReturns, workerVars
    <2> QED BY <1>1, <2>1, <2>2, <2>3, Zenon DEF ProducerStep
  <1>2. ASSUME NEW p \in Producers, NEW j \in Jobs, NEW i \in Priorities,
               NEW nd \in BOOLEAN, NEW wait \in BOOLEAN, Call(p, j, i, nd, wait)
        PROVE  UNCHANGED workerVars
    BY <1>2 DEF Call, workerVars
  <1>3. CASE FlushWakes \/ Resume \/ NotifyResumed \/ Joined \/ FlushAndPause \/ Shutdown
    BY <1>3
    DEF FlushWakes, Resume, NotifyResumed, Joined, FlushAndPause, FlushLoop, Shutdown, workerVars
  <1>4. ASSUME NEW cv \in CondVars, NEW t \in Threads, SpuriousWakeup(cv, t)
        PROVE  UNCHANGED workerVars
    BY <1>4 DEF SpuriousWakeup, workerVars
  <1>5. CASE UNCHANGED vars
    BY <1>5 DEF vars
  <1> QED BY <1>1, <1>2, <1>3, <1>4, <1>5, Zenon DEF Next, ControlStep

LEMMA HeldUntilAccounted ==
  ASSUME Typed, [Next]_vars, NEW w \in Workers, hand[w] # NoOne
  PROVE  (Account(w) /\ wpc[w] = "account") \/ hand'[w] = hand[w]
  <1>1. wpc[w] \in {"popped", "consume", "account"} /\ wpc[w] # "get"
    BY DEF Typed, Shape
  <1>2. ASSUME NEW v \in Workers, WorkerStep(v)
        PROVE  (Account(w) /\ wpc[w] = "account") \/ hand'[w] = hand[w]
    <2>1. hand \in [Workers -> Taken \cup {NoOne}]
      BY DEF Typed, TypeOK
    <2>2. CASE v = w
      BY <1>1, <1>2, <2>2
      DEF WorkerStep, GetWaits, GetPops, NotifyPopped, Consume, Account, NotifyAccounted,
          GetShutdown, NotifyLeaving
    <2>3. CASE v # w
      BY <1>2, <2>1, <2>3
      DEF WorkerStep, GetWaits, GetPops, NotifyPopped, Consume, Account, NotifyAccounted,
          GetShutdown, NotifyLeaving, workerVars
    <2> QED BY <2>2, <2>3
  <1>3. CASE UNCHANGED workerVars \/ Start
    BY <1>3 DEF workerVars, Start
  <1> QED BY <1>2, <1>3, OnlyWorkersMove

LEMMA StillOnItsWay ==
  ASSUME ServiceInv, WaitsForItsJob, [Next]_vars, Blocking, NEW p \in Producers, call[p] \in Calls,
         OnItsWay(p), call'[p] = call[p], ticket'[p] = ticket[p]
  PROVE  OnItsWay(p)'
  <1> DEFINE i == call[p].prio  id == ticket[p]  j == call[p].job
  <1>1. i \in Priorities /\ j \in Jobs
    BY DEF Calls
  <1>2. Typed
    BY DEF ServiceInv
  <1>3. CASE consumed[j] = 1
    BY <1>1, <1>3, ConsumedStays DEF OnItsWay
  <1>4. CASE InHands(i, id, j)
    <2>1. PICK w \in Holding(i) : hand[w].id = id /\ hand[w].job = j
      BY <1>4 DEF InHands
    <2>2. w \in Workers /\ hand[w] # NoOne /\ hand[w].prio = i
      BY DEF Holding
    <2>3. CASE wpc[w] = "account"
      <3>1. consumed[j] = 1
        BY <2>1, <2>2, <2>3 DEF WaitsForItsJob
      <3> QED BY <1>1, <3>1, ConsumedStays DEF OnItsWay
    <2>4. CASE hand'[w] = hand[w]
      <3>1. InHands(i, id, j)'
        BY <2>1, <2>2, <2>4 DEF InHands, Holding
      <3> QED BY <3>1 DEF OnItsWay
    <2> QED BY <1>2, <2>2, <2>3, <2>4, HeldUntilAccounted
  <1>5. CASE InQueue(i, id, j)
    <2>1. PICK n \in 1..Len(queue[i]) : queue[i][n].id = id /\ queue[i][n].job = j
      BY <1>5 DEF InQueue
    <2>2. ~Discarded(i, n)
      BY DEF Discarded, AddDiscardsHead, CallBlocks
    <2>3. CASE StillQueued(i, n)
      <3>1. InQueue(i, id, j)'
        BY <2>1, <2>3 DEF StillQueued, InQueue
      <3> QED BY <3>1 DEF OnItsWay
    <2>4. CASE ReachedWorker(i, n)
      <3>1. InHands(i, id, j)'
        BY <2>1, <2>4 DEF ReachedWorker, InHands, Holding
      <3> QED BY <3>1 DEF OnItsWay
    <2> QED BY <1>1, <1>2, <2>2, <2>3, <2>4, QueuedStep
  <1> QED BY <1>3, <1>4, <1>5 DEF OnItsWay

(* With one worker its job is the only one taken and not yet accounted.    *)
LEMMA SingleWorker ==
  ASSUME SyncAllowed, NEW v \in Workers, NEW w \in Workers
  PROVE  v = w
  BY ThreadAssumption, FS_Singleton DEF SyncAllowed, ThreadAssumption

LEMMA FinishedIsBehind ==
  ASSUME ServiceInv, ServiceInv', [Next]_vars, SyncAllowed, Blocking,
         NEW i \in Priorities, NEW w \in Holding(i)',
         \A v \in Holding(i) : finished_job_id[i] < hand[v].id
  PROVE  finished_job_id'[i] < hand'[w].id
  <1> USE DEF queueVars, workerVars
  <1>1. w \in Workers /\ Typed /\ Aged /\ AgedIn(i)
    BY AgedByPriority DEF Holding, ServiceInv
  <1>2. CASE UNCHANGED <<hand, finished_job_id>>
    BY <1>2 DEF Holding
  <1>3. ASSUME NEW v \in Workers, NEW k \in Priorities, GetPops(v, k)
        PROVE  finished_job_id'[i] < hand'[w].id
    <2>1. v = w
      BY <1>1, SingleWorker
    <2>2. hand'[w].prio = k /\ hand'[w].id = Head(queue[k]).id /\ finished_job_id' = finished_job_id
      BY <1>1, <1>3, <2>1 DEF GetPops, Typed, TypeOK
    <2>3. k = i
      BY <2>2 DEF Holding
    <2>4. queue[i] \in Seq(Entries) /\ queue[i] # <<>>
      BY <1>1, <1>3, <2>3 DEF GetPops, Typed, TypeOK
    <2>5. Head(queue[i]) = queue[i][1] /\ 1 \in 1..Len(queue[i])
      BY <2>4, TailOfQueue
    <2> QED BY <1>1, <2>2, <2>3, <2>5 DEF AgedIn
  <1>4. ASSUME NEW v \in Workers, Account(v)
        PROVE  finished_job_id'[i] < hand'[w].id
    <2>1. v = w
      BY <1>1, SingleWorker
    <2>2. hand'[w] = NoOne
      BY <1>1, <1>4, <2>1 DEF Account, Typed, TypeOK
    <2> QED BY <2>2 DEF Holding
  <1>5. \A p \in Producers : ~AddDiscardsHead(p)
    BY DEF AddDiscardsHead, CallBlocks
  <1>6. \/ UNCHANGED <<hand, finished_job_id>>
        \/ \E v \in Workers : Account(v) \/ \E k \in Priorities : GetPops(v, k)
    <2>1. ASSUME NEW p \in Producers, ProducerStep(p)
          PROVE  UNCHANGED <<hand, finished_job_id>>
      BY <1>5, <2>1
      DEF ProducerStep, AddSeesPaused, AddWaitsPaused, AddWaitsFull, AddGivesUp,
          ConsumeVictim, NotifyDiscarded, AddEnqueues, NotifyEnqueued, WaitDone, WaitDoneReturns
    <2>2. ASSUME NEW v \in Workers, WorkerStep(v)
          PROVE  \/ UNCHANGED <<hand, finished_job_id>>
                 \/ Account(v) \/ \E k \in Priorities : GetPops(v, k)
      BY <2>2
      DEF WorkerStep, GetWaits, NotifyPopped, Consume, NotifyAccounted, GetShutdown, NotifyLeaving
    <2>3. CASE ~((\E p \in Producers : ProducerStep(p)) \/ (\E v \in Workers : WorkerStep(v)))
      BY <2>3
      DEF Next, Call, ControlStep, Start, FlushWakes, Resume, NotifyResumed, Joined,
          FlushAndPause, Shutdown, SpuriousWakeup, vars
    <2> QED BY <2>1, <2>2, <2>3
  <1> QED BY <1>2, <1>3, <1>4, <1>6

LEMMA WaitsStep ==
  ASSUME ServiceInv, ServiceInv', WaitsForItsJob, [Next]_vars
  PROVE  WaitsForItsJob'
  <1> USE DEF queueVars, producerVars, workerVars, jobVars, Goto, WGoto
  <1>1. Typed /\ Typed' /\ DOMAIN pc = Producers /\ DOMAIN call = Producers
    BY DEF ServiceInv, Typed, TypeOK
  <1>2. ASSUME NEW w \in Workers, wpc'[w] = "account" PROVE consumed'[hand'[w].job] = 1
    <2>1. hand'[w] # NoOne /\ hand'[w] \in Taken \cup {NoOne} /\ hand'[w].job \in Jobs
      BY <1>1, <1>2 DEF Typed, TypeOK, Shape, Taken
    <2>2. CASE Consume(w)
      <3>1. wpc[w] = "consume" /\ hand' = hand /\ consumed' = [consumed EXCEPT ![hand[w].job] = @ + 1]
        BY <2>2 DEF Consume
      <3>2. consumed[hand[w].job] = 0
        <4> DEFINE a == <<"worker", w, 0, hand[w].job>>
        <4>1. a \in Whereabouts /\ JobAt(a) = hand[w].job
          BY <3>1 DEF Whereabouts, WorkerHas, JobAt
        <4> HIDE DEF a
        <4> QED BY <4>1 DEF ServiceInv, EveryJobOnce, Ledger
      <3> QED BY <1>1, <2>1, <3>1, <3>2 DEF Typed, TypeOK
    <2>3. CASE ~Consume(w)
      <3>1. wpc[w] = "account" /\ hand'[w] = hand[w]
        <4>1. wpc[w] = "account"
          <5>1. ASSUME NEW v \in Workers, WorkerStep(v) PROVE wpc[w] = "account"
            <6>1. wpc \in [Workers -> {"off", "get", "popped", "consume", "account", "accounted",
                                       "leaving", "exited"}]
              BY <1>1 DEF Typed, TypeOK
            <6> QED BY <1>2, <2>3, <5>1, <6>1
                    DEF WorkerStep, GetWaits, GetPops, NotifyPopped, Consume, Account,
                        NotifyAccounted, GetShutdown, NotifyLeaving
          <5>2. CASE Start
            BY <1>2, <5>2 DEF Start
          <5>3. CASE UNCHANGED workerVars
            BY <1>2, <5>3 DEF workerVars
          <5> QED BY <5>1, <5>2, <5>3, OnlyWorkersMove DEF ServiceInv
        <4>2. hand[w] # NoOne
          BY <1>1, <4>1 DEF Typed, Shape
        <4>3. ~Account(w)
          BY <1>1, <2>1 DEF Account, Typed, TypeOK
        <4> QED BY <1>1, <4>1, <4>2, <4>3, HeldUntilAccounted
      <3>2. consumed[hand[w].job] = 1
        BY <3>1 DEF WaitsForItsJob
      <3> QED BY <2>1, <3>1, <3>2, ConsumedStays
    <2> QED BY <2>2, <2>3
  <1>3. ASSUME NEW p \in Producers
        PROVE  /\ pc'[p] # "idle" /\ call'[p].wait_done => SyncAllowed
               /\ pc'[p] = "wait_done" => call'[p].wait_done
               /\ Blocking /\ pc'[p] \in {"enqueued", "wait_done"} => OnItsWay(p)'
               /\ Blocking => pc'[p] \notin {"give_up", "discard"}
    <2>1. CASE pc'[p] = pc[p] /\ call'[p] = call[p] /\ ticket'[p] = ticket[p]
      <3>1. pc[p] # "idle" => call[p] \in Calls
        BY <1>1 DEF Typed, Shape
      <3> QED BY <2>1, <3>1, StillOnItsWay DEF WaitsForItsJob
    <2>2. ASSUME NEW j \in Jobs, NEW i \in Priorities,
                 NEW nd \in BOOLEAN, NEW wait \in BOOLEAN, Call(p, j, i, nd, wait)
          PROVE  /\ call'[p].wait_done => SyncAllowed
                 /\ pc'[p] = "enter"
      BY <1>1, <2>2 DEF Call
    <2>3. CASE AddEnqueues(p)
      <3> DEFINE i == call[p].prio
                 e == [job |-> call[p].job, id |-> job_id[i] + 1,
                       not_discardable |-> call[p].not_discardable]
      <3>1. /\ call[p] \in Calls /\ i \in Priorities /\ job_id[i] \in Nat
            /\ queue \in [Priorities -> Seq(Entries)] /\ ticket \in [Producers -> Nat]
        BY <1>1, <2>3 DEF AddEnqueues, Typed, TypeOK, Shape, Calls
      <3>2. e \in Entries /\ e.id = job_id[i] + 1 /\ e.job = call[p].job
        BY <3>1, EntryOfCall
      <3>3. /\ pc'[p] = "enqueued" /\ call' = call /\ ticket'[p] = job_id[i] + 1
            /\ queue'[i] = Append(queue[i], e) /\ pc[p] # "idle"
        BY <1>1, <2>3, <3>1 DEF AddEnqueues, Enqueue
      <3> HIDE DEF e
      <3>4. /\ Len(queue[i]) + 1 \in 1..Len(queue'[i])
            /\ queue'[i][Len(queue[i]) + 1] = e
        BY <3>1, <3>2, <3>3, AppendProperties, LenProperties
      <3>5. OnItsWay(p)'
        BY <3>2, <3>3, <3>4 DEF OnItsWay, InQueue
      <3> QED BY <3>3, <3>5 DEF WaitsForItsJob
    <2>4. CASE NotifyEnqueued(p)
      <3>1. /\ pc[p] = "enqueued" /\ call' = call /\ ticket' = ticket
            /\ pc'[p] = "wait_done" => call[p].wait_done
            /\ pc'[p] \in {"wait_done", "idle"}
        BY <1>1, <2>4 DEF NotifyEnqueued
      <3>2. call[p] \in Calls
        BY <1>1, <3>1 DEF Typed, Shape
      <3> QED BY <3>1, <3>2, StillOnItsWay DEF WaitsForItsJob
    <2>5. CASE /\ ProducerStep(p)
               /\ ~AddEnqueues(p) /\ ~NotifyEnqueued(p)
      <3>1. /\ call' = call /\ ticket' = ticket
            /\ pc[p] # "idle"
            /\ pc'[p] = pc[p] \/ pc'[p] \notin {"enqueued", "wait_done"}
            /\ pc'[p] \in {"give_up", "discard"} => ~CallBlocks(p)
        BY <1>1, <2>5
        DEF ProducerStep, AddSeesPaused, AddWaitsPaused, AddWaitsFull, AddGivesUp, AddDiscardsHead,
            ConsumeVictim, NotifyDiscarded, WaitDone, WaitDoneReturns
      <3>2. call[p] \in Calls
        BY <1>1, <3>1 DEF Typed, Shape
      <3> QED BY <3>1, <3>2, StillOnItsWay DEF WaitsForItsJob, CallBlocks
    <2>6. \/ pc'[p] = pc[p] /\ call'[p] = call[p] /\ ticket'[p] = ticket[p]
          \/ \E j \in Jobs, i \in Priorities, nd, wait \in BOOLEAN : Call(p, j, i, nd, wait)
          \/ ProducerStep(p)
      <3>1. ASSUME NEW q \in Producers, ProducerStep(q), q # p
            PROVE  pc'[p] = pc[p] /\ call'[p] = call[p] /\ ticket'[p] = ticket[p]
        BY <1>1, <3>1
        DEF ProducerStep, AddSeesPaused, AddWaitsPaused, AddWaitsFull, AddGivesUp, AddDiscardsHead,
            ConsumeVictim, NotifyDiscarded, AddEnqueues, NotifyEnqueued, WaitDone, WaitDoneReturns,
            Typed, TypeOK
      <3>2. ASSUME NEW q \in Producers, NEW j \in Jobs, NEW i \in Priorities,
                   NEW nd \in BOOLEAN, NEW wait \in BOOLEAN, Call(q, j, i, nd, wait), q # p
            PROVE  pc'[p] = pc[p] /\ call'[p] = call[p] /\ ticket'[p] = ticket[p]
        BY <1>1, <3>2 DEF Call, Typed, TypeOK
      <3>3. CASE UNCHANGED producerVars
        BY <3>3
      <3>4. ASSUME NEW w \in Workers, WorkerStep(w) PROVE UNCHANGED producerVars
        BY <3>4
        DEF WorkerStep, GetWaits, GetPops, NotifyPopped, Consume, Account,
            NotifyAccounted, GetShutdown, NotifyLeaving
      <3>5. ASSUME NEW cv \in CondVars, NEW t \in Threads, SpuriousWakeup(cv, t)
            PROVE  UNCHANGED producerVars
        BY <3>5 DEF SpuriousWakeup
      <3>6. CASE ControlStep \/ FlushAndPause \/ Shutdown \/ UNCHANGED vars
        BY <3>6
        DEF ControlStep, Start, FlushWakes, Resume, NotifyResumed, Joined,
            FlushAndPause, Shutdown, vars
      <3> QED BY <3>1, <3>2, <3>3, <3>4, <3>5, <3>6 DEF Next
    <2> QED BY <2>1, <2>2, <2>3, <2>4, <2>5, <2>6
  <1>4. ASSUME Blocking, SyncAllowed, NEW i \in Priorities, NEW w \in Holding(i)'
        PROVE  finished_job_id'[i] < hand'[w].id
    BY <1>4, FinishedIsBehind DEF WaitsForItsJob
  <1> QED BY <1>2, <1>3, <1>4 DEF WaitsForItsJob

(* When add_job_wait_done returns, finished_job_id has reached the ticket: *)
(* the job is neither queued nor in the worker's hands any more.           *)
LEMMA ReturnsWhenDone ==
  ASSUME ServiceInv, WaitsForItsJob, [Next]_vars, Blocking, NEW p \in Producers,
         pc[p] = "wait_done", pc'[p] = "idle"
  PROVE  consumed[call[p].job] = 1
  <1> DEFINE i == call[p].prio
  <1>1. Typed /\ AgedIn(i) /\ i \in Priorities
    BY AgedByPriority DEF ServiceInv, Typed, Shape, Calls
  <1>2. WaitDoneReturns(p)
    <2>1. pc \in [Producers -> {"idle", "enter", "pausing", "give_up", "discard", "discarded",
                                "enqueued", "wait_done"}]
      BY <1>1 DEF Typed, TypeOK
    <2>2. ASSUME NEW q \in Producers, ProducerStep(q) PROVE WaitDoneReturns(p)
      BY <2>1, <2>2
      DEF ProducerStep, AddSeesPaused, AddWaitsPaused, AddWaitsFull, AddGivesUp, AddDiscardsHead,
          ConsumeVictim, NotifyDiscarded, AddEnqueues, NotifyEnqueued, WaitDone, WaitDoneReturns,
          producerVars, Goto
    <2>3. ASSUME NEW q \in Producers, NEW j \in Jobs, NEW k \in Priorities,
                 NEW nd \in BOOLEAN, NEW wait \in BOOLEAN, Call(q, j, k, nd, wait)
          PROVE  FALSE
      BY <2>1, <2>3 DEF Call, Goto
    <2>4. ASSUME NEW w \in Workers, WorkerStep(w) PROVE FALSE
      BY <2>4
      DEF WorkerStep, GetWaits, GetPops, NotifyPopped, Consume, Account,
          NotifyAccounted, GetShutdown, NotifyLeaving, producerVars
    <2>5. ASSUME NEW cv \in CondVars, NEW t \in Threads, SpuriousWakeup(cv, t) PROVE FALSE
      BY <2>5 DEF SpuriousWakeup, producerVars
    <2>6. CASE ControlStep \/ FlushAndPause \/ Shutdown \/ UNCHANGED vars
      BY <2>6
      DEF ControlStep, Start, FlushWakes, Resume, NotifyResumed, Joined,
          FlushAndPause, Shutdown, vars, producerVars
    <2> QED BY <2>2, <2>3, <2>4, <2>5, <2>6 DEF Next
  <1>3. ticket[p] <= finished_job_id[i] /\ ticket[p] \in Nat /\ finished_job_id[i] \in Nat
    BY <1>1, <1>2 DEF WaitDoneReturns, StillWaits, Typed, TypeOK
  <1>4. SyncAllowed /\ OnItsWay(p)
    BY DEF WaitsForItsJob
  <1>5. ~InQueue(i, ticket[p], call[p].job)
    <2>1. queue[i] \in Seq(Entries)
      BY <1>1 DEF Typed, TypeOK
    <2> SUFFICES ASSUME NEW n \in 1..Len(queue[i]), queue[i][n].id = ticket[p] PROVE FALSE
      BY DEF InQueue
    <2>2. finished_job_id[i] < queue[i][n].id
      BY <1>1 DEF AgedIn
    <2> QED BY <1>3, <2>2
  <1>6. ~InHands(i, ticket[p], call[p].job)
    <2> SUFFICES ASSUME NEW w \in Holding(i), hand[w].id = ticket[p] PROVE FALSE
      BY DEF InHands
    <2>1. finished_job_id[i] < hand[w].id
      BY <1>1, <1>4 DEF WaitsForItsJob
    <2> QED BY <1>3, <2>1
  <1> QED BY <1>4, <1>5, <1>6 DEF OnItsWay

(* add_job_wait_done on a blocking pool keeps its word: it returns when    *)
(* the caller's own job has been consumed, for any number of callers.      *)
THEOREM WaitDoneWaits == Spec => BlockingWaitDone
  <1>1. Init => WaitsForItsJob
    BY DEF Init, WaitsForItsJob, Holding
  <1>2. ServiceInv /\ [Next]_vars => ServiceInv'
    BY ServiceStep, TypedStep, AgedStep, OrderlyStep DEF ServiceInv
  <1>3. ServiceInv /\ WaitsForItsJob /\ [Next]_vars => WaitsForItsJob'
    BY <1>2, WaitsStep
  <1>4. ServiceInv /\ WaitsForItsJob /\ [Next]_vars =>
          [Blocking => \A p \in Producers :
             (pc[p] = "wait_done" /\ pc'[p] = "idle") => consumed[call[p].job] = 1]_vars
    BY ReturnsWhenDone
  <1> QED BY ServiceInit, <1>1, <1>2, <1>3, <1>4, PTL DEF Spec, BlockingWaitDone
=============================================================================
