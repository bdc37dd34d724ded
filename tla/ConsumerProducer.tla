-------------------------- MODULE ConsumerProducer --------------------------
(***************************************************************************)
(* The worker pool of the lidar SDK (inno_sdk/src/utils/consumer_producer):*)
(* callers hand jobs over with add_job / add_job_wait_done, a low- and a   *)
(* high-priority queue hold them, worker threads run the consume callback. *)
(* A controlling thread starts the pool, pauses it (flush_and_pause),      *)
(* resumes it and shuts it down.                                           *)
(*                                                                         *)
(* A critical section under mutex_ is one action.  The mutex is explicit   *)
(* for the one section another thread can interfere with: add_job_do_      *)
(* reads paused_ under the mutex and then waits, while resume() writes     *)
(* paused_ and notifies WITHOUT the mutex.  Every notify_all that follows  *)
(* an unlock is a step of its own.  The two queues are sequences: module   *)
(* CpQueue shows that the ring buffer of the code is one.                  *)
(*                                                                         *)
(* Left out: the time and length statistics, which nothing reads back.     *)
(***************************************************************************)
EXTENDS Integers, Sequences, FiniteSets

CONSTANTS
  Producers,        (* threads that call add_job or add_job_wait_done        *)
  Workers,          (* the worker_num threads of the pool                    *)
  Control,          (* the thread that starts, flushes, resumes, shuts down  *)
  Jobs,             (* the jobs; each is handed over at most once            *)
  QueueSize,        (* queue_size                                            *)
  PreferQueueSize,  (* prefer_queue_size; <= 0 makes the pool blocking       *)
  HiQueueSize,      (* hi_cp_queue_size                                      *)
  MaxFlushes,       (* bound: calls of flush_and_pause                       *)
  SpuriousWakeups,  (* whether a condition variable may wake on its own      *)
  NoOne             (* "no thread", "no job"                                 *)

Threads == Producers \cup Workers \cup {Control}

ASSUME ThreadAssumption ==
  /\ Producers \cap Workers = {}
  /\ Control \notin Producers \cup Workers
  /\ IsFiniteSet(Workers) /\ Workers # {}

ASSUME SizeAssumption ==
  /\ QueueSize \in Nat \ {0}
  /\ HiQueueSize \in Nat \ {0}
  /\ PreferQueueSize \in Int
  /\ MaxFlushes \in Nat
  /\ SpuriousWakeups \in BOOLEAN

Priorities == {"low", "high"}
CondVars   == {"not_full", "not_empty", "job_done"}

(* Constructor: prefer_queue_size <= 0 selects the blocking mode, in which *)
(* every queued job is a preferred one.                                    *)
Blocking   == PreferQueueSize <= 0
PreferSize == IF Blocking THEN QueueSize ELSE PreferQueueSize

Capacity(prio) == IF prio = "low" THEN QueueSize ELSE HiQueueSize

(* add_job_wait_done supports one worker only (it asserts so).             *)
SyncAllowed == Cardinality(Workers) = 1

Entries == [job : Jobs, id : Nat, not_discardable : BOOLEAN]
Calls   == [job : Jobs, prio : Priorities, not_discardable : BOOLEAN,
            wait_done : BOOLEAN]
Taken   == [job : Jobs, id : Nat, prio : Priorities, prefer : BOOLEAN]

ASSUME NoOneAssumption ==
  NoOne \notin Threads \cup Jobs /\ NoOne \notin Calls /\ NoOne \notin Taken

VARIABLES
  mutex,          (* holder of mutex_ across steps, or NoOne                 *)
  queue,          (* queue_ ("low") and hi_queue_ ("high")                   *)
  waiting,        (* the threads asleep on each condition variable           *)
  paused, shutdown,
  added, finished, dropped,   (* added_job_, finished_job_, dropped_job_     *)
  job_id, finished_job_id,    (* per priority                                *)
  pc,             (* where each producer is in add_job_do_                   *)
  call,           (* its arguments                                           *)
  ticket,         (* its job_id                                              *)
  victim,         (* its discard_job                                         *)
  wpc, hand,      (* where each worker is, and the job it holds              *)
  ctl,            (* where the controlling thread is                         *)
  flushes,        (* calls of flush_and_pause so far                         *)
  fresh,          (* jobs nobody has handed over yet                         *)
  consumed        (* how often the consume callback finished for a job       *)

queueVars   == <<queue, added, finished, dropped, job_id, finished_job_id>>
producerVars == <<pc, call, ticket, victim>>
workerVars  == <<wpc, hand>>
controlVars == <<paused, shutdown, ctl, flushes>>
jobVars     == <<fresh, consumed>>
vars == <<mutex, waiting, queueVars, producerVars, workerVars, controlVars, jobVars>>

Asleep(t)  == \E cv \in CondVars : t \in waiting[cv]
CanLock(t) == mutex = NoOne /\ ~Asleep(t)

Wait(cv, t) == waiting' = [waiting EXCEPT ![cv] = @ \cup {t}]

(* Mutant: notify_one where the code calls notify_all.                     *)
NotifyOne(cv) ==
  IF waiting[cv] = {} THEN UNCHANGED waiting
  ELSE \E t \in waiting[cv] : waiting' = [waiting EXCEPT ![cv] = @ \ {t}]

NotifyAll(cv) == waiting' = [waiting EXCEPT ![cv] = {}]

Total(counter) == counter["low"] + counter["high"]

(* Mutant: the flush forgets the high-priority jobs.                       *)
UnfinishedLow == added["low"] # finished["low"] + dropped["low"]

Unfinished == Total(added) # Total(finished) + Total(dropped)

Init ==
  /\ mutex = NoOne
  /\ queue = [i \in Priorities |-> <<>>]
  /\ waiting = [cv \in CondVars |-> {}]
  /\ paused = FALSE
  /\ shutdown = TRUE
  /\ added = [i \in Priorities |-> 0]
  /\ finished = [i \in Priorities |-> 0]
  /\ dropped = [i \in Priorities |-> 0]
  /\ job_id = [i \in Priorities |-> 0]
  /\ finished_job_id = [i \in Priorities |-> 0]
  /\ pc = [p \in Producers |-> "idle"]
  /\ call = [p \in Producers |-> NoOne]
  /\ ticket = [p \in Producers |-> 0]
  /\ victim = [p \in Producers |-> NoOne]
  /\ wpc = [w \in Workers |-> "off"]
  /\ hand = [w \in Workers |-> NoOne]
  /\ ctl = "init"
  /\ flushes = 0
  /\ fresh = Jobs
  /\ consumed = [j \in Jobs |-> 0]

-----------------------------------------------------------------------------
(* Producers: add_job, add_job_wait_done and add_job_do_.                  *)

Goto(p, l) == pc' = [pc EXCEPT ![p] = l]

(* A call begins.  "cannot be shutdown while any producer is still alive"  *)
(* is the contract of the callers: none calls before start() or once       *)
(* shutdown() has begun.                                                   *)
Call(p, j, prio, nd, wait) ==
  /\ pc[p] = "idle"
  /\ ctl \notin {"init", "joining", "down"}
  /\ j \in fresh
  /\ wait => SyncAllowed /\ nd
  /\ Goto(p, "enter")
  /\ call' = [call EXCEPT ![p] = [job |-> j, prio |-> prio,
                                  not_discardable |-> nd, wait_done |-> wait]]
  /\ ticket' = [ticket EXCEPT ![p] = 0]
  /\ fresh' = fresh \ {j}
  /\ UNCHANGED <<mutex, waiting, queueVars, victim, workerVars, controlVars, consumed>>

CallBlocks(p) == call[p].prio = "high" \/ Blocking \/ call[p].not_discardable

(* Mutants: full one job too late; a queue kept in the opposite order;     *)
(* the flag of the head ignored; a given-up job never counted as dropped.  *)
FullTooLate(prio)    == Len(queue[prio]) > Capacity(prio)
PutInFront(q, entry) == <<entry>> \o q
AnyHeadMayGo(prio)   == TRUE
CountAddedOnly(prio) ==
  added' = [added EXCEPT ![prio] = @ + 1] /\ UNCHANGED dropped

Full(prio)         == Len(queue[prio]) = Capacity(prio)
Enqueue(q, entry)  == Append(q, entry)
HeadMayGo(prio)    == ~Head(queue[prio]).not_discardable
CountGivenUp(prio) ==
  /\ added' = [added EXCEPT ![prio] = @ + 1]
  /\ dropped' = [dropped EXCEPT ![prio] = @ + 1]

(* It locks, finds the pool paused, and goes to wait with the mutex held.  *)
AddSeesPaused(p) ==
  /\ pc[p] = "enter" /\ CanLock(p) /\ paused
  /\ mutex' = p
  /\ Goto(p, "pausing")
  /\ UNCHANGED <<waiting, queueVars, call, ticket, victim, workerVars, controlVars, jobVars>>

AddWaitsPaused(p) ==
  /\ pc[p] = "pausing"
  /\ mutex' = NoOne
  /\ Wait("not_full", p)
  /\ Goto(p, "enter")
  /\ UNCHANGED <<queueVars, call, ticket, victim, workerVars, controlVars, jobVars>>

AddWaitsFull(p) ==
  /\ pc[p] = "enter" /\ CanLock(p) /\ ~paused
  /\ Full(call[p].prio) /\ CallBlocks(p)
  /\ Wait("not_full", p)
  /\ UNCHANGED <<mutex, queueVars, producerVars, workerVars, controlVars, jobVars>>

(* The head of the full queue must not be discarded: give up the new job.  *)
AddGivesUp(p) ==
  LET i == call[p].prio IN
  /\ pc[p] = "enter" /\ CanLock(p) /\ ~paused
  /\ Full(i) /\ ~CallBlocks(p)
  /\ ~HeadMayGo(i)
  /\ CountGivenUp(i)
  /\ victim' = [victim EXCEPT ![p] = call[p].job]
  /\ Goto(p, "give_up")
  /\ UNCHANGED <<mutex, waiting, queue, finished, job_id, finished_job_id, call, ticket,
                 workerVars, controlVars, jobVars>>

(* Discard the head of the full queue.                                     *)
AddDiscardsHead(p) ==
  LET i == call[p].prio IN
  /\ pc[p] = "enter" /\ CanLock(p) /\ ~paused
  /\ Full(i) /\ ~CallBlocks(p)
  /\ HeadMayGo(i)
  /\ queue' = [queue EXCEPT ![i] = Tail(@)]
  /\ dropped' = [dropped EXCEPT ![i] = @ + 1]
  /\ finished_job_id' = [finished_job_id EXCEPT ![i] = Head(queue[i]).id]
  /\ victim' = [victim EXCEPT ![p] = Head(queue[i]).job]
  /\ Goto(p, "discard")
  /\ UNCHANGED <<mutex, waiting, added, finished, job_id, call, ticket,
                 workerVars, controlVars, jobVars>>

(* consume_func_(job, ctx, false) in the caller's thread, without the lock:*)
(* then return after a give-up, signal and try again after a discard.      *)
ConsumeVictim(p) ==
  /\ pc[p] \in {"give_up", "discard"}
  /\ consumed' = [consumed EXCEPT ![victim[p]] = @ + 1]
  /\ victim' = [victim EXCEPT ![p] = NoOne]
  /\ Goto(p, IF pc[p] = "give_up" THEN "idle" ELSE "discarded")
  /\ UNCHANGED <<mutex, waiting, queueVars, call, ticket, workerVars, controlVars, fresh>>

NotifyDiscarded(p) ==
  /\ pc[p] = "discarded"
  /\ NotifyAll("job_done")
  /\ Goto(p, "enter")
  /\ UNCHANGED <<mutex, queueVars, call, ticket, victim, workerVars, controlVars, jobVars>>

AddEnqueues(p) ==
  LET i == call[p].prio IN
  /\ pc[p] = "enter" /\ CanLock(p) /\ ~paused
  /\ ~Full(i)
  /\ job_id' = [job_id EXCEPT ![i] = @ + 1]
  /\ ticket' = [ticket EXCEPT ![p] = job_id[i] + 1]
  /\ queue' = [queue EXCEPT ![i] =
                 Enqueue(@, [job |-> call[p].job, id |-> job_id[i] + 1,
                             not_discardable |-> call[p].not_discardable])]
  /\ added' = [added EXCEPT ![i] = @ + 1]
  /\ Goto(p, "enqueued")
  /\ UNCHANGED <<mutex, waiting, finished, dropped, finished_job_id, call, victim,
                 workerVars, controlVars, jobVars>>

NotifyEnqueued(p) ==
  /\ pc[p] = "enqueued"
  /\ NotifyAll("not_empty")
  /\ Goto(p, IF call[p].wait_done THEN "wait_done" ELSE "idle")
  /\ UNCHANGED <<mutex, queueVars, call, ticket, victim, workerVars, controlVars, jobVars>>

(* Mutant: add_job_wait_done looks at the low-priority id only.            *)
WaitsForLow(p) == ticket[p] > finished_job_id["low"]

(* The loop of add_job_wait_done.                                          *)
StillWaits(p) == ticket[p] > finished_job_id[call[p].prio]

WaitDone(p) ==
  /\ pc[p] = "wait_done" /\ CanLock(p)
  /\ StillWaits(p)
  /\ Wait("job_done", p)
  /\ UNCHANGED <<mutex, queueVars, producerVars, workerVars, controlVars, jobVars>>

WaitDoneReturns(p) ==
  /\ pc[p] = "wait_done" /\ CanLock(p)
  /\ ~StillWaits(p)
  /\ Goto(p, "idle")
  /\ UNCHANGED <<mutex, waiting, queueVars, call, ticket, victim, workerVars,
                 controlVars, jobVars>>

ProducerStep(p) ==
  \/ AddSeesPaused(p) \/ AddWaitsPaused(p) \/ AddWaitsFull(p)
  \/ AddGivesUp(p) \/ AddDiscardsHead(p) \/ ConsumeVictim(p) \/ NotifyDiscarded(p)
  \/ AddEnqueues(p) \/ NotifyEnqueued(p)
  \/ WaitDone(p) \/ WaitDoneReturns(p)

-----------------------------------------------------------------------------
(* Workers: consumer_thread_func_ and get_job_.                            *)

WGoto(w, l) == wpc' = [wpc EXCEPT ![w] = l]

(* Mutant: the workers leave while low-priority jobs are still queued.     *)
HighEmpty == queue["high"] = <<>>

AllEmpty == \A i \in Priorities : queue[i] = <<>>

GetWaits(w) ==
  /\ wpc[w] = "get" /\ CanLock(w)
  /\ AllEmpty /\ ~shutdown
  /\ Wait("not_empty", w)
  /\ UNCHANGED <<mutex, queueVars, producerVars, workerVars, controlVars, jobVars>>

(* High priority first; r, the length before the pop, decides is_prefered. *)
GetPops(w, i) ==
  /\ wpc[w] = "get" /\ CanLock(w)
  /\ queue[i] # <<>>
  /\ i = "low" => queue["high"] = <<>>
  /\ queue' = [queue EXCEPT ![i] = Tail(@)]
  /\ hand' = [hand EXCEPT ![w] =
                [job |-> Head(queue[i]).job, id |-> Head(queue[i]).id, prio |-> i,
                 prefer |-> (i = "high" \/ Len(queue[i]) <= PreferSize)]]
  /\ WGoto(w, "popped")
  /\ UNCHANGED <<mutex, waiting, added, finished, dropped, job_id, finished_job_id,
                 producerVars, controlVars, jobVars>>

NotifyPopped(w) ==
  /\ wpc[w] = "popped"
  /\ NotifyAll("not_full")
  /\ WGoto(w, "consume")
  /\ UNCHANGED <<mutex, queueVars, producerVars, hand, controlVars, jobVars>>

Consume(w) ==
  /\ wpc[w] = "consume"
  /\ consumed' = [consumed EXCEPT ![hand[w].job] = @ + 1]
  /\ WGoto(w, "account")
  /\ UNCHANGED <<mutex, waiting, queueVars, producerVars, hand, controlVars, fresh>>

Account(w) ==
  LET i == hand[w].prio IN
  /\ wpc[w] = "account" /\ CanLock(w)
  /\ finished' = [finished EXCEPT ![i] = IF hand[w].prefer THEN @ + 1 ELSE @]
  /\ dropped' = [dropped EXCEPT ![i] = IF hand[w].prefer THEN @ ELSE @ + 1]
  /\ finished_job_id' = [finished_job_id EXCEPT ![i] = hand[w].id]
  /\ hand' = [hand EXCEPT ![w] = NoOne]
  /\ WGoto(w, "accounted")
  /\ UNCHANGED <<mutex, waiting, queue, added, job_id, producerVars, controlVars, jobVars>>

NotifyAccounted(w) ==
  /\ wpc[w] = "accounted"
  /\ NotifyAll("job_done")
  /\ WGoto(w, "get")
  /\ UNCHANGED <<mutex, queueVars, producerVars, hand, controlVars, jobVars>>

(* Shut down and nothing left: pass the signal on and leave.               *)
GetShutdown(w) ==
  /\ wpc[w] = "get" /\ CanLock(w)
  /\ AllEmpty /\ shutdown
  /\ WGoto(w, "leaving")
  /\ UNCHANGED <<mutex, waiting, queueVars, producerVars, hand, controlVars, jobVars>>

NotifyLeaving(w) ==
  /\ wpc[w] = "leaving"
  /\ NotifyAll("not_empty")
  /\ WGoto(w, "exited")
  /\ UNCHANGED <<mutex, queueVars, producerVars, hand, controlVars, jobVars>>

WorkerStep(w) ==
  \/ GetWaits(w) \/ \E i \in Priorities : GetPops(w, i)
  \/ NotifyPopped(w) \/ Consume(w) \/ Account(w) \/ NotifyAccounted(w)
  \/ GetShutdown(w) \/ NotifyLeaving(w)

-----------------------------------------------------------------------------
(* The controlling thread: start, flush_and_pause, resume, shutdown.       *)

Start ==
  /\ ctl = "init"
  /\ shutdown' = FALSE
  /\ wpc' = [w \in Workers |-> "get"]
  /\ ctl' = "idle"
  /\ UNCHANGED <<mutex, waiting, queueVars, producerVars, hand, paused, flushes, jobVars>>

(* flush_and_pause: its loop, entered in the section that sets paused_.    *)
FlushLoop ==
  IF Unfinished THEN Wait("job_done", Control) /\ ctl' = "flushing"
                ELSE UNCHANGED waiting /\ ctl' = "flushed"

FlushAndPause ==
  /\ ctl = "idle" /\ mutex = NoOne
  /\ flushes < MaxFlushes
  /\ flushes' = flushes + 1
  /\ paused' = TRUE
  /\ FlushLoop
  /\ UNCHANGED <<mutex, queueVars, producerVars, workerVars, shutdown, jobVars>>

FlushWakes ==
  /\ ctl = "flushing" /\ CanLock(Control)
  /\ FlushLoop
  /\ UNCHANGED <<mutex, queueVars, producerVars, workerVars, paused, shutdown, flushes, jobVars>>

(* resume: both steps run without the mutex.                               *)
Resume ==
  /\ ctl = "flushed"
  /\ paused' = FALSE
  /\ ctl' = "resuming"
  /\ UNCHANGED <<mutex, waiting, queueVars, producerVars, workerVars, shutdown, flushes, jobVars>>

NotifyResumed ==
  /\ ctl = "resuming"
  /\ NotifyAll("not_full")
  /\ ctl' = "idle"
  /\ UNCHANGED <<mutex, queueVars, producerVars, workerVars, paused, shutdown, flushes, jobVars>>

NotifyShutdown == waiting' = [waiting EXCEPT !["not_empty"] = {}, !["not_full"] = {}]

(* shutdown: flag and both notifications in one section, then join.  No    *)
(* producer is inside a call (their contract, asserted in add_job_do_).    *)
Shutdown ==
  /\ ctl = "idle" /\ mutex = NoOne
  /\ \A p \in Producers : pc[p] = "idle"
  /\ shutdown' = TRUE
  /\ NotifyShutdown
  /\ ctl' = "joining"
  /\ UNCHANGED <<mutex, queueVars, producerVars, workerVars, paused, flushes, jobVars>>

Joined ==
  /\ ctl = "joining"
  /\ \A w \in Workers : wpc[w] = "exited"
  /\ ctl' = "down"
  /\ UNCHANGED <<mutex, waiting, queueVars, producerVars, workerVars, paused, shutdown,
                 flushes, jobVars>>

(* Control's steps that follow without anybody deciding to take them.      *)
ControlStep == Start \/ FlushWakes \/ Resume \/ NotifyResumed \/ Joined

(* std::condition_variable::wait may return without a notification.        *)
SpuriousWakeup(cv, t) ==
  /\ SpuriousWakeups
  /\ t \in waiting[cv]
  /\ waiting' = [waiting EXCEPT ![cv] = @ \ {t}]
  /\ UNCHANGED <<mutex, queueVars, producerVars, workerVars, controlVars, jobVars>>

-----------------------------------------------------------------------------
Next ==
  \/ \E p \in Producers :
       \/ \E j \in Jobs, i \in Priorities, nd, wait \in BOOLEAN : Call(p, j, i, nd, wait)
       \/ ProducerStep(p)
  \/ \E w \in Workers : WorkerStep(w)
  \/ ControlStep \/ FlushAndPause \/ Shutdown
  \/ \E cv \in CondVars, t \in Threads : SpuriousWakeup(cv, t)

Spec == Init /\ [][Next]_vars

(* Every thread that can run is eventually scheduled; calls, flushes and   *)
(* the shutdown itself are the environment's choice.                       *)
Fairness ==
  /\ \A p \in Producers : WF_vars(ProducerStep(p))
  /\ \A w \in Workers : WF_vars(WorkerStep(w))
  /\ WF_vars(ControlStep)

FairSpec == Spec /\ Fairness

-----------------------------------------------------------------------------
(* Every variable has its type and no queue outgrows its ring buffer (the  *)
(* assertion count_ <= queue_size_ of CpQueue::add).                       *)
TypeOK ==
  /\ mutex \in Producers \cup {NoOne}
  /\ queue \in [Priorities -> Seq(Entries)]
  /\ \A i \in Priorities : Len(queue[i]) <= Capacity(i)
  /\ waiting \in [CondVars -> SUBSET Threads]
  /\ paused \in BOOLEAN /\ shutdown \in BOOLEAN
  /\ added \in [Priorities -> Nat]
  /\ finished \in [Priorities -> Nat]
  /\ dropped \in [Priorities -> Nat]
  /\ job_id \in [Priorities -> Nat]
  /\ finished_job_id \in [Priorities -> Nat]
  /\ pc \in [Producers -> {"idle", "enter", "pausing", "give_up", "discard", "discarded",
                           "enqueued", "wait_done"}]
  /\ call \in [Producers -> Calls \cup {NoOne}]
  /\ ticket \in [Producers -> Nat]
  /\ victim \in [Producers -> Jobs \cup {NoOne}]
  /\ wpc \in [Workers -> {"off", "get", "popped", "consume", "account", "accounted",
                          "leaving", "exited"}]
  /\ hand \in [Workers -> Taken \cup {NoOne}]
  /\ ctl \in {"init", "idle", "flushing", "flushed", "resuming", "joining", "down"}
  /\ flushes \in 0..MaxFlushes
  /\ fresh \in SUBSET Jobs
  /\ consumed \in [Jobs -> Nat]


(* A job is in the hands of worker w from the pop until it is accounted.   *)
Holding(i) == {w \in Workers : hand[w] # NoOne /\ hand[w].prio = i}

(* Every job counted in added_job_ is counted as finished, counted as      *)
(* dropped, queued, or in a worker's hands.  flush_and_pause relies on it: *)
(* it asserts added > finished + dropped while it waits, and takes         *)
(* equality to mean that nothing is left.                                  *)
Accounting ==
  \A i \in Priorities :
    added[i] = finished[i] + dropped[i] + Len(queue[i]) + Cardinality(Holding(i))

(* "Pause adding jobs to the queue, and wait until all jobs are processed  *)
(* or dropped": from the return of flush_and_pause until resume nothing is *)
(* queued and no worker has a job, whatever the callers do meanwhile.      *)
FlushedMeansDrained ==
  ctl = "flushed" => AllEmpty /\ \A w \in Workers : hand[w] = NoOne

(* Within a priority jobs leave the queue in the order of their ids, and a *)
(* job in a worker's hands is older than every queued one.                 *)
OldestFirst ==
  \A i \in Priorities :
    /\ \A m, n \in 1..Len(queue[i]) : m < n => queue[i][m].id < queue[i][n].id
    /\ \A n \in 1..Len(queue[i]) :
         /\ queue[i][n].id <= job_id[i]
         /\ \A w \in Holding(i) : hand[w].id < queue[i][n].id

(* A queued job that must not be discarded leaves the queue in a worker's  *)
(* hands, never through the discard path of another caller.                *)
NotDiscardableReachesWorker ==
  [][\A i \in Priorities : \A n \in 1..Len(queue[i]) :
       (queue[i][n].not_discardable /\ \A m \in 1..Len(queue'[i]) : queue'[i][m] # queue[i][n])
         => \E w \in Workers : hand'[w] # NoOne /\ hand'[w].job = queue[i][n].job]_vars

(* The pool implements the abstract service: every job is consumed exactly *)
(* once and none is outstanding when shutdown() has returned.              *)
Service == INSTANCE JobService WITH
  outstanding  <- {j \in Jobs \ fresh : consumed[j] = 0},
  consumptions <- consumed,
  open         <- ctl # "down"

ImplementsService == Service!SSpec

(* "Add job to the queue and wait until the job is processed": so it is on *)
(* a blocking pool.  On a dropping one the id of a younger job that was    *)
(* discarded ends the wait as well.                                        *)
BlockingWaitDone ==
  [][Blocking => \A p \in Producers :
       (pc[p] = "wait_done" /\ pc'[p] = "idle") => consumed[call[p].job] = 1]_vars

(* Every call of add_job or add_job_wait_done returns.                     *)
CallsReturn == \A p \in Producers : pc[p] # "idle" ~> pc[p] = "idle"

(* It does in a pool that was never paused: no wake-up is lost between a   *)
(* full queue, a worker and the caller, in whatever order they run.        *)
UnpausedCallsReturn ==
  \A p \in Producers : pc[p] # "idle" ~> (pc[p] = "idle" \/ flushes > 0)

(* In such a pool every job handed over is consumed.                       *)
UnpausedJobsAreConsumed ==
  \A j \in Jobs : j \notin fresh ~> (consumed[j] = 1 \/ flushes > 0)

(* shutdown() returns: all workers see the flag and leave.  So does        *)
(* flush_and_pause, although a call that gives up its job does not signal  *)
(* job_done_cond_ ("don't need to signal job_done_cond_").                 *)
ShutdownAndFlushReturn ==
  /\ ctl = "joining" ~> ctl = "down"
  /\ ctl = "flushing" ~> ctl = "flushed"
=============================================================================
