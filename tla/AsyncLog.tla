------------------------------ MODULE AsyncLog ------------------------------
(***************************************************************************)
(* The asynchronous logger of the lidar SDK: InnoLog (utils/log.cpp) and   *)
(* AsyncLogManager (utils/async_log.cpp) on top of one ConsumerProducer    *)
(* with a single worker and one MemPool of message buffers.                *)
(*                                                                         *)
(* Any thread logs.  It holds asynclog_lock_ for reading while it copies   *)
(* the message into a pool buffer and hands it over; the worker writes the *)
(* message out, calls the user's log callback and frees the buffer.  The   *)
(* main thread starts the worker, replaces the callback and shuts down.    *)
(*                                                                         *)
(* The pool is used as its own modules describe it: a section under its    *)
(* mutex is one action and a wait on one of its conditions is a guard; the *)
(* buffers are lent as UnitPool, the abstraction of MemPool, says.  Terminal and file output    *)
(* are left out.                                                           *)
(***************************************************************************)
EXTENDS Integers, Sequences, FiniteSets

CONSTANTS
  Loggers, Worker, Main,
  BufferCount, (* buf_num, the units of the memory pool                      *)
  QueueSize,   (* queue_size; prefer_queue_size is the same                  *)
  LogLevels,   (* bound: the levels logged                                   *)
  LogSizes,    (* bound: whether they are larger than a buffer               *)
  MaxLogs,     (* bound: messages logged                                     *)
  MaxSets,     (* bound: calls of set_logs_callback                          *)
  None

Buffers == 1..BufferCount
Heap    == 0             \* a buffer from malloc

Levels  == {"critical", "error", "info"}
Threads == Loggers \cup {Worker, Main}

ASSUME ConstantAssumption ==
  /\ Worker # Main /\ {Worker, Main} \cap Loggers = {}
  /\ IsFiniteSet(Loggers) /\ BufferCount \in Nat
  /\ QueueSize \in Nat \ {0} /\ MaxLogs \in Nat /\ MaxSets \in Nat
  /\ LogLevels \subseteq Levels /\ LogSizes \subseteq BOOLEAN
  /\ None \notin Buffers \cup {Heap} \cup Threads

(* kMaxCurrentThreads, scaled down to the loggers of the model: what the   *)
(* constructor demands of buf_num.                                         *)
ASSUME BufferAssumption ==
  BufferCount >= QueueSize + 1 + Cardinality(Loggers)

Entries == [buf : Buffers \cup {Heap}, id : Nat, not_discardable : BOOLEAN]
ASSUME NoneAssumption == None \notin Entries

VARIABLES
  readers,       (* the threads that hold asynclog_lock_ for reading         *)
  exist,         (* asynclog_exist_                                          *)
  manager,       (* asynclog_manager_p_: "none", "up" or "deleted"           *)
  idle,          (* the free units, as UnitPool describes the memory pool    *)
  pool_mutex,    (* who keeps MemPoolManager::mutex_ across steps            *)
  queue, job_id, finished_id, paused, shutdown,   (* the ConsumerProducer    *)
  callback, callback_ctx,   (* 0 is NULL; set k stores k in both             *)
  pc,            (* where each logger is                                     *)
  message,       (* its level and whether it is larger than a buffer         *)
  buf, victim,   (* the buffer it hands over, and one it must drop           *)
  ticket,        (* the id add_job_wait_done waits for                       *)
  seen,          (* what log2Callback_ has read: callback, then context      *)
  wpc, hand,     (* where the worker is, and the entry it has                *)
  main,          (* where the main thread is                                 *)
  logs, sets     (* counters of the two bounds                               *)

jobVars    == <<queue, job_id, finished_id>>
lockVars   == <<readers, exist, manager>>
cbVars     == <<callback, callback_ctx>>
loggerVars == <<pc, message, buf, victim, ticket, logs>>
workerVars == <<wpc, hand>>
mainVars   == <<main, paused, shutdown, sets>>
vars == <<lockVars, idle, pool_mutex, jobVars, cbVars, loggerVars, seen, workerVars, mainVars>>

Init ==
  /\ readers = {} /\ exist = FALSE /\ manager = "none"
  /\ idle = [b \in Buffers |-> b] /\ pool_mutex = None
  /\ queue = <<>> /\ job_id = 0 /\ finished_id = 0
  /\ paused = FALSE /\ shutdown = FALSE
  /\ callback = 0 /\ callback_ctx = 0
  /\ pc = [l \in Loggers |-> "idle"]
  /\ message = [l \in Loggers |-> None]
  /\ buf = [l \in Loggers |-> None] /\ victim = [l \in Loggers |-> None]
  /\ ticket = [l \in Loggers |-> 0]
  /\ seen = [t \in Threads |-> <<0, 0>>]
  /\ wpc = "off" /\ hand = None
  /\ main = "idle"
  /\ logs = 0 /\ sets = 0

-----------------------------------------------------------------------------
(* RWLock is a pthread_rwlock, which by default lets readers pass a        *)
(* waiting writer; the writer never keeps it across steps, so a reader can *)
(* always have it.  (The classes for Windows and MINGW are not like that.) *)
CanWrite == readers = {}

(* free_buffer: to the pool or to the heap.                                *)
FreeBuffer(b) ==
  IF b = Heap THEN UNCHANGED idle
  ELSE pool_mutex = None /\ idle' = Append(idle, b)

(* Mutants: a dropped message keeps its buffer; the lock is not held while *)
(* the message is handed over.                                             *)
KeepBuffer(b)  == UNCHANGED idle
NotHeld(l)     == UNCHANGED readers

FreeDropped(b) == FreeBuffer(b)
HoldForAdd(l)  == readers' = readers \cup {l}

-----------------------------------------------------------------------------
(* Loggers: log_v, add_log_job and the add_job_do_ of the pool.            *)

Goto(l, where) == pc' = [pc EXCEPT ![l] = where]

LogBegins(l, level, big) ==
  /\ pc[l] = "idle" /\ logs < MaxLogs
  /\ logs' = logs + 1
  /\ message' = [message EXCEPT ![l] = [level |-> level, big |-> big]]

LogAsync(l, level, big) ==
  /\ LogBegins(l, level, big)
  /\ exist /\ manager # "none"
  /\ HoldForAdd(l)
  /\ Goto(l, "alloc")
  /\ UNCHANGED <<exist, manager, idle, pool_mutex, jobVars, cbVars, buf, victim, ticket, seen,
                 workerVars, mainVars>>

(* No worker: the lock is released, the caller writes the message itself.  *)
LogDirect(l, level) ==
  /\ LogBegins(l, level, FALSE)
  /\ ~(exist /\ manager # "none")
  /\ Goto(l, "callback")
  /\ UNCHANGED <<lockVars, idle, pool_mutex, jobVars, cbVars, buf, victim, ticket, seen,
                 workerVars, mainVars>>

(* alloc_buffer: a unit of the pool, or malloc for a large message.        *)
AllocFromPool(l) ==
  /\ pc[l] = "alloc" /\ ~message[l].big /\ pool_mutex = None
  /\ idle # <<>>
  /\ buf' = [buf EXCEPT ![l] = Head(idle)] /\ idle' = Tail(idle)
  /\ Goto(l, "add")
  /\ UNCHANGED <<lockVars, pool_mutex, jobVars, cbVars, message, victim, ticket, logs, seen,
                 workerVars, mainVars>>

AllocFromHeap(l) ==
  /\ pc[l] = "alloc" /\ message[l].big
  /\ buf' = [buf EXCEPT ![l] = Heap]
  /\ Goto(l, "add")
  /\ UNCHANGED <<lockVars, idle, pool_mutex, jobVars, cbVars, message, victim, ticket, logs, seen,
                 workerVars, mainVars>>

(* The pool is empty: MemPoolManager::alloc logs an error, mutex_ locked.  *)
AllocExhausted(l) ==
  /\ pc[l] = "alloc" /\ ~message[l].big /\ pool_mutex = None
  /\ idle = <<>>
  /\ pool_mutex' = l
  /\ Goto(l, "relog")
  /\ UNCHANGED <<lockVars, idle, jobVars, cbVars, message, buf, victim, ticket, logs, seen,
                 workerVars, mainVars>>

(* The nested log_v: the caller is a reader, so the worker still exists,   *)
(* and alloc_buffer asks for the mutex this thread holds.                  *)
Relog(l) ==
  /\ pc[l] = "relog"
  /\ message' = [message EXCEPT ![l] = [level |-> "error", big |-> FALSE]]
  /\ Goto(l, "alloc")
  /\ UNCHANGED <<lockVars, idle, pool_mutex, jobVars, cbVars, buf, victim, ticket, logs, seen,
                 workerVars, mainVars>>

NotDiscardable(l) == message[l].level \in {"critical", "error"}
(* Mutant: full one message too late.                                      *)
FullTooLate == Len(queue) > QueueSize

Full == Len(queue) = QueueSize

AddEnqueues(l) ==
  /\ pc[l] = "add" /\ ~paused /\ ~Full
  /\ job_id' = job_id + 1
  /\ queue' = Append(queue, [buf |-> buf[l], id |-> job_id + 1,
                             not_discardable |-> NotDiscardable(l)])
  /\ buf' = [buf EXCEPT ![l] = None]
  /\ ticket' = [ticket EXCEPT ![l] = job_id + 1]
  /\ Goto(l, IF message[l].level = "critical" THEN "wait_done" ELSE "release")
  /\ UNCHANGED <<lockVars, idle, pool_mutex, finished_id, cbVars, message, victim, logs, seen,
                 workerVars, mainVars>>

(* A full queue makes an error wait and anything else drop a message: the  *)
(* new one when the head must be kept, otherwise the head.                 *)
AddGivesUp(l) ==
  /\ pc[l] = "add" /\ ~paused /\ Full /\ ~NotDiscardable(l)
  /\ Head(queue).not_discardable
  /\ victim' = [victim EXCEPT ![l] = buf[l]]
  /\ buf' = [buf EXCEPT ![l] = None]
  /\ Goto(l, "give_up")
  /\ UNCHANGED <<lockVars, idle, pool_mutex, jobVars, cbVars, message, ticket, logs, seen,
                 workerVars, mainVars>>

AddDiscardsHead(l) ==
  /\ pc[l] = "add" /\ ~paused /\ Full /\ ~NotDiscardable(l)
  /\ ~Head(queue).not_discardable
  /\ victim' = [victim EXCEPT ![l] = Head(queue).buf]
  /\ queue' = Tail(queue)
  /\ finished_id' = Head(queue).id
  /\ Goto(l, "discard")
  /\ UNCHANGED <<lockVars, idle, pool_mutex, job_id, cbVars, message, buf, ticket, logs, seen,
                 workerVars, mainVars>>

(* process_job_(job, false) in the logger's thread: only frees.            *)
DropVictim(l) ==
  /\ pc[l] \in {"give_up", "discard"}
  /\ FreeDropped(victim[l])
  /\ victim' = [victim EXCEPT ![l] = None]
  /\ Goto(l, IF pc[l] = "give_up" THEN "release" ELSE "add")
  /\ UNCHANGED <<lockVars, pool_mutex, jobVars, cbVars, message, buf, ticket, logs, seen,
                 workerVars, mainVars>>

(* Mutant: the wait ends only when a later job is done.                    *)
LaterDone(l) == ticket[l] < finished_id

Done(l) == ticket[l] <= finished_id

WaitDone(l) ==
  /\ pc[l] = "wait_done" /\ Done(l)
  /\ Goto(l, "release")
  /\ UNCHANGED <<lockVars, idle, pool_mutex, jobVars, cbVars, message, buf, victim, ticket, logs,
                 seen, workerVars, mainVars>>

(* The call returns; its locals are gone.                                  *)
Release(l) ==
  /\ pc[l] = "release"
  /\ readers' = readers \ {l}
  /\ message' = [message EXCEPT ![l] = None]
  /\ ticket' = [ticket EXCEPT ![l] = 0]
  /\ seen' = [seen EXCEPT ![l] = <<0, 0>>]
  /\ Goto(l, "idle")
  /\ UNCHANGED <<exist, manager, idle, pool_mutex, jobVars, cbVars, buf, victim, logs,
                 workerVars, mainVars>>

(* log2Callback_: asynclog_lock_ for reading, then the two fields.         *)
ReadCallback(t) ==
  /\ readers' = readers \cup {t}
  /\ seen' = [seen EXCEPT ![t] = <<callback, 0>>]

ReadContext(t) == seen' = [seen EXCEPT ![t] = <<@[1], callback_ctx>>]

AfterCallback(t) == IF callback = 0 THEN "release" ELSE "context"

LoggerReadsCallback(l) ==
  /\ pc[l] = "callback" /\ ReadCallback(l)
  /\ Goto(l, AfterCallback(l))
  /\ UNCHANGED <<exist, manager, idle, pool_mutex, jobVars, cbVars, message, buf, victim, ticket,
                 logs, workerVars, mainVars>>

LoggerCalls(l) ==
  /\ pc[l] = "context" /\ ReadContext(l)
  /\ Goto(l, "release")
  /\ UNCHANGED <<lockVars, idle, pool_mutex, jobVars, cbVars, message, buf, victim, ticket, logs,
                 workerVars, mainVars>>

LoggerStep(l) ==
  \/ AllocFromPool(l) \/ AllocFromHeap(l) \/ AllocExhausted(l) \/ Relog(l)
  \/ AddEnqueues(l) \/ AddGivesUp(l) \/ AddDiscardsHead(l) \/ DropVictim(l)
  \/ WaitDone(l) \/ Release(l) \/ LoggerReadsCallback(l) \/ LoggerCalls(l)

-----------------------------------------------------------------------------
(* The worker: get_job_, process_job_(job, true), then its accounting.     *)

WorkerPops ==
  /\ wpc = "get" /\ queue # <<>>
  /\ hand' = Head(queue)
  /\ queue' = Tail(queue)
  /\ wpc' = "callback"
  /\ UNCHANGED <<lockVars, idle, pool_mutex, job_id, finished_id, cbVars, loggerVars, seen, mainVars>>

WorkerReadsCallback ==
  /\ wpc = "callback" /\ ReadCallback(Worker)
  /\ wpc' = AfterCallback(Worker)
  /\ UNCHANGED <<exist, manager, idle, pool_mutex, jobVars, cbVars, loggerVars, hand, mainVars>>

WorkerCalls ==
  /\ wpc = "context" /\ ReadContext(Worker)
  /\ wpc' = "release"
  /\ UNCHANGED <<lockVars, idle, pool_mutex, jobVars, cbVars, loggerVars, hand, mainVars>>

WorkerReleases ==
  /\ wpc = "release"
  /\ readers' = readers \ {Worker}
  /\ seen' = [seen EXCEPT ![Worker] = <<0, 0>>]
  /\ wpc' = "free"
  /\ UNCHANGED <<exist, manager, idle, pool_mutex, jobVars, cbVars, loggerVars, hand, mainVars>>

WorkerFrees ==
  /\ wpc = "free" /\ FreeBuffer(hand.buf)
  /\ wpc' = "account"
  /\ UNCHANGED <<lockVars, pool_mutex, jobVars, cbVars, loggerVars, seen, hand, mainVars>>

WorkerAccounts ==
  /\ wpc = "account"
  /\ finished_id' = hand.id
  /\ hand' = None
  /\ wpc' = "get"
  /\ UNCHANGED <<lockVars, idle, pool_mutex, queue, job_id, cbVars, loggerVars, seen, mainVars>>

WorkerExits ==
  /\ wpc = "get" /\ queue = <<>> /\ shutdown
  /\ wpc' = "exited"
  /\ UNCHANGED <<lockVars, idle, pool_mutex, jobVars, cbVars, loggerVars, seen, hand, mainVars>>

WorkerStep == WorkerPops \/ WorkerReadsCallback \/ WorkerCalls \/ WorkerReleases
              \/ WorkerFrees \/ WorkerAccounts \/ WorkerExits

-----------------------------------------------------------------------------
(* The main thread: set_logs_callback, start_async_log_thread_ and         *)
(* shutdown_async_log_thread_.                                             *)

(* Mutant: the flush does not wait.                                        *)
FlushAtOnce  == TRUE

Drained  == queue = <<>> /\ hand = None
Unpause  == paused' = FALSE

SetCallback ==
  /\ main = "idle" /\ sets < MaxSets
  /\ sets' = sets + 1
  /\ IF manager = "up" THEN paused' = TRUE /\ main' = "flush"
                       ELSE UNCHANGED paused /\ main' = "store"
  /\ UNCHANGED <<lockVars, idle, pool_mutex, jobVars, cbVars, loggerVars, seen, workerVars, shutdown>>

Flushed ==
  /\ main = "flush" /\ Drained
  /\ main' = "store"
  /\ UNCHANGED <<lockVars, idle, pool_mutex, jobVars, cbVars, loggerVars, seen, workerVars, paused,
                 shutdown, sets>>

(* The pair is written under log_callback_lock_, which nobody else takes.  *)
StoreCallback ==
  /\ main = "store"
  /\ callback' = sets
  /\ main' = "store_ctx"
  /\ UNCHANGED <<lockVars, idle, pool_mutex, jobVars, callback_ctx, loggerVars, seen, workerVars,
                 paused, shutdown, sets>>

StoreContext ==
  /\ main = "store_ctx"
  /\ callback_ctx' = sets
  /\ main' = IF manager = "up" THEN "resume" ELSE "idle"
  /\ UNCHANGED <<lockVars, idle, pool_mutex, jobVars, callback, loggerVars, seen, workerVars,
                 paused, shutdown, sets>>

Resume ==
  /\ main = "resume"
  /\ Unpause
  /\ main' = "idle"
  /\ UNCHANGED <<lockVars, idle, pool_mutex, jobVars, cbVars, loggerVars, seen, workerVars, shutdown, sets>>

Start ==
  /\ main = "idle" /\ manager = "none"
  /\ manager' = "up"
  /\ wpc' = "get"
  /\ main' = "enable"
  /\ UNCHANGED <<readers, exist, idle, pool_mutex, jobVars, cbVars, loggerVars, seen, hand, paused,
                 shutdown, sets>>

Enable ==
  /\ main = "enable" /\ CanWrite
  /\ exist' = TRUE
  /\ main' = "idle"
  /\ UNCHANGED <<readers, manager, idle, pool_mutex, jobVars, cbVars, loggerVars, seen, workerVars,
                 paused, shutdown, sets>>

BeginShutdown ==
  /\ main = "idle" /\ manager = "up"
  /\ main' = "disable"
  /\ UNCHANGED <<lockVars, idle, pool_mutex, jobVars, cbVars, loggerVars, seen, workerVars, paused,
                 shutdown, sets>>

Disable ==
  /\ main = "disable" /\ CanWrite
  /\ exist' = FALSE
  /\ main' = "stop"
  /\ UNCHANGED <<readers, manager, idle, pool_mutex, jobVars, cbVars, loggerVars, seen, workerVars,
                 paused, shutdown, sets>>

Stop ==
  /\ main = "stop"
  /\ shutdown' = TRUE
  /\ main' = "join"
  /\ UNCHANGED <<lockVars, idle, pool_mutex, jobVars, cbVars, loggerVars, seen, workerVars, paused, sets>>

(* The worker is joined; pool, buffers and manager are deleted.            *)
JoinAndDelete ==
  /\ main = "join" /\ wpc = "exited"
  /\ manager' = "deleted"
  /\ main' = "down"
  /\ UNCHANGED <<readers, exist, idle, pool_mutex, jobVars, cbVars, loggerVars, seen, workerVars,
                 paused, shutdown, sets>>

MainStep == Flushed \/ StoreCallback \/ StoreContext \/ Resume \/ Enable \/ Disable \/ Stop \/ JoinAndDelete

-----------------------------------------------------------------------------
Log(l) == \E level \in LogLevels : LogDirect(l, level) \/ \E big \in LogSizes : LogAsync(l, level, big)

Next ==
  \/ \E l \in Loggers : Log(l) \/ LoggerStep(l)
  \/ WorkerStep
  \/ MainStep \/ SetCallback \/ Start \/ BeginShutdown

Spec == Init /\ [][Next]_vars

(* Threads are scheduled; nobody has to log, or to set a callback.  The    *)
(* program ends with the destructor of InnoLog, so shutdown does begin.    *)
Fairness ==
  /\ \A l \in Loggers : WF_vars(LoggerStep(l))
  /\ WF_vars(WorkerStep)
  /\ WF_vars(MainStep) /\ WF_vars(Start \/ BeginShutdown)
-----------------------------------------------------------------------------
TypeOK ==
  /\ readers \subseteq Threads /\ exist \in BOOLEAN /\ manager \in {"none", "up", "deleted"}
  /\ idle \in Seq(Buffers) /\ pool_mutex \in Loggers \cup {None}
  /\ queue \in Seq(Entries) /\ Len(queue) <= QueueSize
  /\ job_id \in 0..MaxLogs /\ finished_id \in 0..job_id
  /\ paused \in BOOLEAN /\ shutdown \in BOOLEAN
  /\ callback \in 0..MaxSets /\ callback_ctx \in 0..MaxSets
  /\ pc \in [Loggers -> {"idle", "alloc", "relog", "add", "give_up", "discard", "wait_done",
                         "callback", "context", "release"}]
  /\ message \in [Loggers -> [level : Levels, big : BOOLEAN] \cup {None}]
  /\ buf \in [Loggers -> Buffers \cup {Heap, None}] /\ victim \in [Loggers -> Buffers \cup {Heap, None}]
  /\ ticket \in [Loggers -> 0..job_id]
  /\ seen \in [Threads -> (0..MaxSets) \X (0..MaxSets)]
  /\ wpc \in {"off", "get", "callback", "context", "release", "free", "account", "exited"}
  /\ hand \in Entries \cup {None}
  /\ main \in {"idle", "flush", "store", "store_ctx", "resume", "enable", "disable", "stop",
              "join", "down"}
  /\ logs \in 0..MaxLogs /\ sets \in 0..MaxSets

(* Where a pool buffer is.                                                 *)
Places(b) ==
  {<<"idle", i>> : i \in {x \in DOMAIN idle : idle[x] = b}}
    \cup {<<"caller", l>> : l \in {x \in Loggers : buf[x] = b}}
    \cup {<<"victim", l>> : l \in {x \in Loggers : victim[x] = b}}
    \cup {<<"queue", i>> : i \in {x \in DOMAIN queue : queue[x].buf = b}}
    \cup {<<"worker", 0>> : x \in {y \in {hand} : y # None /\ y.buf = b /\ wpc # "account"}}

(* Every unit of the message pool is in exactly one place, whatever is     *)
(* discarded, given up or written: none leaks and none is freed twice.     *)
BuffersAccounted == \A b \in Buffers : Cardinality(Places(b)) = 1

(* shutdown_async_log_thread_ deletes the manager only when no thread is   *)
(* inside add_log_job, the worker is gone and every buffer is back, which  *)
(* is what ~MemPoolManager panics about.                                   *)
DeletedIsQuiet ==
  manager = "deleted" =>
    /\ wpc = "exited" /\ queue = <<>> /\ Len(idle) = BufferCount
    /\ \A l \in Loggers : pc[l] \notin {"alloc", "relog", "add", "give_up", "discard", "wait_done"}

(* The worker never calls a log callback with the context of another one,  *)
(* though set_logs_callback writes the two under a lock it does not take.  *)
WorkerCallsWholePair == wpc = "release" => seen[Worker][1] = seen[Worker][2]

(* Every log call returns, the one of a critical message included, which   *)
(* waits for the worker with asynclog_lock_ held; unless a message found   *)
(* the pool empty and waits for the mutex it holds.                        *)
LogCallsReturn ==
  \A l \in Loggers : pc[l] # "idle" ~> (pc[l] = "idle" \/ pool_mutex # None)

(* Once begun, the shutdown of the asynchronous logger ends, with the same *)
(* exception.                                                              *)
ShutdownReturns == main = "disable" ~> (main = "down" \/ pool_mutex # None)
=============================================================================
