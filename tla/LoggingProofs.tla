---------------------------- MODULE LoggingProofs ----------------------------
(***************************************************************************)
(* The parts of the logger: the asynchronous logger (AsyncLog) for any     *)
(* number of logging threads, buffers, messages and replaced callbacks,    *)
(* and any queue size; the log files (RotateLog) with one thread that      *)
(* writes and any number of restarts; and the filter for repeated messages *)
(* (LogStorm).                                                             *)
(***************************************************************************)
EXTENDS AsyncLog, LogStorm, RotateLog, FiniteSetTheorems, FunctionTheorems, SequenceTheorems,
        WellFoundedInduction, TLAPS

-----------------------------------------------------------------------------
(* The asynchronous logger.                                                *)
Inside == {"alloc", "relog", "add", "give_up", "discard", "wait_done"}

Types ==
  /\ readers \subseteq Threads /\ exist \in BOOLEAN
  /\ manager \in {"none", "up", "deleted"}
  /\ idle \in Seq(Buffers) /\ queue \in Seq(Entries) /\ job_id \in Nat
  /\ callback \in Nat /\ callback_ctx \in Nat /\ sets \in Nat
  /\ pc \in [Loggers -> Inside \cup {"idle", "callback", "context", "release"}]
  /\ buf \in [Loggers -> Buffers \cup {Heap, None}]
  /\ victim \in [Loggers -> Buffers \cup {Heap, None}]
  /\ seen \in [Threads -> Nat \X Nat]
  /\ wpc \in {"off", "get", "callback", "context", "release", "free", "account", "exited"}
  /\ hand \in Entries \cup {None}
  /\ main \in {"idle", "flush", "store", "store_ctx", "resume", "enable", "disable", "stop",
               "join", "down"}

(* What the program counters say about the locals.                         *)
Shape ==
  /\ \A l \in Loggers : buf[l] # None <=> pc[l] \in {"add", "discard"}
  /\ \A l \in Loggers : victim[l] # None <=> pc[l] \in {"give_up", "discard"}
  /\ hand # None <=> wpc \notin {"off", "get", "exited"}
  /\ manager = "none" => wpc = "off"

Typed == Types /\ Shape

LEMMA TypedInit == Init => Typed
  <1> SUFFICES ASSUME Init PROVE Typed
    OBVIOUS
  <1>1. idle \in Seq(Buffers)
    <2>1. idle \in [1..BufferCount -> Buffers] /\ BufferCount \in Nat
      BY ConstantAssumption DEF Init, ConstantAssumption, Buffers
    <2> QED BY <2>1, SeqDef
  <1>2. Types
    <2>1. queue \in Seq(Entries)
      BY EmptySeq DEF Init
    <2>2. seen \in [Threads -> Nat \X Nat]
      BY DEF Init
    <2>3. /\ pc \in [Loggers -> Inside \cup {"idle", "callback", "context", "release"}]
          /\ buf \in [Loggers -> Buffers \cup {Heap, None}]
          /\ victim \in [Loggers -> Buffers \cup {Heap, None}]
          /\ hand \in Entries \cup {None}
      BY DEF Init
    <2> QED BY <1>1, <2>1, <2>2, <2>3 DEF Init, Types
  <1>3. Shape
    BY DEF Init, Shape
  <1> QED BY <1>2, <1>3 DEF Typed

(* The head and the tail of a queue of entries.                            *)
LEMMA HeadOfQueue ==
  ASSUME NEW q \in Seq(Entries), q # <<>>
  PROVE  /\ Head(q) \in Entries /\ Head(q).buf \in Buffers \cup {Heap} /\ Head(q).id \in Nat
         /\ Tail(q) \in Seq(Entries) /\ Head(q) # None
  <1>1. Head(q) \in Entries /\ Tail(q) \in Seq(Entries)
    BY HeadTailProperties
  <1>2. Head(q) # None
    BY <1>1, NoneAssumption DEF NoneAssumption
  <1>3. Head(q).buf \in Buffers \cup {Heap} /\ Head(q).id \in Nat
    BY <1>1 DEF Entries
  <1> QED BY <1>1, <1>2, <1>3

LEMMA HeadOfIdle ==
  ASSUME NEW q \in Seq(Buffers), q # <<>>
  PROVE  Head(q) \in Buffers /\ Tail(q) \in Seq(Buffers)
  BY HeadTailProperties

LEMMA FreedIsTyped ==
  ASSUME idle \in Seq(Buffers), NEW b \in Buffers \cup {Heap}, FreeBuffer(b)
  PROVE  idle' \in Seq(Buffers)
  <1>1. CASE b = Heap
    BY <1>1 DEF FreeBuffer
  <1>2. CASE b # Heap
    <2>1. b \in Buffers /\ idle' = Append(idle, b)
      BY <1>2 DEF FreeBuffer
    <2> QED BY <2>1, AppendProperties
  <1> QED BY <1>1, <1>2

LEMMA TypedLogger ==
  ASSUME Typed, NEW l \in Loggers, LoggerStep(l)
  PROVE  Typed'
  <1> USE ConstantAssumption
      DEF ConstantAssumption, Typed, Types, Shape, Inside, Threads, Goto, lockVars,
          jobVars, cbVars, loggerVars, workerVars, mainVars
  <1>1. CASE AllocFromPool(l)
    <2>1. Head(idle) \in Buffers /\ Tail(idle) \in Seq(Buffers)
      BY <1>1, HeadOfIdle DEF AllocFromPool
    <2> QED BY <1>1, <2>1 DEF AllocFromPool
  <1>2. CASE AllocFromHeap(l)
    BY <1>2 DEF AllocFromHeap
  <1>3. CASE AllocExhausted(l)
    BY <1>3 DEF AllocExhausted
  <1>10. CASE Relog(l)
    BY <1>10 DEF Relog
  <1>4. CASE AddEnqueues(l)
    <2> DEFINE e == [buf |-> buf[l], id |-> job_id + 1, not_discardable |-> NotDiscardable(l)]
    <2>1. e \in Entries
      BY <1>4 DEF AddEnqueues, Entries, NotDiscardable
    <2> HIDE DEF e
    <2>2. Append(queue, e) \in Seq(Entries)
      BY <2>1, AppendProperties
    <2>3. queue' = Append(queue, e) /\ job_id' = job_id + 1 /\ buf' = [buf EXCEPT ![l] = None]
          /\ pc[l] = "add" /\ pc' = [pc EXCEPT ![l] = pc'[l]] /\ pc'[l] \in {"wait_done", "release"}
      BY <1>4 DEF AddEnqueues, e
    <2> QED BY <1>4, <2>2, <2>3 DEF AddEnqueues
  <1>5. CASE AddGivesUp(l)
    BY <1>5 DEF AddGivesUp
  <1>6. CASE AddDiscardsHead(l)
    <2>1. queue # <<>>
      BY <1>6 DEF AddDiscardsHead, Full
    <2>2. Head(queue).buf \in Buffers \cup {Heap} /\ Tail(queue) \in Seq(Entries)
      BY <2>1, HeadOfQueue
    <2> QED BY <1>6, <2>2 DEF AddDiscardsHead
  <1>7. CASE DropVictim(l)
    <2>1. victim[l] \in Buffers \cup {Heap}
      BY <1>7 DEF DropVictim
    <2>2. idle' \in Seq(Buffers)
      BY <1>7, <2>1, FreedIsTyped DEF DropVictim, FreeDropped
    <2> QED BY <1>7, <2>2 DEF DropVictim
  <1>8. CASE WaitDone(l)
    BY <1>8 DEF WaitDone
  <1>11. CASE Release(l)
    BY <1>11 DEF Release
  <1>9. CASE LoggerReadsCallback(l)
    BY <1>9 DEF LoggerReadsCallback, ReadCallback, AfterCallback
  <1>12. CASE LoggerCalls(l)
    BY <1>12 DEF LoggerCalls, ReadContext
  <1> QED BY <1>1, <1>2, <1>3, <1>4, <1>5, <1>6, <1>7, <1>8, <1>9, <1>10, <1>11, <1>12 DEF LoggerStep

LEMMA TypedWorker ==
  ASSUME Typed, WorkerStep
  PROVE  Typed'
  <1> USE ConstantAssumption
      DEF ConstantAssumption, Typed, Types, Shape, Inside, Threads, lockVars,
          jobVars, cbVars, loggerVars, workerVars, mainVars
  <1>1. CASE WorkerPops
    <2>1. Head(queue) \in Entries /\ Tail(queue) \in Seq(Entries) /\ Head(queue) # None
      BY <1>1, HeadOfQueue DEF WorkerPops
    <2> QED BY <1>1, <2>1 DEF WorkerPops
  <1>2. CASE WorkerReadsCallback
    BY <1>2 DEF WorkerReadsCallback, ReadCallback, AfterCallback
  <1>3. CASE WorkerCalls
    BY <1>3 DEF WorkerCalls, ReadContext
  <1>4. CASE WorkerReleases
    BY <1>4 DEF WorkerReleases
  <1>5. CASE WorkerFrees
    <2>1. hand.buf \in Buffers \cup {Heap}
      BY <1>5 DEF WorkerFrees, Entries
    <2>2. idle' \in Seq(Buffers)
      BY <1>5, <2>1, FreedIsTyped DEF WorkerFrees
    <2> QED BY <1>5, <2>2 DEF WorkerFrees
  <1>6. CASE WorkerAccounts
    BY <1>6 DEF WorkerAccounts
  <1>7. CASE WorkerExits
    BY <1>7 DEF WorkerExits
  <1> QED BY <1>1, <1>2, <1>3, <1>4, <1>5, <1>6, <1>7 DEF WorkerStep

LEMMA TypedStep == Typed /\ [Next]_vars => Typed'
  <1> SUFFICES ASSUME Typed, [Next]_vars PROVE Typed'
    OBVIOUS
  <1> USE DEF lockVars, jobVars, cbVars, loggerVars, workerVars, mainVars
  <1>1. ASSUME NEW l \in Loggers, Log(l) PROVE Typed'
    <2>1. /\ pc[l] = "idle" /\ pc' = [pc EXCEPT ![l] = pc'[l]] /\ pc'[l] \in {"alloc", "callback"}
          /\ readers' \subseteq readers \cup {l}
      BY <1>1 DEF Log, LogAsync, LogDirect, LogBegins, HoldForAdd, Goto, Typed, Types
    <2>2. UNCHANGED <<exist, manager, idle, jobVars, cbVars, buf, victim, seen, workerVars, mainVars>>
      BY <1>1 DEF Log, LogAsync, LogDirect
    <2>3. pc' \in [Loggers -> Inside \cup {"idle", "callback", "context", "release"}]
          /\ readers' \subseteq Threads
      BY <2>1 DEF Typed, Types, Inside, Threads
    <2>4. Types'
      BY <2>2, <2>3 DEF Typed, Types
    <2>5. \A k \in Loggers : pc[k] \in {"add", "discard"} <=> pc'[k] \in {"add", "discard"}
      BY <2>1 DEF Typed, Types
    <2>6. \A k \in Loggers : pc[k] \in {"give_up", "discard"} <=> pc'[k] \in {"give_up", "discard"}
      BY <2>1 DEF Typed, Types
    <2>7. Shape'
      BY <2>2, <2>5, <2>6, Zenon DEF Typed, Shape, workerVars
    <2> QED BY <2>4, <2>7 DEF Typed
  <1>2. ASSUME NEW l \in Loggers, LoggerStep(l) PROVE Typed'
    BY <1>2, TypedLogger
  <1>3. CASE WorkerStep
    BY <1>3, TypedWorker
  <1>4. CASE SetCallback \/ Flushed \/ StoreCallback \/ StoreContext \/ Resume
    BY <1>4 DEF SetCallback, Flushed, StoreCallback, StoreContext, Resume, Typed, Types, Shape
  <1>5. CASE Start \/ BeginShutdown \/ Enable \/ Disable \/ Stop \/ JoinAndDelete
    BY <1>5 DEF Start, BeginShutdown, Enable, Disable, Stop, JoinAndDelete, Typed, Types, Shape
  <1>6. CASE UNCHANGED vars
    BY <1>6 DEF vars, Typed, Types, Shape
  <1> QED BY <1>1, <1>2, <1>3, <1>4, <1>5, <1>6 DEF Next, MainStep

-----------------------------------------------------------------------------
(* WorkerCallsWholePair.  While the pair is written the pool is paused and *)
(* drained, so the worker has nothing it could call the callback for; what *)
(* it has read of the pair is what is stored until it has called.          *)
PairIsStable ==
  /\ main # "store_ctx" => callback = callback_ctx
  /\ main = "store_ctx" => callback = sets
  /\ main = "flush" => manager = "up"
  /\ main \in {"flush", "store", "store_ctx", "resume"} /\ manager = "up" => paused
  /\ main \in {"store", "store_ctx"} => queue = <<>> /\ hand = None
  /\ manager = "none" => queue = <<>>
  /\ wpc = "context" => seen[Worker][1] = callback
  /\ wpc = "release" => seen[Worker][1] = seen[Worker][2]

(* The two phases of the manager's life, and the lock: whoever is inside   *)
(* add_log_job holds it, and shutdown takes it for writing.                *)
QuietEnd ==
  /\ \A l \in Loggers : pc[l] \in Inside => l \in readers
  /\ exist => main \notin {"enable", "stop", "join", "down"} /\ manager = "up"
  /\ manager # "up" => \A l \in Loggers : pc[l] \notin Inside
  /\ main \in {"stop", "join", "down"} => \A l \in Loggers : pc[l] \notin Inside
  /\ main \in {"enable", "disable", "stop", "join"} => manager = "up"
  /\ manager = "deleted" <=> main = "down"
  /\ shutdown => main \in {"join", "down"}
  /\ wpc = "exited" => queue = <<>> /\ main \in {"join", "down"}
  /\ main = "down" => wpc = "exited"

LEMMA QuietLogger ==
  ASSUME Typed, QuietEnd, NEW l \in Loggers, LoggerStep(l)
  PROVE  QuietEnd'
  <1>1. UNCHANGED <<exist, manager, main, shutdown, wpc>>
    BY DEF LoggerStep, AllocFromPool, AllocFromHeap, AllocExhausted, Relog, AddEnqueues, AddGivesUp,
           AddDiscardsHead, DropVictim, WaitDone, Release, LoggerReadsCallback, LoggerCalls,
           lockVars, mainVars, workerVars
  <1>2. pc' = [pc EXCEPT ![l] = pc'[l]] /\ pc \in [Loggers -> Inside \cup {"idle", "callback", "context", "release"}]
    BY DEF LoggerStep, AllocFromPool, AllocFromHeap, AllocExhausted, Relog, AddEnqueues, AddGivesUp,
           AddDiscardsHead, DropVictim, WaitDone, Release, LoggerReadsCallback, LoggerCalls, Goto,
           Typed, Types
  <1>3. /\ pc'[l] \in Inside => pc[l] \in Inside
        /\ pc[l] \notin Inside => UNCHANGED queue
        /\ readers' = readers \/ readers' = readers \cup {l} \/ (readers' = readers \ {l} /\ pc'[l] = "idle")
    <2> USE <1>2 DEF Goto, Inside, lockVars, jobVars
    <2>1. CASE AllocFromPool(l) \/ AllocFromHeap(l) \/ AllocExhausted(l) \/ Relog(l)
      BY <2>1 DEF AllocFromPool, AllocFromHeap, AllocExhausted, Relog
    <2>2. CASE AddEnqueues(l) \/ AddGivesUp(l) \/ AddDiscardsHead(l)
      BY <2>2 DEF AddEnqueues, AddGivesUp, AddDiscardsHead
    <2>3. CASE DropVictim(l) \/ WaitDone(l) \/ Release(l)
      BY <2>3 DEF DropVictim, WaitDone, Release
    <2>4. CASE LoggerReadsCallback(l) \/ LoggerCalls(l)
      BY <2>4 DEF LoggerReadsCallback, LoggerCalls, ReadCallback, AfterCallback
    <2> QED BY <2>1, <2>2, <2>3, <2>4 DEF LoggerStep
  <1>4. \A k \in Loggers : pc'[k] \in Inside => pc[k] \in Inside
    BY <1>2, <1>3
  <1>5. \A k \in Loggers : pc'[k] \in Inside => k \in readers'
    BY <1>2, <1>3, <1>4 DEF QuietEnd, Inside
  <1>6. wpc = "exited" => queue' = <<>>
    BY <1>3 DEF QuietEnd
  <1> QED BY <1>1, <1>4, <1>5, <1>6 DEF QuietEnd

LEMMA QuietWorker ==
  ASSUME Typed, QuietEnd, WorkerStep
  PROVE  QuietEnd'
  <1>1. UNCHANGED <<exist, manager, main, shutdown, pc>> /\ wpc # "exited"
    BY DEF WorkerStep, WorkerPops, WorkerReadsCallback, WorkerCalls, WorkerReleases, WorkerFrees,
           WorkerAccounts, WorkerExits, lockVars, mainVars, loggerVars
  <1>2. readers \ {Worker} \subseteq readers'
    BY DEF WorkerStep, WorkerPops, WorkerReadsCallback, WorkerCalls, WorkerReleases, WorkerFrees,
           WorkerAccounts, WorkerExits, lockVars, ReadCallback
  <1>3. \A k \in Loggers : pc'[k] \in Inside => k \in readers'
    BY <1>1, <1>2, ConstantAssumption DEF QuietEnd, ConstantAssumption
  <1>4. wpc' = "exited" => queue' = <<>> /\ shutdown
    BY <1>1 DEF WorkerStep, WorkerPops, WorkerReadsCallback, WorkerCalls, WorkerReleases, WorkerFrees,
           WorkerAccounts, WorkerExits, jobVars, AfterCallback
  <1> QED BY <1>1, <1>3, <1>4 DEF QuietEnd

LEMMA QuietStep == Typed /\ QuietEnd /\ [Next]_vars => QuietEnd'
  <1> SUFFICES ASSUME Typed, QuietEnd, [Next]_vars PROVE QuietEnd'
    OBVIOUS
  <1> USE DEF lockVars, jobVars, cbVars, loggerVars, workerVars, mainVars
  <1>1. ASSUME NEW l \in Loggers, Log(l) PROVE QuietEnd'
    <2>1. /\ pc' = [pc EXCEPT ![l] = pc'[l]] /\ pc'[l] \in {"alloc", "callback"}
          /\ pc'[l] = "alloc" => exist /\ readers' = readers \cup {l}
          /\ readers \subseteq readers'
      BY <1>1 DEF Log, LogAsync, LogDirect, LogBegins, HoldForAdd, Goto, Typed, Types
    <2>2. UNCHANGED <<exist, manager, main, shutdown, wpc, queue>>
      BY <1>1 DEF Log, LogAsync, LogDirect
    <2> QED BY <2>1, <2>2 DEF QuietEnd, Typed, Types, Inside
  <1>2. ASSUME NEW l \in Loggers, LoggerStep(l) PROVE QuietEnd'
    BY <1>2, QuietLogger
  <1>3. CASE WorkerStep
    BY <1>3, QuietWorker
  <1>4. CASE SetCallback
    BY <1>4 DEF SetCallback, QuietEnd
  <1>5. CASE Flushed \/ StoreCallback \/ StoreContext \/ Resume
    BY <1>5 DEF Flushed, StoreCallback, StoreContext, Resume, QuietEnd
  <1>6. CASE Start \/ BeginShutdown \/ Enable \/ Stop
    BY <1>6 DEF Start, BeginShutdown, Enable, Stop, QuietEnd, Typed, Shape
  <1>7. CASE Disable
    <2>1. \A l \in Loggers : pc[l] \notin Inside
      BY <1>7 DEF Disable, CanWrite, QuietEnd
    <2> QED BY <1>7, <2>1 DEF Disable, QuietEnd
  <1>8. CASE JoinAndDelete
    BY <1>8 DEF JoinAndDelete, QuietEnd
  <1>9. CASE UNCHANGED vars
    BY <1>9 DEF vars, QuietEnd
  <1> QED BY <1>1, <1>2, <1>3, <1>4, <1>5, <1>6, <1>7, <1>8, <1>9 DEF Next, MainStep

LEMMA PairLogger ==
  ASSUME Typed, PairIsStable, QuietEnd, NEW l \in Loggers, LoggerStep(l)
  PROVE  PairIsStable'
  <1>1. UNCHANGED <<manager, main, paused, sets, callback, callback_ctx, wpc, hand>>
    BY DEF LoggerStep, AllocFromPool, AllocFromHeap, AllocExhausted, Relog, AddEnqueues, AddGivesUp,
           AddDiscardsHead, DropVictim, WaitDone, Release, LoggerReadsCallback, LoggerCalls,
           lockVars, cbVars, mainVars, workerVars
  <1>2. seen' = seen \/ seen' = [seen EXCEPT ![l] = seen'[l]]
    BY DEF LoggerStep, AllocFromPool, AllocFromHeap, AllocExhausted, Relog, AddEnqueues, AddGivesUp,
           AddDiscardsHead, DropVictim, WaitDone, Release, LoggerReadsCallback, LoggerCalls,
           ReadCallback, ReadContext, Typed, Types, Threads
  <1>3. seen'[Worker] = seen[Worker]
    BY <1>2, ConstantAssumption DEF ConstantAssumption, Typed, Types, Threads
  <1>4. queue' = queue \/ (pc[l] = "add" /\ ~paused /\ queue # <<>>) \/ AddEnqueues(l)
    <2>1. CASE AddDiscardsHead(l)
      BY <2>1, ConstantAssumption DEF AddDiscardsHead, Full, ConstantAssumption
    <2> QED
      BY <2>1 DEF LoggerStep, AllocFromPool, AllocFromHeap, AllocExhausted, Relog, AddGivesUp,
             DropVictim, WaitDone, Release, LoggerReadsCallback, LoggerCalls, jobVars
  <1>5. queue' = queue \/ (pc[l] = "add" /\ ~paused)
    BY <1>4 DEF AddEnqueues
  <1>6. queue' # queue => manager = "up" /\ main \notin {"store", "store_ctx"}
    <2> SUFFICES ASSUME queue' # queue
                 PROVE  manager = "up" /\ main \notin {"store", "store_ctx"}
      OBVIOUS
    <2>1. manager = "up" /\ ~paused
      BY <1>5 DEF QuietEnd, Inside
    <2> QED BY <2>1 DEF PairIsStable
  <1>7. main \in {"store", "store_ctx"} => queue' = <<>> /\ hand = None
    BY <1>6 DEF PairIsStable
  <1>8. manager = "none" => queue' = <<>>
    BY <1>6 DEF PairIsStable
  <1> QED BY <1>1, <1>3, <1>7, <1>8 DEF PairIsStable

LEMMA PairWorker ==
  ASSUME Typed, PairIsStable, WorkerStep
  PROVE  PairIsStable'
  <1> USE ConstantAssumption
      DEF ConstantAssumption, PairIsStable, Typed, Types, Shape, Threads, lockVars, jobVars, cbVars,
          mainVars
  <1>1. CASE WorkerPops
    <2>1. main \notin {"store", "store_ctx"} /\ manager # "none"
      BY <1>1 DEF WorkerPops
    <2> QED BY <1>1, <2>1 DEF WorkerPops
  <1>2. CASE WorkerReadsCallback
    <2>1. seen'[Worker] = <<callback, 0>>
      BY <1>2 DEF WorkerReadsCallback, ReadCallback
    <2>2. wpc' = "context" \/ (wpc' = "release" /\ callback = 0)
      BY <1>2 DEF WorkerReadsCallback, AfterCallback
    <2> QED BY <1>2, <2>1, <2>2 DEF WorkerReadsCallback
  <1>3. CASE WorkerCalls
    <2>1. main \notin {"store", "store_ctx"}
      BY <1>3 DEF WorkerCalls
    <2>2. seen'[Worker] = <<seen[Worker][1], callback_ctx>>
      BY <1>3 DEF WorkerCalls, ReadContext
    <2> QED BY <1>3, <2>1, <2>2 DEF WorkerCalls
  <1>4. CASE WorkerReleases
    BY <1>4 DEF WorkerReleases
  <1>5. CASE WorkerFrees
    BY <1>5 DEF WorkerFrees
  <1>6. CASE WorkerAccounts
    BY <1>6 DEF WorkerAccounts
  <1>7. CASE WorkerExits
    BY <1>7 DEF WorkerExits
  <1> QED BY <1>1, <1>2, <1>3, <1>4, <1>5, <1>6, <1>7 DEF WorkerStep

LEMMA PairStep == Typed /\ PairIsStable /\ QuietEnd /\ [Next]_vars => PairIsStable'
  <1> SUFFICES ASSUME Typed, PairIsStable, QuietEnd, [Next]_vars PROVE PairIsStable'
    OBVIOUS
  <1> USE DEF lockVars, jobVars, cbVars, loggerVars, workerVars, mainVars
  <1>1. ASSUME NEW l \in Loggers, Log(l) PROVE PairIsStable'
    <2>1. UNCHANGED <<main, manager, paused, sets, callback, callback_ctx, queue, hand, wpc, seen>>
      BY <1>1 DEF Log, LogAsync, LogDirect
    <2> QED BY <2>1 DEF PairIsStable
  <1>2. ASSUME NEW l \in Loggers, LoggerStep(l) PROVE PairIsStable'
    BY <1>2, PairLogger
  <1>3. CASE WorkerStep
    BY <1>3, PairWorker
  <1>4. CASE SetCallback
    <2>1. manager \in {"up", "none"}
      BY <1>4 DEF SetCallback, QuietEnd, Typed, Types
    <2>2. manager = "none" => queue = <<>> /\ hand = None
      BY DEF PairIsStable, Typed, Shape
    <2> QED BY <1>4, <2>1, <2>2 DEF SetCallback, PairIsStable
  <1>5. CASE Flushed
    BY <1>5 DEF Flushed, Drained, PairIsStable
  <1>6. CASE StoreCallback
    BY <1>6 DEF StoreCallback, PairIsStable, Typed, Shape
  <1>7. CASE StoreContext
    <2>1. wpc \notin {"context", "release"}
      BY <1>7 DEF StoreContext, PairIsStable, Typed, Shape
    <2>2. callback = sets
      BY <1>7 DEF StoreContext, PairIsStable
    <2> QED BY <1>7, <2>1, <2>2 DEF StoreContext, PairIsStable
  <1>8. CASE Resume
    BY <1>8 DEF Resume, Unpause, PairIsStable
  <1>9. CASE Start \/ BeginShutdown \/ Enable \/ Disable \/ Stop \/ JoinAndDelete
    BY <1>9 DEF Start, BeginShutdown, Enable, Disable, Stop, JoinAndDelete, PairIsStable
  <1>10. CASE UNCHANGED vars
    BY <1>10 DEF vars, PairIsStable
  <1> QED BY <1>1, <1>2, <1>3, <1>4, <1>5, <1>6, <1>7, <1>8, <1>9, <1>10 DEF Next, MainStep

-----------------------------------------------------------------------------
(* BuffersAccounted.  The five kinds of place a unit of the pool can be    *)
(* in: it is in one place of one kind.                                     *)
IdleUnits   == {idle[i] : i \in 1..Len(idle)}
QueuedUnits == {queue[i].buf : i \in 1..Len(queue)}
Held(f)     == {f[l] : l \in Loggers}
HandUnits   == IF hand = None \/ wpc = "account" THEN {} ELSE {hand.buf}

OnceIdle(q)   == \A i, j \in 1..Len(q) : q[i] = q[j] => i = j
OnceQueued(q) == \A i, j \in 1..Len(q) : q[i].buf = q[j].buf /\ q[i].buf \in Buffers => i = j
OnceHeld(f)   == \A k, l \in Loggers : f[k] = f[l] /\ f[k] \in Buffers => k = l

OnePlace(i, c, v, q, h) ==
  \A b \in Buffers :
    /\ b \in i => b \notin c /\ b \notin v /\ b \notin q /\ b \notin h
    /\ b \in c => b \notin v /\ b \notin q /\ b \notin h
    /\ b \in v => b \notin q /\ b \notin h
    /\ b \in q => b \notin h
    /\ b \in i \/ b \in c \/ b \in v \/ b \in q \/ b \in h

UnitsOnce ==
  /\ OnceIdle(idle) /\ OnceQueued(queue) /\ OnceHeld(buf) /\ OnceHeld(victim)
  /\ OnePlace(IdleUnits, Held(buf), Held(victim), QueuedUnits, HandUnits)

(* How a kind of place gains and loses a unit.                             *)
Gains(new, old, x) == \A b \in Buffers : b \in new <=> b \in old \/ b = x
Loses(new, old, x) == \A b \in Buffers : b \in new <=> b \in old /\ b # x
Keeps(new, old)    == \A b \in Buffers : b \in new <=> b \in old

LEMMA HolderGains ==
  ASSUME NEW f \in [Loggers -> Buffers \cup {Heap, None}], NEW l \in Loggers, f[l] = None,
         OnceHeld(f), NEW x, x \in Buffers => x \notin Held(f)
  PROVE  OnceHeld([f EXCEPT ![l] = x]) /\ Gains(Held([f EXCEPT ![l] = x]), Held(f), x)
  <1> DEFINE g == [f EXCEPT ![l] = x]
  <1>1. DOMAIN g = Loggers /\ g[l] = x /\ \A k \in Loggers \ {l} : g[k] = f[k]
    OBVIOUS
  <1>2. None \notin Buffers
    BY ConstantAssumption DEF ConstantAssumption
  <1> HIDE DEF g
  <1>3. OnceHeld(g)
    BY <1>1 DEF OnceHeld, Held
  <1>4. Gains(Held(g), Held(f), x)
    BY <1>1, <1>2 DEF Held, Gains
  <1> QED BY <1>3, <1>4 DEF g

LEMMA HolderLoses ==
  ASSUME NEW f \in [Loggers -> Buffers \cup {Heap, None}], NEW l \in Loggers, OnceHeld(f)
  PROVE  OnceHeld([f EXCEPT ![l] = None]) /\ Loses(Held([f EXCEPT ![l] = None]), Held(f), f[l])
  <1> DEFINE g == [f EXCEPT ![l] = None]
  <1>1. DOMAIN g = Loggers /\ g[l] = None /\ \A k \in Loggers \ {l} : g[k] = f[k]
    OBVIOUS
  <1>2. None \notin Buffers
    BY ConstantAssumption DEF ConstantAssumption
  <1> HIDE DEF g
  <1>3. OnceHeld(g)
    BY <1>1, <1>2 DEF OnceHeld
  <1>4. Loses(Held(g), Held(f), f[l])
    BY <1>1, <1>2 DEF Held, Loses, OnceHeld
  <1> QED BY <1>3, <1>4 DEF g

LEMMA IdleLoses ==
  ASSUME idle \in Seq(Buffers), idle # <<>>, OnceIdle(idle), idle' = Tail(idle)
  PROVE  OnceIdle(idle') /\ Loses(IdleUnits', IdleUnits, Head(idle)) /\ Head(idle) \in IdleUnits
  <1>1. /\ Len(idle) \in Nat \ {0} /\ Len(idle') = Len(idle) - 1 /\ Head(idle) = idle[1]
        /\ \A i \in 1..Len(idle') : idle'[i] = idle[i + 1]
    BY HeadTailProperties, LenProperties
  <1>2. OnceIdle(idle')
    BY <1>1 DEF OnceIdle
  <1>3. ASSUME NEW b \in IdleUnits, b # Head(idle) PROVE b \in IdleUnits'
    <2>1. PICK i \in 1..Len(idle) : idle[i] = b
      BY DEF IdleUnits
    <2>2. i - 1 \in 1..Len(idle') /\ idle'[i - 1] = b
      BY <1>1, <1>3, <2>1
    <2> QED BY <2>2 DEF IdleUnits
  <1>4. ASSUME NEW b \in IdleUnits' PROVE b \in IdleUnits /\ b # Head(idle)
    <2>1. PICK i \in 1..Len(idle') : idle'[i] = b
      BY DEF IdleUnits
    <2>2. i + 1 \in 1..Len(idle) /\ idle[i + 1] = b /\ 1 \in 1..Len(idle)
      BY <1>1, <2>1
    <2> QED BY <1>1, <2>2 DEF IdleUnits, OnceIdle
  <1>5. Head(idle) \in IdleUnits
    BY <1>1 DEF IdleUnits
  <1> QED BY <1>2, <1>3, <1>4, <1>5 DEF Loses

LEMMA IdleGains ==
  ASSUME idle \in Seq(Buffers), OnceIdle(idle), NEW b \in Buffers, b \notin IdleUnits,
         idle' = Append(idle, b)
  PROVE  OnceIdle(idle') /\ Gains(IdleUnits', IdleUnits, b)
  <1>1. /\ Len(idle) \in Nat /\ Len(idle') = Len(idle) + 1 /\ idle'[Len(idle')] = b
        /\ \A i \in 1..Len(idle) : idle'[i] = idle[i]
    BY AppendProperties, LenProperties
  <1>2. OnceIdle(idle')
    BY <1>1 DEF OnceIdle, IdleUnits
  <1>3. \A x \in IdleUnits : x \in IdleUnits'
    BY <1>1 DEF IdleUnits
  <1>4. b \in IdleUnits'
    BY <1>1 DEF IdleUnits
  <1>5. \A x \in IdleUnits' : x \in IdleUnits \/ x = b
    BY <1>1 DEF IdleUnits
  <1> QED BY <1>2, <1>3, <1>4, <1>5 DEF Gains

LEMMA QueueLoses ==
  ASSUME queue \in Seq(Entries), queue # <<>>, OnceQueued(queue), queue' = Tail(queue)
  PROVE  /\ OnceQueued(queue') /\ Head(queue).buf \in QueuedUnits
         /\ Loses(QueuedUnits', QueuedUnits, Head(queue).buf)
  <1>1. /\ Len(queue) \in Nat \ {0} /\ Len(queue') = Len(queue) - 1 /\ Head(queue) = queue[1]
        /\ \A i \in 1..Len(queue') : queue'[i] = queue[i + 1]
    BY HeadTailProperties, LenProperties
  <1>2. OnceQueued(queue')
    BY <1>1 DEF OnceQueued
  <1>3. ASSUME NEW b \in QueuedUnits, b # Head(queue).buf PROVE b \in QueuedUnits'
    <2>1. PICK i \in 1..Len(queue) : queue[i].buf = b
      BY DEF QueuedUnits
    <2>2. i - 1 \in 1..Len(queue') /\ queue'[i - 1].buf = b
      BY <1>1, <1>3, <2>1
    <2> QED BY <2>2 DEF QueuedUnits
  <1>4. ASSUME NEW b \in Buffers, b \in QueuedUnits' PROVE b \in QueuedUnits /\ b # Head(queue).buf
    <2>1. PICK i \in 1..Len(queue') : queue'[i].buf = b
      BY <1>4 DEF QueuedUnits
    <2>2. i + 1 \in 1..Len(queue) /\ queue[i + 1].buf = b /\ 1 \in 1..Len(queue)
      BY <1>1, <2>1
    <2> QED BY <1>1, <2>2 DEF QueuedUnits, OnceQueued
  <1>5. Head(queue).buf \in QueuedUnits
    BY <1>1 DEF QueuedUnits
  <1> QED BY <1>2, <1>3, <1>4, <1>5 DEF Loses

LEMMA QueueGains ==
  ASSUME queue \in Seq(Entries), OnceQueued(queue), NEW e \in Entries,
         e.buf \in Buffers => e.buf \notin QueuedUnits, queue' = Append(queue, e)
  PROVE  OnceQueued(queue') /\ Gains(QueuedUnits', QueuedUnits, e.buf)
  <1>1. /\ Len(queue) \in Nat /\ Len(queue') = Len(queue) + 1 /\ queue'[Len(queue')] = e
        /\ \A i \in 1..Len(queue) : queue'[i] = queue[i]
    BY AppendProperties, LenProperties
  <1>2. OnceQueued(queue')
    BY <1>1 DEF OnceQueued, QueuedUnits
  <1>3. \A x \in QueuedUnits : x \in QueuedUnits'
    BY <1>1 DEF QueuedUnits
  <1>4. e.buf \in QueuedUnits'
    BY <1>1 DEF QueuedUnits
  <1>5. \A x \in QueuedUnits' : x \in QueuedUnits \/ x = e.buf
    BY <1>1 DEF QueuedUnits
  <1> QED BY <1>2, <1>3, <1>4, <1>5 DEF Gains

LEMMA UnitFreed ==
  ASSUME idle \in Seq(Buffers), OnceIdle(idle), NEW b \in Buffers \cup {Heap},
         b \in Buffers => b \notin IdleUnits, FreeBuffer(b)
  PROVE  OnceIdle(idle') /\ Gains(IdleUnits', IdleUnits, b)
  <1>1. CASE b = Heap
    <2>1. Heap \notin Buffers /\ idle' = idle
      BY <1>1 DEF FreeBuffer, Heap, Buffers
    <2> QED BY <1>1, <2>1 DEF Gains, IdleUnits
  <1>2. CASE b # Heap
    <2>1. b \in Buffers /\ idle' = Append(idle, b)
      BY <1>2 DEF FreeBuffer
    <2> QED BY <2>1, IdleGains
  <1> QED BY <1>1, <1>2

LEMMA UnitsInit == Init => UnitsOnce
  <1> SUFFICES ASSUME Init PROVE UnitsOnce
    OBVIOUS
  <1>1. Len(idle) = BufferCount /\ \A b \in Buffers : idle[b] = b
    BY ConstantAssumption DEF Init, Buffers, ConstantAssumption
  <1>2. Len(queue) = 0 /\ hand = None /\ \A l \in Loggers : buf[l] = None /\ victim[l] = None
    BY DEF Init
  <1>3. None \notin Buffers /\ IdleUnits = Buffers /\ QueuedUnits = {} /\ HandUnits = {}
    BY <1>1, <1>2, ConstantAssumption
    DEF IdleUnits, QueuedUnits, HandUnits, Buffers, ConstantAssumption
  <1>4. \A b \in Buffers : b \notin Held(buf) /\ b \notin Held(victim)
    BY <1>2, <1>3 DEF Held
  <1>5. OnceIdle(idle)
    BY <1>1 DEF OnceIdle, Buffers
  <1>6. OnceQueued(queue) /\ OnceHeld(buf) /\ OnceHeld(victim)
    BY <1>2, <1>3 DEF OnceQueued, OnceHeld
  <1> QED BY <1>3, <1>4, <1>5, <1>6 DEF UnitsOnce, OnePlace

(* A step that moves unit x, or a message of the heap, from one kind of    *)
(* place to another.                                                       *)
LEMMA UnitsLogger ==
  ASSUME Typed, UnitsOnce, NEW l \in Loggers, LoggerStep(l)
  PROVE  UnitsOnce'
  <1> USE DEF lockVars, jobVars, cbVars, loggerVars, workerVars, mainVars, Goto
  <1>1. /\ idle \in Seq(Buffers) /\ queue \in Seq(Entries) /\ job_id \in Nat
        /\ buf \in [Loggers -> Buffers \cup {Heap, None}]
        /\ victim \in [Loggers -> Buffers \cup {Heap, None}]
        /\ OnceIdle(idle) /\ OnceQueued(queue) /\ OnceHeld(buf) /\ OnceHeld(victim)
        /\ OnePlace(IdleUnits, Held(buf), Held(victim), QueuedUnits, HandUnits)
        /\ Heap \notin Buffers /\ None \notin Buffers
    BY ConstantAssumption DEF ConstantAssumption, Typed, Types, UnitsOnce, Buffers, Heap
  <1>2. hand' = hand /\ wpc' = wpc
    BY DEF LoggerStep, AllocFromPool, AllocFromHeap, AllocExhausted, Relog, AddEnqueues, AddGivesUp,
           AddDiscardsHead, DropVictim, WaitDone, Release, LoggerReadsCallback, LoggerCalls
  <1>3. HandUnits' = HandUnits
    BY <1>2 DEF HandUnits
  <1>4. ASSUME AllocFromPool(l) PROVE UnitsOnce'
    <2> DEFINE x == Head(idle)
    <2>1. idle # <<>> /\ idle' = Tail(idle) /\ buf' = [buf EXCEPT ![l] = x]
          /\ victim' = victim /\ queue' = queue /\ buf[l] = None
      BY <1>4 DEF AllocFromPool, Typed, Shape
    <2>2. OnceIdle(idle') /\ Loses(IdleUnits', IdleUnits, x) /\ x \in IdleUnits /\ x \in Buffers
      BY <1>1, <2>1, IdleLoses, HeadOfIdle
    <2>3. x \notin Held(buf) /\ x \notin Held(victim) /\ x \notin QueuedUnits /\ x \notin HandUnits
      BY <1>1, <2>2 DEF OnePlace
    <2>4. OnceHeld(buf') /\ Gains(Held(buf'), Held(buf), x)
      <3> HIDE DEF x
      <3> QED BY <1>1, <2>1, <2>3, HolderGains
    <2>5. QueuedUnits' = QueuedUnits
      BY <2>1 DEF QueuedUnits
    <2> HIDE DEF x
    <2>6. OnePlace(IdleUnits', Held(buf'), Held(victim), QueuedUnits, HandUnits)
      BY <1>1, <2>2, <2>3, <2>4 DEF OnePlace, Gains, Loses
    <2> QED BY <1>1, <1>3, <2>1, <2>2, <2>4, <2>5, <2>6 DEF UnitsOnce
  <1>5. ASSUME AllocFromHeap(l) PROVE UnitsOnce'
    <2>1. buf' = [buf EXCEPT ![l] = Heap] /\ idle' = idle /\ victim' = victim /\ queue' = queue
          /\ buf[l] = None
      BY <1>5 DEF AllocFromHeap, Typed, Shape
    <2>2. OnceHeld(buf') /\ Gains(Held(buf'), Held(buf), Heap)
      BY <1>1, <2>1, HolderGains
    <2>3. OnePlace(IdleUnits, Held(buf'), Held(victim), QueuedUnits, HandUnits)
      BY <1>1, <2>2 DEF OnePlace, Gains
    <2>4. QueuedUnits' = QueuedUnits /\ IdleUnits' = IdleUnits
      BY <2>1 DEF QueuedUnits, IdleUnits
    <2> QED BY <1>1, <1>3, <2>1, <2>2, <2>3, <2>4 DEF UnitsOnce
  <1>6. ASSUME AddEnqueues(l) PROVE UnitsOnce'
    <2> DEFINE x == buf[l]
               e == [buf |-> x, id |-> job_id + 1, not_discardable |-> NotDiscardable(l)]
    <2>1. queue' = Append(queue, e) /\ buf' = [buf EXCEPT ![l] = None]
          /\ idle' = idle /\ victim' = victim /\ x # None
      BY <1>6 DEF AddEnqueues, Typed, Shape
    <2>2. e \in Entries /\ e.buf = x
      BY <1>1, <2>1 DEF Entries, NotDiscardable
    <2>3. OnceHeld(buf') /\ Loses(Held(buf'), Held(buf), x)
      BY <1>1, <2>1, HolderLoses
    <2>4. x \in Held(buf)
      BY DEF Held
    <2> HIDE DEF x, e
    <2>5. x \in Buffers => x \notin Held(victim) /\ x \notin QueuedUnits /\ x \notin HandUnits
                           /\ x \notin IdleUnits
      BY <1>1, <2>4 DEF OnePlace
    <2>6. OnceQueued(queue') /\ Gains(QueuedUnits', QueuedUnits, x)
      BY <1>1, <2>1, <2>2, <2>5, QueueGains
    <2>7. OnePlace(IdleUnits, Held(buf'), Held(victim), QueuedUnits', HandUnits)
      BY <1>1, <2>3, <2>4, <2>5, <2>6 DEF OnePlace, Gains, Loses
    <2>8. IdleUnits' = IdleUnits
      BY <2>1 DEF IdleUnits
    <2> QED BY <1>1, <1>3, <2>1, <2>3, <2>6, <2>7, <2>8 DEF UnitsOnce
  <1>7. ASSUME AddGivesUp(l) PROVE UnitsOnce'
    <2> DEFINE x == buf[l]
    <2>1. victim' = [victim EXCEPT ![l] = x] /\ buf' = [buf EXCEPT ![l] = None]
          /\ idle' = idle /\ queue' = queue /\ victim[l] = None
      BY <1>7 DEF AddGivesUp, Typed, Shape
    <2>2. OnceHeld(buf') /\ Loses(Held(buf'), Held(buf), x) /\ x \in Held(buf)
      BY <1>1, <2>1, HolderLoses DEF Held
    <2> HIDE DEF x
    <2>3. x \in Buffers => x \notin Held(victim) /\ x \notin QueuedUnits /\ x \notin HandUnits
                           /\ x \notin IdleUnits
      BY <1>1, <2>2 DEF OnePlace
    <2>4. OnceHeld(victim') /\ Gains(Held(victim'), Held(victim), x)
      BY <1>1, <2>1, <2>3, HolderGains
    <2>5. OnePlace(IdleUnits, Held(buf'), Held(victim'), QueuedUnits, HandUnits)
      BY <1>1, <2>2, <2>3, <2>4 DEF OnePlace, Gains, Loses
    <2>6. QueuedUnits' = QueuedUnits /\ IdleUnits' = IdleUnits
      BY <2>1 DEF QueuedUnits, IdleUnits
    <2> QED BY <1>1, <1>3, <2>1, <2>2, <2>4, <2>5, <2>6 DEF UnitsOnce
  <1>8. ASSUME AddDiscardsHead(l) PROVE UnitsOnce'
    <2> DEFINE x == Head(queue).buf
    <2>1. queue # <<>>
      BY <1>8, ConstantAssumption DEF AddDiscardsHead, Full, ConstantAssumption
    <2>2. victim' = [victim EXCEPT ![l] = x] /\ queue' = Tail(queue)
          /\ idle' = idle /\ buf' = buf /\ victim[l] = None
      BY <1>8 DEF AddDiscardsHead, Typed, Shape
    <2>3. OnceQueued(queue') /\ x \in QueuedUnits /\ Loses(QueuedUnits', QueuedUnits, x)
      BY <1>1, <2>1, <2>2, QueueLoses
    <2> HIDE DEF x
    <2>4. x \in Buffers => x \notin Held(victim) /\ x \notin Held(buf) /\ x \notin HandUnits
                           /\ x \notin IdleUnits
      BY <1>1, <2>3 DEF OnePlace
    <2>5. OnceHeld(victim') /\ Gains(Held(victim'), Held(victim), x)
      BY <1>1, <2>2, <2>4, HolderGains
    <2>6. OnePlace(IdleUnits, Held(buf), Held(victim'), QueuedUnits', HandUnits)
      BY <1>1, <2>3, <2>4, <2>5 DEF OnePlace, Gains, Loses
    <2>7. IdleUnits' = IdleUnits
      BY <2>2 DEF IdleUnits
    <2> QED BY <1>1, <1>3, <2>2, <2>3, <2>5, <2>6, <2>7 DEF UnitsOnce
  <1>9. ASSUME DropVictim(l) PROVE UnitsOnce'
    <2> DEFINE x == victim[l]
    <2>1. victim' = [victim EXCEPT ![l] = None] /\ buf' = buf /\ queue' = queue
          /\ x \in Buffers \cup {Heap} /\ FreeBuffer(x)
      BY <1>1, <1>9 DEF DropVictim, FreeDropped, Typed, Shape
    <2>2. OnceHeld(victim') /\ Loses(Held(victim'), Held(victim), x) /\ x \in Held(victim)
      BY <1>1, <2>1, HolderLoses DEF Held
    <2> HIDE DEF x
    <2>3. x \in Buffers => x \notin Held(buf) /\ x \notin QueuedUnits /\ x \notin HandUnits
                           /\ x \notin IdleUnits
      BY <1>1, <2>2 DEF OnePlace
    <2>4. QueuedUnits' = QueuedUnits
      BY <2>1 DEF QueuedUnits
    <2>5. OnceIdle(idle') /\ Gains(IdleUnits', IdleUnits, x)
      BY <1>1, <2>1, <2>3, UnitFreed
    <2>6. OnePlace(IdleUnits', Held(buf), Held(victim'), QueuedUnits, HandUnits)
      BY <1>1, <2>2, <2>3, <2>5 DEF OnePlace, Gains, Loses
    <2> QED BY <1>1, <1>3, <2>1, <2>2, <2>4, <2>5, <2>6 DEF UnitsOnce
  <1>10. ASSUME AllocExhausted(l) \/ Relog(l) \/ WaitDone(l) \/ Release(l)
                \/ LoggerReadsCallback(l) \/ LoggerCalls(l)
         PROVE  UnitsOnce'
    <2>1. UNCHANGED <<idle, buf, victim, queue>>
      BY <1>10 DEF AllocExhausted, Relog, WaitDone, Release, LoggerReadsCallback, LoggerCalls
    <2> QED BY <1>1, <1>3, <2>1 DEF UnitsOnce, IdleUnits, QueuedUnits
  <1> QED BY <1>4, <1>5, <1>6, <1>7, <1>8, <1>9, <1>10 DEF LoggerStep

LEMMA UnitsWorker ==
  ASSUME Typed, UnitsOnce, WorkerStep
  PROVE  UnitsOnce'
  <1> USE DEF lockVars, jobVars, cbVars, loggerVars, workerVars, mainVars
  <1>1. /\ idle \in Seq(Buffers) /\ queue \in Seq(Entries) /\ hand \in Entries \cup {None}
        /\ OnceIdle(idle) /\ OnceQueued(queue) /\ OnceHeld(buf) /\ OnceHeld(victim)
        /\ OnePlace(IdleUnits, Held(buf), Held(victim), QueuedUnits, HandUnits)
        /\ Heap \notin Buffers /\ None \notin Buffers
    BY ConstantAssumption DEF ConstantAssumption, Typed, Types, UnitsOnce, Buffers, Heap
  <1>2. buf' = buf /\ victim' = victim
    BY DEF WorkerStep, WorkerPops, WorkerReadsCallback, WorkerCalls, WorkerReleases, WorkerFrees,
           WorkerAccounts, WorkerExits
  <1>3. ASSUME WorkerPops PROVE UnitsOnce'
    <2> DEFINE x == Head(queue).buf
    <2>1. queue # <<>> /\ queue' = Tail(queue) /\ hand' = Head(queue) /\ wpc' = "callback"
          /\ idle' = idle /\ hand = None
      BY <1>3 DEF WorkerPops, Typed, Shape
    <2>2. OnceQueued(queue') /\ x \in QueuedUnits /\ Loses(QueuedUnits', QueuedUnits, x)
      BY <1>1, <2>1, QueueLoses
    <2>3. HandUnits = {} /\ HandUnits' = {x}
      BY <1>1, <2>1, HeadOfQueue DEF HandUnits
    <2>4. IdleUnits' = IdleUnits
      BY <2>1 DEF IdleUnits
    <2> HIDE DEF x
    <2>5. OnePlace(IdleUnits, Held(buf), Held(victim), QueuedUnits', HandUnits')
      BY <1>1, <2>2, <2>3 DEF OnePlace, Loses
    <2> QED BY <1>1, <1>2, <2>1, <2>2, <2>4, <2>5 DEF UnitsOnce
  <1>4. ASSUME WorkerFrees PROVE UnitsOnce'
    <2> DEFINE x == hand.buf
    <2>1. hand \in Entries /\ hand' = hand /\ wpc = "free" /\ wpc' = "account" /\ queue' = queue
          /\ FreeBuffer(x)
      BY <1>1, <1>4 DEF WorkerFrees, Typed, Shape
    <2>2. x \in Buffers \cup {Heap} /\ HandUnits = {x} /\ HandUnits' = {}
      BY <2>1, NoneAssumption DEF HandUnits, Entries, NoneAssumption
    <2>3. QueuedUnits' = QueuedUnits
      BY <2>1 DEF QueuedUnits
    <2> HIDE DEF x
    <2>4. x \in Buffers => x \notin IdleUnits
      BY <1>1, <2>2 DEF OnePlace
    <2>5. OnceIdle(idle') /\ Gains(IdleUnits', IdleUnits, x)
      BY <1>1, <2>1, <2>2, <2>4, UnitFreed
    <2>6. OnePlace(IdleUnits', Held(buf), Held(victim), QueuedUnits, HandUnits')
      BY <1>1, <2>2, <2>5 DEF OnePlace, Gains
    <2> QED BY <1>1, <1>2, <2>1, <2>3, <2>5, <2>6 DEF UnitsOnce
  <1>5. ASSUME WorkerReadsCallback \/ WorkerCalls \/ WorkerReleases \/ WorkerAccounts \/ WorkerExits
        PROVE  UnitsOnce'
    <2>1. idle' = idle /\ queue' = queue
      BY <1>5 DEF WorkerReadsCallback, WorkerCalls, WorkerReleases, WorkerAccounts, WorkerExits
    <2>2. HandUnits' = HandUnits
      BY <1>5 DEF WorkerReadsCallback, WorkerCalls, WorkerReleases, WorkerAccounts, WorkerExits,
                  AfterCallback, HandUnits
    <2> QED BY <1>1, <1>2, <2>1, <2>2 DEF UnitsOnce, IdleUnits, QueuedUnits
  <1> QED BY <1>3, <1>4, <1>5 DEF WorkerStep

LEMMA UnitsStep == Typed /\ UnitsOnce /\ [Next]_vars => UnitsOnce'
  <1> SUFFICES ASSUME Typed, UnitsOnce, [Next]_vars PROVE UnitsOnce'
    OBVIOUS
  <1>1. ASSUME NEW l \in Loggers, LoggerStep(l) PROVE UnitsOnce'
    BY <1>1, UnitsLogger
  <1>2. CASE WorkerStep
    BY <1>2, UnitsWorker
  <1>3. ASSUME UNCHANGED <<idle, buf, victim, queue>>, HandUnits' = HandUnits PROVE UnitsOnce'
    BY <1>3 DEF UnitsOnce, IdleUnits, QueuedUnits
  <1> USE DEF lockVars, jobVars, cbVars, loggerVars, workerVars, mainVars
  <1>4. ASSUME NEW l \in Loggers, Log(l) PROVE UnitsOnce'
    <2>1. UNCHANGED <<idle, buf, victim, queue, hand, wpc>>
      BY <1>4 DEF Log, LogAsync, LogDirect, LogBegins
    <2> QED BY <1>3, <2>1 DEF HandUnits
  <1>5. CASE Start
    <2>1. wpc = "off" /\ hand = None
      BY <1>5 DEF Start, Typed, Shape
    <2> QED BY <1>3, <1>5, <2>1 DEF Start, HandUnits
  <1>6. CASE SetCallback \/ Flushed \/ StoreCallback \/ StoreContext \/ Resume \/ BeginShutdown
    BY <1>3, <1>6
    DEF SetCallback, Flushed, StoreCallback, StoreContext, Resume, BeginShutdown, HandUnits
  <1>7. CASE Enable \/ Disable \/ Stop \/ JoinAndDelete \/ UNCHANGED vars
    BY <1>3, <1>7 DEF Enable, Disable, Stop, JoinAndDelete, vars, HandUnits
  <1> QED BY <1>1, <1>2, <1>4, <1>5, <1>6, <1>7 DEF Next, MainStep

LEMMA UnitInOnePlace ==
  ASSUME Typed, UnitsOnce, NEW b \in Buffers
  PROVE  \E p : Places(b) = {p}
  <1> DEFINE I == {x \in DOMAIN idle : idle[x] = b}
             C == {x \in Loggers : buf[x] = b}
             V == {x \in Loggers : victim[x] = b}
             Q == {x \in DOMAIN queue : queue[x].buf = b}
             W == {y \in {hand} : y # None /\ y.buf = b /\ wpc # "account"}
             PI == {<<"idle", i>> : i \in I}
             PC == {<<"caller", l>> : l \in C}
             PV == {<<"victim", l>> : l \in V}
             PQ == {<<"queue", i>> : i \in Q}
             PW == {<<"worker", 0>> : x \in W}
  <1>1. Places(b) = PI \cup PC \cup PV \cup PQ \cup PW
    BY DEF Places
  <1>2. DOMAIN idle = 1..Len(idle) /\ DOMAIN queue = 1..Len(queue)
    BY LenProperties DEF Typed, Types
  <1>3. /\ b \in IdleUnits <=> I # {}
        /\ b \in Held(buf) <=> C # {}
        /\ b \in Held(victim) <=> V # {}
        /\ b \in QueuedUnits <=> Q # {}
        /\ b \in HandUnits <=> W # {}
    BY <1>2 DEF IdleUnits, Held, QueuedUnits, HandUnits
  <1>4. /\ \A i, j \in I : i = j
        /\ \A i, j \in C : i = j
        /\ \A i, j \in V : i = j
        /\ \A i, j \in Q : i = j
        /\ \A i, j \in W : i = j
    BY <1>2 DEF UnitsOnce, OnceIdle, OnceHeld, OnceQueued
  <1>5. /\ I # {} => C = {} /\ V = {} /\ Q = {} /\ W = {}
        /\ C # {} => I = {} /\ V = {} /\ Q = {} /\ W = {}
        /\ V # {} => I = {} /\ C = {} /\ Q = {} /\ W = {}
        /\ Q # {} => I = {} /\ C = {} /\ V = {} /\ W = {}
        /\ W # {} => I = {} /\ C = {} /\ V = {} /\ Q = {}
        /\ I # {} \/ C # {} \/ V # {} \/ Q # {} \/ W # {}
    BY <1>3, Zenon DEF UnitsOnce, OnePlace
  <1> HIDE DEF I, C, V, Q, W
  <1>11. /\ I = {} => PI = {}
         /\ C = {} => PC = {}
         /\ V = {} => PV = {}
         /\ Q = {} => PQ = {}
         /\ W = {} => PW = {}
    OBVIOUS
  <1>6. CASE I # {}
    <2>1. PICK i \in I : I = {i}
      BY <1>4, <1>6
    <2>2. PI = {<<"idle", i>>}
      BY <2>1
    <2> HIDE DEF PI, PC, PV, PQ, PW
    <2> QED BY <1>1, <1>5, <1>6, <1>11, <2>2
  <1>7. CASE C # {}
    <2>1. PICK i \in C : C = {i}
      BY <1>4, <1>7
    <2>2. PC = {<<"caller", i>>}
      BY <2>1
    <2> HIDE DEF PI, PC, PV, PQ, PW
    <2> QED BY <1>1, <1>5, <1>7, <1>11, <2>2
  <1>8. CASE V # {}
    <2>1. PICK i \in V : V = {i}
      BY <1>4, <1>8
    <2>2. PV = {<<"victim", i>>}
      BY <2>1
    <2> HIDE DEF PI, PC, PV, PQ, PW
    <2> QED BY <1>1, <1>5, <1>8, <1>11, <2>2
  <1>9. CASE Q # {}
    <2>1. PICK i \in Q : Q = {i}
      BY <1>4, <1>9
    <2>2. PQ = {<<"queue", i>>}
      BY <2>1
    <2> HIDE DEF PI, PC, PV, PQ, PW
    <2> QED BY <1>1, <1>5, <1>9, <1>11, <2>2
  <1>10. CASE W # {}
    <2>1. PICK i \in W : W = {i}
      BY <1>4, <1>10
    <2>2. PW = {<<"worker", 0>>}
      BY <2>1
    <2> HIDE DEF PI, PC, PV, PQ, PW
    <2> QED BY <1>1, <1>5, <1>10, <1>11, <2>2
  <1> QED BY <1>5, <1>6, <1>7, <1>8, <1>9, <1>10

LEMMA UnitsAreAccounted == Typed /\ UnitsOnce => BuffersAccounted
  <1> SUFFICES ASSUME Typed, UnitsOnce, NEW b \in Buffers
               PROVE  Cardinality(Places(b)) = 1
    BY DEF BuffersAccounted
  <1>1. PICK p : Places(b) = {p}
    BY UnitInOnePlace
  <1> QED BY <1>1, FS_Singleton

(* The size of an interval.                                                *)
LEMMA IntervalSize ==
  ASSUME NEW n \in Nat
  PROVE  IsFiniteSet(1..n) /\ Cardinality(1..n) = n
  <1>1. IsFiniteSet(1..n) /\ Cardinality(1..n) = (IF 1 > n THEN 0 ELSE n - 1 + 1)
    BY FS_Interval
  <1> QED BY <1>1

(* A pool whose units are all idle has as many of them as it was built of. *)
LEMMA AllIdle ==
  ASSUME idle \in Seq(Buffers), OnceIdle(idle), IdleUnits = Buffers
  PROVE  Len(idle) = BufferCount
  <1> DEFINE N == 1..Len(idle)
  <1>1. Len(idle) \in Nat /\ DOMAIN idle = N /\ idle \in [N -> Buffers] /\ BufferCount \in Nat
    BY LenProperties, ConstantAssumption DEF ConstantAssumption
  <1>2. idle \in Bijection(N, Buffers)
    <2>1. \A i, j \in N : idle[i] = idle[j] => i = j
      BY DEF OnceIdle
    <2>2. \A b \in Buffers : \E i \in N : idle[i] = b
      BY DEF IdleUnits
    <2> HIDE DEF N
    <2> QED BY <1>1, <2>1, <2>2, Fun_IsBij
  <1>3. IsFiniteSet(N) /\ Cardinality(N) = Len(idle) /\ Cardinality(Buffers) = BufferCount
    BY <1>1, IntervalSize DEF Buffers
  <1>4. Cardinality(N) = Cardinality(Buffers)
    BY <1>2, <1>3, FS_Bijection DEF ExistsBijection
  <1> QED BY <1>3, <1>4

LEMMA DeletedWhenQuiet == Typed /\ QuietEnd /\ UnitsOnce => DeletedIsQuiet
  <1> SUFFICES ASSUME Typed, QuietEnd, UnitsOnce, manager = "deleted"
               PROVE  /\ wpc = "exited" /\ queue = <<>> /\ Len(idle) = BufferCount
                      /\ \A l \in Loggers : pc[l] \notin Inside
    BY DEF DeletedIsQuiet, Inside
  <1>1. wpc = "exited" /\ queue = <<>> /\ hand = None /\ \A l \in Loggers : pc[l] \notin Inside
    BY DEF QuietEnd, Typed, Shape
  <1>2. \A l \in Loggers : buf[l] = None /\ victim[l] = None
    BY <1>1 DEF Typed, Shape, Inside
  <1>3. idle \in Seq(Buffers) /\ None \notin Buffers
    BY ConstantAssumption DEF ConstantAssumption, Typed, Types
  <1>4. \A b \in Buffers : b \notin Held(buf) /\ b \notin Held(victim)
    BY <1>2, <1>3 DEF Held
  <1>5. QueuedUnits = {} /\ HandUnits = {}
    BY <1>1, EmptySeq DEF QueuedUnits, HandUnits
  <1>6. Buffers \subseteq IdleUnits
    BY <1>4, <1>5 DEF UnitsOnce, OnePlace
  <1>7. IdleUnits \subseteq Buffers
    <2>1. \A i \in 1..Len(idle) : idle[i] \in Buffers
      BY <1>3, ElementOfSeq
    <2> QED BY <2>1 DEF IdleUnits
  <1>8. Len(idle) = BufferCount
    BY <1>3, <1>6, <1>7, AllIdle DEF UnitsOnce
  <1> QED BY <1>1, <1>8

-----------------------------------------------------------------------------
LoggerInv == Typed /\ PairIsStable /\ QuietEnd /\ UnitsOnce

LEMMA LoggerInvariant == Spec => []LoggerInv
  <1>1. Init => PairIsStable /\ QuietEnd
    BY ConstantAssumption DEF Init, PairIsStable, QuietEnd, Inside, Threads
  <1>2. Init => LoggerInv
    BY <1>1, TypedInit, UnitsInit DEF LoggerInv
  <1>3. LoggerInv /\ [Next]_vars => LoggerInv'
    BY TypedStep, PairStep, QuietStep, UnitsStep DEF LoggerInv
  <1> QED BY <1>2, <1>3, PTL DEF Spec

(* The worker never hands a log callback the context of another one, for   *)
(* any number of replacements during any number of messages.               *)
THEOREM PairIsWhole == Spec => []WorkerCallsWholePair
  <1>1. LoggerInv => WorkerCallsWholePair
    BY DEF LoggerInv, PairIsStable, WorkerCallsWholePair
  <1> QED BY <1>1, LoggerInvariant, PTL

(* Every unit of the pool is in exactly one place: none leaks and none is  *)
(* freed twice, whatever is discarded, given up or written.                *)
THEOREM UnitsNeverLeak == Spec => []BuffersAccounted
  <1>1. LoggerInv => BuffersAccounted
    BY UnitsAreAccounted DEF LoggerInv
  <1> QED BY <1>1, LoggerInvariant, PTL

(* When the manager is deleted nobody is inside it, nothing is queued and  *)
(* every buffer is back in the pool.                                       *)
THEOREM ManagerDeletedQuiet == Spec => []DeletedIsQuiet
  <1>1. LoggerInv => DeletedIsQuiet
    BY DeletedWhenQuiet DEF LoggerInv
  <1> QED BY <1>1, LoggerInvariant, PTL

-----------------------------------------------------------------------------
(* PoolSuffices.  A logger that asks for a buffer has none; what the       *)
(* others, the queue and the worker can have is counted.                   *)
Roomy == BufferCount >= QueueSize + 2 * Cardinality(Loggers)

NeverEmpty == Len(queue) <= QueueSize /\ pool_mutex = None

(* At most as many units are held as there are holders.                    *)
LEMMA HeldByFew ==
  ASSUME NEW L, IsFiniteSet(L), NEW f
  PROVE  /\ IsFiniteSet({f[l] : l \in L})
         /\ Cardinality({f[l] : l \in L}) <= Cardinality(L)
  <1> DEFINE T == {f[l] : l \in L}
             g == [l \in L |-> f[l]]
  <1>1. g \in Surjection(L, T)
    <2>1. g \in [L -> T] /\ \A x \in T : \E l \in L : g[l] = x
      OBVIOUS
    <2> HIDE DEF g, T
    <2> QED BY <2>1, Fun_IsSurj
  <1> HIDE DEF g, T
  <1> QED BY <1>1, FS_Surjection DEF T

(* The queue holds no more units than it has entries.                      *)
LEMMA QueuedAreFew ==
  ASSUME Typed, Len(queue) <= QueueSize
  PROVE  IsFiniteSet(QueuedUnits) /\ Cardinality(QueuedUnits) <= QueueSize
  <1> DEFINE N == 1..Len(queue)
             g == [i \in N |-> queue[i].buf]
  <1>1. Len(queue) \in Nat
    BY LenProperties DEF Typed, Types
  <1>2. IsFiniteSet(N) /\ Cardinality(N) = Len(queue)
    BY <1>1, IntervalSize
  <1>3. g \in Surjection(N, QueuedUnits)
    <2>1. g \in [N -> QueuedUnits] /\ \A x \in QueuedUnits : \E i \in N : g[i] = x
      BY DEF QueuedUnits
    <2> HIDE DEF g, N
    <2> QED BY <2>1, Fun_IsSurj
  <1> HIDE DEF g, N
  <1>4. IsFiniteSet(QueuedUnits) /\ Cardinality(QueuedUnits) <= Len(queue)
    BY <1>2, <1>3, FS_Surjection
  <1>5. Cardinality(QueuedUnits) \in Nat /\ QueueSize \in Nat
    BY <1>4, FS_CardinalityType, ConstantAssumption DEF ConstantAssumption
  <1> QED BY <1>1, <1>4, <1>5

(* Sizes add up at most.                                                   *)
LEMMA UnionIsFew ==
  ASSUME NEW S, NEW T, IsFiniteSet(S), IsFiniteSet(T), NEW m \in Nat, NEW n \in Nat,
         Cardinality(S) <= m, Cardinality(T) <= n
  PROVE  IsFiniteSet(S \cup T) /\ Cardinality(S \cup T) <= m + n
  <1>1. IsFiniteSet(S \cup T) /\ Cardinality(S \cup T) = Cardinality(S) + Cardinality(T) - Cardinality(S \cap T)
    BY FS_Union
  <1>2. Cardinality(S) \in Nat /\ Cardinality(T) \in Nat /\ Cardinality(S \cap T) \in Nat
    BY FS_CardinalityType, FS_Intersection
  <1> QED BY <1>1, <1>2

(* With room for two units for each logger but the one that asks, and one  *)
(* for that one, the pool has a unit.                                      *)
LEMMA PoolHasUnit ==
  ASSUME Typed, UnitsOnce, Roomy, Len(queue) <= QueueSize, NEW l \in Loggers, pc[l] = "alloc"
  PROVE  idle # <<>>
  <1> SUFFICES ASSUME idle = <<>> PROVE FALSE
    OBVIOUS
  <1> DEFINE L == Loggers \ {l}
             c == {buf[k] : k \in L}
             v == {victim[k] : k \in L}
             n == Cardinality(Loggers) - 1
  <1>1. /\ IsFiniteSet(L) /\ Cardinality(L) = n /\ n \in Nat
        /\ Cardinality(Loggers) \in Nat /\ QueueSize \in Nat /\ BufferCount \in Nat
    <2>1. IsFiniteSet(Loggers) /\ QueueSize \in Nat /\ BufferCount \in Nat
      BY ConstantAssumption DEF ConstantAssumption
    <2>2. IsFiniteSet(L) /\ Cardinality(L) = n
      BY <2>1, FS_RemoveElement
    <2>3. Cardinality(Loggers) \in Nat /\ Cardinality(L) \in Nat
      BY <2>1, <2>2, FS_CardinalityType
    <2> QED BY <2>1, <2>2, <2>3
  <1>2. IsFiniteSet(c) /\ Cardinality(c) <= n
    BY <1>1, HeldByFew
  <1>3. IsFiniteSet(v) /\ Cardinality(v) <= n
    BY <1>1, HeldByFew
  <1>4. IsFiniteSet(QueuedUnits) /\ Cardinality(QueuedUnits) <= QueueSize
    BY QueuedAreFew
  <1>5. IsFiniteSet(HandUnits) /\ Cardinality(HandUnits) <= 1
    <2>1. HandUnits = {} \/ \E x : HandUnits = {x}
      BY DEF HandUnits
    <2>2. CASE HandUnits = {}
      BY <2>2, FS_EmptySet
    <2>3. ASSUME NEW x, HandUnits = {x} PROVE IsFiniteSet(HandUnits) /\ Cardinality(HandUnits) <= 1
      <3>1. IsFiniteSet(HandUnits) /\ Cardinality(HandUnits) = 1
        BY <2>3, FS_Singleton, Zenon
      <3> QED BY <3>1
    <2> QED BY <2>1, <2>2, <2>3
  <1>6. Buffers \subseteq (c \cup v) \cup (QueuedUnits \cup HandUnits)
    <2>1. buf[l] = None /\ victim[l] = None /\ None \notin Buffers
      BY ConstantAssumption DEF ConstantAssumption, Typed, Shape
    <2>2. IdleUnits = {}
      BY EmptySeq DEF IdleUnits
    <2>3. ASSUME NEW b \in Buffers PROVE b \in (c \cup v) \cup (QueuedUnits \cup HandUnits)
      BY <2>1, <2>2 DEF UnitsOnce, OnePlace, Held
    <2> QED BY <2>3
  <1> HIDE DEF c, v, n, L
  <1>7. IsFiniteSet(c \cup v) /\ Cardinality(c \cup v) <= n + n
    BY <1>1, <1>2, <1>3, UnionIsFew
  <1>8. IsFiniteSet(QueuedUnits \cup HandUnits) /\ Cardinality(QueuedUnits \cup HandUnits) <= QueueSize + 1
    BY <1>1, <1>4, <1>5, UnionIsFew
  <1> DEFINE Out == (c \cup v) \cup (QueuedUnits \cup HandUnits)
  <1>9. IsFiniteSet(Out) /\ Cardinality(Out) <= (n + n) + (QueueSize + 1)
    <2>1. n + n \in Nat /\ QueueSize + 1 \in Nat
      BY <1>1
    <2> QED BY <1>7, <1>8, <2>1, UnionIsFew
  <1>10. Cardinality(Buffers) = BufferCount
    BY <1>1, IntervalSize DEF Buffers
  <1>11. BufferCount <= Cardinality(Out) /\ Cardinality(Out) \in Nat
    BY <1>6, <1>9, <1>10, FS_Subset, FS_CardinalityType
  <1> HIDE DEF Out
  <1>12. \A B, Q, C, o \in Nat : ~ (/\ B <= o /\ o <= ((C - 1) + (C - 1)) + (Q + 1)
                                   /\ B >= Q + 2 * C)
    OBVIOUS
  <1>13. Cardinality(Out) <= ((Cardinality(Loggers) - 1) + (Cardinality(Loggers) - 1)) + (QueueSize + 1)
    BY <1>9, Zenon DEF n
  <1> QED BY <1>1, <1>11, <1>12, <1>13, Zenon DEF Roomy

(* The queue keeps its size, and nobody finds the pool empty.              *)
LEMMA NeverEmptyStep == LoggerInv /\ Roomy /\ NeverEmpty /\ [Next]_vars => NeverEmpty'
  <1> SUFFICES ASSUME LoggerInv, Roomy, NeverEmpty, [Next]_vars PROVE NeverEmpty'
    OBVIOUS
  <1>1. queue \in Seq(Entries) /\ Len(queue) \in Nat /\ QueueSize \in Nat
    BY LenProperties, ConstantAssumption DEF ConstantAssumption, LoggerInv, Typed, Types
  <1>2. ASSUME queue # <<>>, queue' = Tail(queue), UNCHANGED pool_mutex PROVE NeverEmpty'
    <2>1. Len(queue') = Len(queue) - 1
      BY <1>1, <1>2, HeadTailProperties
    <2> QED BY <1>1, <1>2, <2>1 DEF NeverEmpty
  <1>3. ASSUME UNCHANGED <<queue, pool_mutex>> PROVE NeverEmpty'
    BY <1>3 DEF NeverEmpty
  <1> USE DEF lockVars, jobVars, cbVars, loggerVars, workerVars, mainVars
  <1>4. ASSUME NEW l \in Loggers, AddEnqueues(l) PROVE NeverEmpty'
    <2> DEFINE e == [buf |-> buf[l], id |-> job_id + 1, not_discardable |-> NotDiscardable(l)]
    <2>1. queue' = Append(queue, e) /\ pool_mutex' = pool_mutex /\ Len(queue) # QueueSize
      BY <1>4 DEF AddEnqueues, Full
    <2> HIDE DEF e
    <2>2. Len(queue') = Len(queue) + 1
      BY <1>1, <2>1, LenProperties
    <2> QED BY <1>1, <2>1, <2>2 DEF NeverEmpty
  <1>5. ASSUME NEW l \in Loggers, AddDiscardsHead(l) PROVE NeverEmpty'
    <2>1. queue # <<>>
      BY <1>5, ConstantAssumption DEF AddDiscardsHead, Full, ConstantAssumption
    <2> QED BY <1>2, <1>5, <2>1 DEF AddDiscardsHead
  <1>6. ASSUME NEW l \in Loggers, AllocExhausted(l) PROVE FALSE
    BY <1>6, PoolHasUnit DEF AllocExhausted, LoggerInv, NeverEmpty
  <1>7. ASSUME NEW l \in Loggers, AllocFromPool(l) \/ AllocFromHeap(l) \/ Relog(l) \/ AddGivesUp(l)
               \/ DropVictim(l) \/ WaitDone(l) \/ Release(l) \/ LoggerReadsCallback(l) \/ LoggerCalls(l)
        PROVE  NeverEmpty'
    BY <1>3, <1>7 DEF AllocFromPool, AllocFromHeap, Relog, AddGivesUp, DropVictim, WaitDone, Release,
                      LoggerReadsCallback, LoggerCalls
  <1>8. ASSUME NEW l \in Loggers, Log(l) PROVE NeverEmpty'
    BY <1>3, <1>8 DEF Log, LogAsync, LogDirect
  <1>9. CASE WorkerPops
    BY <1>2, <1>9 DEF WorkerPops
  <1>10. CASE WorkerReadsCallback \/ WorkerCalls \/ WorkerReleases \/ WorkerFrees \/ WorkerAccounts
              \/ WorkerExits
    BY <1>3, <1>10 DEF WorkerReadsCallback, WorkerCalls, WorkerReleases, WorkerFrees, WorkerAccounts,
                       WorkerExits
  <1>11. CASE MainStep \/ SetCallback \/ Start \/ BeginShutdown
    BY <1>3, <1>11 DEF MainStep, SetCallback, Start, BeginShutdown, Flushed, StoreCallback, StoreContext,
                       Resume, Enable, Disable, Stop, JoinAndDelete
  <1>12. CASE UNCHANGED vars
    BY <1>3, <1>12 DEF vars
  <1> QED BY <1>4, <1>5, <1>6, <1>7, <1>8, <1>9, <1>10, <1>11, <1>12 DEF Next, LoggerStep, WorkerStep

(* With that many buffers no message ever finds the pool empty, so that    *)
(* none waits for the mutex it holds (mem_pool_manager.cpp:75): for any    *)
(* threads, any queue and any messages.                                    *)
THEOREM PoolNeverEmpty ==
  ASSUME Roomy
  PROVE  Spec => [](pool_mutex = None)
  <1>1. Init => NeverEmpty
    BY EmptySeq, ConstantAssumption DEF Init, NeverEmpty, ConstantAssumption
  <1>2. LoggerInv /\ NeverEmpty /\ [Next]_vars => NeverEmpty'
    BY NeverEmptyStep
  <1>3. NeverEmpty => pool_mutex = None
    BY DEF NeverEmpty
  <1> QED BY <1>1, <1>2, <1>3, LoggerInvariant, PTL DEF Spec

-----------------------------------------------------------------------------
(* The log files, with one thread that writes: any number of files, of     *)
(* records in a file and of restarts, wherever they come.                  *)

(* What is open is the base file, by one descriptor.                       *)
BaseIsOpen(n) ==
  /\ n \in Fds /\ name[0] # NoFile /\ fds[n] = name[0]
  /\ \A m \in Fds : m # n => fds[m] = NoFile

NoneIsOpen == \A m \in Fds : fds[m] = NoFile

(* What the thread knows of the base file, step by step.                   *)
HandleInv(w) ==
  /\ at[w] \in {"open", "lseek", "rename", "truncate"} => log_file_fd = -1
  /\ at[w] \in {"writev", "count", "close", "reset"} => log_file_fd # -1
  /\ at[w] \in {"open", "rename", "truncate", "reset"} => NoneIsOpen
  /\ at[w] = "idle" /\ log_file_fd = -1 => NoneIsOpen
  /\ at[w] \in {"idle", "writev"} /\ log_file_fd # -1 =>
       /\ BaseIsOpen(log_file_fd)
       /\ current_file_size = Len(Of(0)) /\ current_file_size < SizeLimit
  /\ at[w] = "lseek" => BaseIsOpen(fd[w])
  /\ at[w] = "count" => BaseIsOpen(log_file_fd) /\ current_file_size + 1 = Len(Of(0))
  /\ at[w] = "close" => BaseIsOpen(log_file_fd) /\ Len(Of(0)) = SizeLimit

(* The names stand for different files, and all but base for full ones.    *)
NamesInv ==
  /\ name[rotate_file_number] = NoFile
  /\ \A i \in FileNames : name[i] # NoFile => name[i] \in 1 .. Len(content)
  /\ \A i, j \in FileNames : i # j /\ name[i] # NoFile => name[i] # name[j]
  /\ \A i \in FileNames : Len(Of(i)) <= SizeLimit
  /\ \A i \in 1 .. (rotate_file_number - 1) : name[i] # NoFile => Len(Of(i)) = SizeLimit

(* A rotation begins with a full base file, and has left the name free     *)
(* that it fills next.                                                     *)
TurnInv(w) ==
  /\ at[w] = "rename" =>
       /\ Len(Of(0)) = SizeLimit /\ dst[w] \in 1 .. rotate_file_number
       /\ dst[w] < rotate_file_number - 1 => name[dst[w]] = NoFile
  /\ at[w] = "truncate" => dst[w] = 0 /\ (rotate_file_number = 1 \/ name[0] = NoFile)

(* The files cut what was written into consecutive pieces: what lies       *)
(* behind the records up to f[i + 1], up to f[i], is in the file of name i.*)
Piece(s, a, b) == Len(s) = b - a /\ \A k \in 1 .. (b - a) : s[k] = written[a + k]

CutAt(f) ==
  /\ f \in [FileNames -> 0 .. Len(written)] /\ f[0] = Len(written)
  /\ \A i, j \in FileNames : i <= j => f[j] <= f[i]
  /\ \A i \in 0 .. (rotate_file_number - 1) : Piece(Of(i), f[i + 1], f[i])

(* Below each file there are as many full ones as there are names, less    *)
(* one for each restart; in a rotation those that are moved already count  *)
(* the base file, which is full and moves last.  The highest name is given *)
(* up only by being used again.                                            *)
Turning(w) == at[w] \in {"rename", "truncate"}

Enough(f, w) ==
  /\ \A i \in 1 .. (rotate_file_number - 1) : name[i] # NoFile =>
       (IF Turning(w) /\ i > dst[w] THEN f[0] ELSE f[1]) - f[i + 1] >= (i - restarts) * SizeLimit
  /\ f[rotate_file_number] > 0 /\ rotate_file_number > 1 => name[rotate_file_number - 1] # NoFile

RotateKinds ==
  /\ RotateTypes
  /\ restarts \in Nat /\ logged \in Nat /\ record \in [Writers -> Nat] /\ written \in Seq(Nat)

RotateInv(w) ==
  /\ RotateKinds /\ HandleInv(w) /\ NamesInv /\ TurnInv(w)
  /\ \E f : CutAt(f) /\ Enough(f, w)

LEMMA FilesAreSeqs ==
  ASSUME RotateKinds, NamesInv
  PROVE  /\ \A i \in FileNames : Of(i) \in Seq(Nat)
         /\ \A n \in 1 .. Len(content) : content[n] \in Seq(Nat)
  <1>1. \A n \in 1 .. Len(content) : content[n] \in Seq(Nat)
    BY ElementOfSeq DEF RotateKinds, RotateTypes
  <1>2. \A i \in FileNames : Of(i) \in Seq(Nat)
    BY <1>1, EmptySeq DEF NamesInv, Of
  <1> QED BY <1>1, <1>2

LEMMA LeastOf ==
  ASSUME NEW T, T \subseteq Nat, T # {}
  PROVE  \E n \in T : \A m \in T : n <= m
<1> DEFINE R == OpToRel(<, Nat)
<1>1. IsWellFoundedOn(R, Nat)
  BY NatLessThanWellFounded, Zenon
<1>2. \E x \in T : \A y \in T : ~ (<<y, x>> \in R)
  <2> HIDE DEF R
  <2> QED  BY <1>1, WFMin
<1>3. \A x, y \in Nat : y < x => <<y, x>> \in R
  BY DEF OpToRel
<1> HIDE DEF R
<1>4. PICK x \in T : \A y \in T : ~ (<<y, x>> \in R)
  BY <1>2
<1>5. \A y \in T : x <= y
  <2> SUFFICES ASSUME NEW y \in T PROVE x <= y
    OBVIOUS
  <2>1. x \in Nat /\ y \in Nat
    OBVIOUS
  <2>2. ~ (y < x)
    BY <2>1, <1>3, <1>4
  <2> QED BY <2>1, <2>2
<1> QED BY <1>5

(* What the pieces say of the files.                                       *)
LEMMA CutIsKept ==
  ASSUME RotateAssumption, NEW w, Writers = {w}, RotateInv(w)
  PROVE  NewestRecordsKept
  <1> DEFINE N == rotate_file_number
  <1>0. N \in Nat /\ N > 0 /\ SizeLimit \in Nat /\ SizeLimit > 0 /\ restarts \in Nat
        /\ FileNames = 0..N /\ written \in Seq(Nat)
    BY DEF RotateAssumption, RotateInv, RotateKinds, FileNames
  <1>1. PICK f : CutAt(f) /\ Enough(f, w)
    BY DEF RotateInv
  <1>2. Len(written) \in Nat /\ DOMAIN written = 1 .. Len(written)
    BY <1>0, LenProperties
  <1>3. \A i \in 0..N : f[i] \in 0 .. Len(written)
    BY <1>0, <1>1 DEF CutAt
  <1>4. \A i \in 0..N : Of(i) \in Seq(Nat) /\ DOMAIN Of(i) = 1 .. Len(Of(i)) /\ Len(Of(i)) \in Nat
    BY <1>0, FilesAreSeqs, LenProperties DEF RotateInv
  <1>5. Of(N) = <<>>
    BY DEF RotateInv, NamesInv, Of
  <1>6. \A i \in 0..N : \A k \in DOMAIN Of(i) :
          /\ i # N /\ i + 1 \in 0..N /\ f[i + 1] + k \in (f[i + 1] + 1) .. f[i]
          /\ Of(i)[k] = written[f[i + 1] + k]
    <2> SUFFICES ASSUME NEW i \in 0..N, NEW k \in DOMAIN Of(i)
                 PROVE  /\ i # N /\ i + 1 \in 0..N /\ f[i + 1] + k \in (f[i + 1] + 1) .. f[i]
                        /\ Of(i)[k] = written[f[i + 1] + k]
      OBVIOUS
    <2>1. i # N
      <3>1. DOMAIN <<>> = 1 .. 0
        BY EmptySeq, LenProperties
      <3> QED BY <1>0, <1>5, <3>1
    <2>2. i \in 0 .. (N - 1) /\ i + 1 \in 0..N
      BY <1>0, <2>1
    <2>3. Piece(Of(i), f[i + 1], f[i])
      BY <1>1, <2>2 DEF CutAt
    <2>4. k \in 1 .. (f[i] - f[i + 1]) /\ f[i] \in Nat /\ f[i + 1] \in Nat
      BY <1>3, <1>4, <2>2, <2>3 DEF Piece
    <2>5. f[i + 1] + k \in (f[i + 1] + 1) .. f[i]
      BY <2>4
    <2> QED BY <2>1, <2>2, <2>3, <2>4, <2>5 DEF Piece
  <1>7. InFiles = {written[p] : p \in (f[N] + 1) .. Len(written)}
    <2>1. ASSUME NEW i \in 0..N, NEW k \in DOMAIN Of(i)
          PROVE  \E p \in (f[N] + 1) .. Len(written) : Of(i)[k] = written[p]
      <3>1. i + 1 \in 0..N /\ f[N] <= f[i + 1] /\ f[i] <= Len(written)
        BY <1>0, <1>1, <1>3, <1>6 DEF CutAt
      <3>2. f[i + 1] + k \in (f[N] + 1) .. Len(written)
        BY <1>0, <1>2, <1>3, <1>6, <3>1
      <3> QED BY <1>6, <3>2
    <2>2. ASSUME NEW p \in (f[N] + 1) .. Len(written)
          PROVE  \E i \in 0..N : \E k \in DOMAIN Of(i) : Of(i)[k] = written[p]
      <3> DEFINE T == {n \in 0..N : f[n] < p}
      <3>1. T \subseteq Nat /\ N \in T
        BY <1>0, <1>3
      <3>2. PICK n \in T : \A m \in T : n <= m
        <4> HIDE DEF T
        <4> QED BY <3>1, LeastOf
      <3>3. n # 0
        BY <1>0, <1>1, <1>2, <1>3 DEF CutAt
      <3>4. n \in 1..N /\ n - 1 \in 0 .. (N - 1) /\ (n - 1) + 1 = n /\ n - 1 \in 0..N
        BY <1>0, <3>2, <3>3
      <3>5. f[n] < p /\ p <= f[n - 1]
        <4>1. n - 1 \notin T
          BY <3>2, <3>4
        <4> QED BY <1>2, <1>3, <3>4, <4>1
      <3>6. Piece(Of(n - 1), f[n], f[n - 1])
        BY <1>1, <3>4 DEF CutAt
      <3>7. p - f[n] \in 1 .. (f[n - 1] - f[n]) /\ f[n] + (p - f[n]) = p
        BY <1>2, <1>3, <3>4, <3>5
      <3>8. p - f[n] \in DOMAIN Of(n - 1) /\ Of(n - 1)[p - f[n]] = written[p]
        BY <1>4, <3>4, <3>6, <3>7 DEF Piece
      <3> QED BY <3>4, <3>8
    <2> DEFINE R(i) == {Of(i)[k] : k \in DOMAIN Of(i)}
               P    == {written[p] : p \in (f[N] + 1) .. Len(written)}
    <2>3. \A i \in 0..N : R(i) \subseteq P
      BY <2>1
    <2>4. \A x \in P : \E i \in 0..N : x \in R(i)
      BY <2>2
    <2>5. InFiles = UNION {R(i) : i \in 0..N}
      BY <1>0 DEF InFiles
    <2> HIDE DEF R, P
    <2>6. InFiles = P
      BY <2>3, <2>4, <2>5
    <2> QED BY <2>6 DEF P
  <1>8. OldestRemoved
    <2> SUFFICES ASSUME NEW j \in DOMAIN written,
                        Len(written) - j < (N - 1 - restarts) * SizeLimit
                 PROVE  written[j] \in InFiles
      BY DEF OldestRemoved
    <2>1. CASE f[N] = 0
      BY <1>2, <1>7, <2>1
    <2>2. CASE f[N] # 0 /\ N > 1
      <3>1. f[N] > 0 /\ N - 1 \in 1 .. (N - 1) /\ (N - 1) + 1 = N /\ f[1] <= f[0] /\ f[0] = Len(written)
            /\ f[1] \in Nat /\ f[N] \in Nat
        BY <1>0, <1>1, <1>3, <2>2 DEF CutAt
      <3>2. name[N - 1] # NoFile
        BY <1>1, <2>2, <3>1 DEF Enough
      <3>3. (N - 1 - restarts) * SizeLimit \in Int
        BY <1>0
      <3>4. \/ f[0] - f[N] >= (N - 1 - restarts) * SizeLimit
            \/ f[1] - f[N] >= (N - 1 - restarts) * SizeLimit
        BY <1>1, <3>1, <3>2 DEF Enough
      <3>5. j > f[N]
        <4> DEFINE kept == (N - 1 - restarts) * SizeLimit
        <4>1. kept \in Int /\ Len(written) - j < kept /\ j \in Nat
              /\ (f[0] - f[N] >= kept \/ f[1] - f[N] >= kept)
          BY <1>2, <3>3, <3>4
        <4>2. \A k, l, a, b, c, d \in Int : l - d < k /\ (a - c >= k \/ b - c >= k) /\ b <= a /\ a = l => d > c
          OBVIOUS
        <4> HIDE DEF kept
        <4> QED BY <1>2, <3>1, <4>1, <4>2
      <3> QED BY <1>2, <1>7, <3>1, <3>5
    <2>3. CASE N = 1
      <3>1. (0 - restarts) * SizeLimit <= 0
        BY <1>0
      <3> QED BY <1>0, <1>2, <2>3, <3>1
    <2> QED BY <1>0, <2>1, <2>2, <2>3
  <1>9. ASSUME NEW i \in FileNames, NEW j \in FileNames, NEW k \in DOMAIN Of(i), NEW l \in DOMAIN Of(j),
               i > j \/ (i = j /\ k < l)
        PROVE  \E p, q \in DOMAIN written : p < q /\ written[p] = Of(i)[k] /\ written[q] = Of(j)[l]
    <2>1. i \in 0..N /\ j \in 0..N /\ i + 1 \in 0..N /\ j + 1 \in 0..N
      BY <1>0, <1>6
    <2>2. i > j => f[i] <= f[j + 1]
      BY <1>0, <1>1, <2>1 DEF CutAt
    <2>3. f[i + 1] + k \in (f[i + 1] + 1) .. f[i] /\ f[j + 1] + l \in (f[j + 1] + 1) .. f[j]
      BY <1>6, <2>1
    <2>4. k \in Nat /\ l \in Nat
      BY <1>4, <2>1
    <2>5. /\ f[i] \in 0 .. Len(written) /\ f[i + 1] \in 0 .. Len(written)
          /\ f[j] \in 0 .. Len(written) /\ f[j + 1] \in 0 .. Len(written)
      BY <1>3, <2>1, Zenon
    <2> DEFINE a == f[i + 1]  b == f[i]  c == f[j + 1]  d == f[j]
    <2>8. a \in Nat /\ b \in 0 .. Len(written) /\ c \in Nat /\ d \in 0 .. Len(written)
      BY <1>2, <2>5
    <2>9. a + k \in (a + 1) .. b /\ c + l \in (c + 1) .. d /\ (i > j => b <= c) /\ (i = j => a = c)
      BY <2>2, <2>3
    <2> HIDE DEF a, b, c, d
    <2>10. a + k \in DOMAIN written /\ c + l \in DOMAIN written
      BY <1>2, <2>4, <2>8, <2>9
    <2>11. a + k < c + l
      <3>1. CASE i = j /\ k < l
        BY <2>4, <2>8, <2>9, <3>1
      <3>2. CASE i > j
        BY <2>4, <2>8, <2>9, <3>2
      <3> QED BY <1>9, <3>1, <3>2
    <2>6. f[i + 1] + k \in DOMAIN written /\ f[j + 1] + l \in DOMAIN written
      BY <2>10 DEF a, c
    <2>7. f[i + 1] + k < f[j + 1] + l
      BY <2>11 DEF a, c
    <2> QED BY <1>6, <2>1, <2>6, <2>7
  <1>10. \E removed \in 0 .. Len(written) :
           InFiles = {written[i] : i \in (removed + 1) .. Len(written)}
    <2>1. N \in 0..N
      BY <1>0
    <2> QED BY <1>3, <1>7, <2>1
  <1>11. \A i \in FileNames : Len(Of(i)) <= SizeLimit
    BY DEF RotateInv, NamesInv
  <1> QED BY <1>8, <1>9, <1>10, <1>11 DEF NewestRecordsKept

LEMMA RotateFacts ==
  ASSUME RotateAssumption, NEW w, Writers = {w}, RotateInv(w)
  PROVE  /\ rotate_file_number \in Nat /\ rotate_file_number > 0
         /\ SizeLimit \in Nat /\ SizeLimit > 0 /\ restarts \in Nat /\ NoFile \notin Nat
         /\ FileNames = 0 .. rotate_file_number /\ Fds = 0..1 /\ w \in Writers
         /\ written \in Seq(Nat) /\ Len(written) \in Nat /\ Len(content) \in Nat
         /\ content \in Seq(Seq(Nat)) /\ DOMAIN content = 1 .. Len(content)
         /\ \A i \in FileNames : Of(i) \in Seq(Nat) /\ Len(Of(i)) \in Nat
         /\ NoneIsOpen => LowestFd = 0
  <1>1. Fds = 0..1
    BY FS_Singleton DEF Fds
  <1>2. RotateKinds /\ NamesInv
    BY DEF RotateInv
  <1>3. ASSUME NoneIsOpen PROVE LowestFd = 0
    <2>1. 0 \in Fds /\ fds[0] = NoFile /\ \A m \in 0 .. (0 - 1) : fds[m] # NoFile
      BY <1>1, <1>3 DEF NoneIsOpen
    <2>2. \A n \in Fds : (fds[n] = NoFile /\ \A m \in 0 .. (n - 1) : fds[m] # NoFile) => n = 0
      BY <1>1, <1>3 DEF NoneIsOpen
    <2> QED BY <2>1, <2>2 DEF LowestFd
  <1>4. \A i \in FileNames : Of(i) \in Seq(Nat) /\ Len(Of(i)) \in Nat
    BY <1>2, FilesAreSeqs, LenProperties
  <1>5. written \in Seq(Nat) /\ Len(written) \in Nat
    BY <1>2, LenProperties DEF RotateKinds
  <1>6. content \in Seq(Seq(Nat)) /\ DOMAIN content = 1 .. Len(content) /\ Len(content) \in Nat
    BY <1>2, LenProperties DEF RotateKinds, RotateTypes
  <1> QED BY <1>1, <1>2, <1>3, <1>4, <1>5, <1>6 DEF RotateAssumption, FileNames, RotateKinds

(* A step that leaves the files alone while none is moved.                 *)
LEMMA FilesStay ==
  ASSUME RotateAssumption, NEW w, Writers = {w}, RotateInv(w),
         UNCHANGED <<name, content, written, restarts>>,
         Turning(w) => dst[w] = rotate_file_number,
         Turning(w)' => dst'[w] \in {rotate_file_number, rotate_file_number - 1}
  PROVE  NamesInv' /\ \E f : CutAt(f)' /\ Enough(f, w)'
  <1>1. \A i : Of(i)' = Of(i)
    BY DEF Of
  <1>2. NamesInv'
    BY <1>1 DEF NamesInv, RotateInv
  <1>3. PICK f : CutAt(f) /\ Enough(f, w)
    BY DEF RotateInv
  <1>4. CutAt(f)'
    BY <1>1, <1>3 DEF CutAt, Piece
  <1>5. Enough(f, w)'
    <2>1. \A i \in 1 .. (rotate_file_number - 1) :
            /\ ~(Turning(w) /\ i > dst[w])
            /\ ~(Turning(w)' /\ i > dst'[w])
      BY RotateFacts
    <2> QED BY <1>3, <2>1 DEF Enough
  <1> QED BY <1>2, <1>4, <1>5

LEMMA WriteStep ==
  ASSUME RotateAssumption, NEW w, Writers = {w}, RotateInv(w), Write(w)
  PROVE  RotateInv(w)'
  <1>1. /\ at[w] = "idle" /\ at' = [at EXCEPT ![w] = IF log_file_fd < 0 THEN "open" ELSE "writev"]
        /\ logged' = logged + 1 /\ record' = [record EXCEPT ![w] = logged + 1]
        /\ UNCHANGED <<log_file_fd, current_file_size, name, content, fds, fd, dst, restarts, written>>
    BY DEF Write, Go, files, locals
  <1>2. RotateKinds /\ HandleInv(w) /\ log_file_fd \in {-1} \cup Fds /\ w \in Writers /\ Fds = 0..1
    BY RotateFacts DEF RotateInv, RotateKinds, RotateTypes
  <1>3. RotateKinds'
    BY <1>1, <1>2 DEF RotateKinds, RotateTypes, Steps
  <1>4. at'[w] = (IF log_file_fd = -1 THEN "open" ELSE "writev")
    BY <1>1, <1>2 DEF RotateKinds, RotateTypes
  <1>5. HandleInv(w)'
    BY <1>1, <1>2, <1>4 DEF HandleInv, BaseIsOpen, NoneIsOpen, Of
  <1>6. TurnInv(w)' /\ ~Turning(w) /\ ~Turning(w)'
    BY <1>1, <1>4 DEF TurnInv, Turning
  <1> QED BY <1>1, <1>3, <1>5, <1>6, FilesStay DEF RotateInv

(* What open() leaves: the base file has a name of its own and the lowest  *)
(* descriptor.                                                             *)
LEMMA BaseOpened ==
  ASSUME RotateAssumption, NEW w, Writers = {w}, RotateInv(w), NoneIsOpen, OpenBase(w),
         Len(content') \in Nat, Len(content') >= Len(content),
         name[0] = NoFile => Len(content') = Len(content) + 1
  PROVE  /\ name' \in [FileNames -> Nat \cup {NoFile}] /\ fds' \in [Fds -> Nat \cup {NoFile}]
         /\ name'[0] # NoFile /\ name'[0] = IF name[0] = NoFile THEN Len(content) + 1 ELSE name[0]
         /\ \A i \in FileNames : i # 0 => name'[i] = name[i]
         /\ \A i \in FileNames : name'[i] # NoFile => name'[i] \in 1 .. Len(content')
         /\ \A i, j \in FileNames : i # j /\ name'[i] # NoFile => name'[i] # name'[j]
         /\ fd' = [fd EXCEPT ![w] = 0] /\ fd'[w] = 0 /\ 0 \in Fds /\ 0 \in FileNames
         /\ fds'[0] = name'[0] /\ \A m \in Fds : m # 0 => fds'[m] = NoFile
  <1>1. RotateKinds /\ NamesInv /\ 0 \in FileNames /\ w \in Writers /\ LowestFd = 0 /\ Fds = 0..1
    BY RotateFacts DEF RotateInv
  <1>2. /\ name' = IF name[0] = NoFile THEN [name EXCEPT ![0] = Len(content) + 1] ELSE name
        /\ fds' = [fds EXCEPT ![0] = name'[0]] /\ fd' = [fd EXCEPT ![w] = 0]
    BY <1>1 DEF OpenBase
  <1>3. /\ NoFile \notin Nat /\ Len(content) \in Nat
        /\ \A i \in FileNames : name[i] # NoFile => name[i] \in 1 .. Len(content)
        /\ \A i, j \in FileNames : i # j /\ name[i] # NoFile => name[i] # name[j]
    BY <1>1, RotateFacts DEF NamesInv
  <1>4. /\ name' \in [FileNames -> Nat \cup {NoFile}] /\ name'[0] # NoFile /\ name'[0] \in Nat
        /\ \A i \in FileNames : i # 0 => name'[i] = name[i]
        /\ name[0] # NoFile => name'[0] = name[0]
        /\ name[0] = NoFile => name'[0] = Len(content) + 1
    BY <1>1, <1>2, <1>3 DEF RotateKinds, RotateTypes
  <1>5. /\ fds' \in [Fds -> Nat \cup {NoFile}] /\ fd'[w] = 0 /\ fds'[0] = name'[0]
        /\ \A m \in Fds : m # 0 => fds'[m] = NoFile
    BY <1>1, <1>2, <1>4 DEF RotateKinds, RotateTypes, NoneIsOpen
  <1>6. ASSUME NEW i \in FileNames, name'[i] # NoFile PROVE name'[i] \in 1 .. Len(content')
    <2>1. CASE i = 0 /\ name[0] = NoFile
      BY <1>3, <1>4, <2>1
    <2>2. CASE ~(i = 0 /\ name[0] = NoFile)
      <3>1. name'[i] = name[i]
        BY <1>4, <2>2
      <3>2. name[i] \in 1 .. Len(content)
        BY <1>3, <1>6, <3>1
      <3> QED BY <1>3, <3>1, <3>2
    <2> QED BY <2>1, <2>2
  <1>7. ASSUME NEW i \in FileNames, NEW j \in FileNames, i # j, name'[i] # NoFile
        PROVE  name'[i] # name'[j]
    <2>1. CASE name[0] # NoFile
      BY <1>3, <1>4, <1>7, <2>1
    <2>2. CASE name[0] = NoFile
      <3>1. \A n \in FileNames : n # 0 => name'[n] = NoFile \/ name'[n] \in 1 .. Len(content)
        BY <1>3, <1>4
      <3>2. name'[0] = Len(content) + 1 /\ name'[0] # NoFile
        BY <1>4, <2>2
      <3>3. CASE i = 0 \/ j = 0
        BY <1>3, <1>7, <3>1, <3>2, <3>3
      <3>4. CASE i # 0 /\ j # 0
        BY <1>3, <1>4, <1>7, <3>4
      <3> QED BY <3>3, <3>4
    <2> QED BY <2>1, <2>2
  <1> QED BY <1>1, <1>2, <1>4, <1>5, <1>6, <1>7

LEMMA OpenStep ==
  ASSUME RotateAssumption, NEW w, Writers = {w}, RotateInv(w), Open(w)
  PROVE  RotateInv(w)'
  <1>1. /\ at[w] = "open" /\ log_file_fd = -1 /\ NoneIsOpen /\ w \in Writers /\ RotateKinds /\ NamesInv
        /\ 0 \in Nat /\ NoFile \notin Nat
    BY RotateFacts DEF RotateInv, HandleInv, Open
  <1>2. /\ OpenBase(w) /\ at' = [at EXCEPT ![w] = "lseek"]
        /\ content' = IF name[0] = NoFile THEN Append(content, <<>>) ELSE content
        /\ UNCHANGED <<log_file_fd, current_file_size, dst, restarts, record, logged, written>>
    BY <1>1 DEF Open, Go
  <1>3. /\ content' \in Seq(Seq(Nat)) /\ Len(content') >= Len(content) /\ Len(content') \in Nat
        /\ \A n \in 1 .. Len(content) : content'[n] = content[n]
        /\ name[0] = NoFile => Len(content') = Len(content) + 1 /\ content'[Len(content) + 1] = <<>>
    BY <1>2, RotateFacts, EmptySeq, AppendProperties
  <1>4. /\ name' \in [FileNames -> Nat \cup {NoFile}] /\ fds' \in [Fds -> Nat \cup {NoFile}]
        /\ name'[0] # NoFile /\ name'[0] = IF name[0] = NoFile THEN Len(content) + 1 ELSE name[0]
        /\ \A i \in FileNames : i # 0 => name'[i] = name[i]
        /\ \A i \in FileNames : name'[i] # NoFile => name'[i] \in 1 .. Len(content')
        /\ \A i, j \in FileNames : i # j /\ name'[i] # NoFile => name'[i] # name'[j]
        /\ fd' = [fd EXCEPT ![w] = 0] /\ fd'[w] = 0 /\ 0 \in Fds /\ 0 \in FileNames
        /\ fds'[0] = name'[0] /\ \A m \in Fds : m # 0 => fds'[m] = NoFile
    BY <1>1, <1>2, <1>3, BaseOpened
  <1>5. \A i \in FileNames : name[i] # NoFile => name[i] \in 1 .. Len(content)
    BY <1>1 DEF NamesInv
  <1>6. ASSUME NEW i \in FileNames PROVE Of(i)' = Of(i)
    <2>1. CASE i = 0 /\ name[0] = NoFile
      BY <1>3, <1>4, <2>1 DEF Of
    <2>2. CASE ~(i = 0 /\ name[0] = NoFile)
      <3>1. name'[i] = name[i]
        BY <1>4, <2>2
      <3> QED BY <1>3, <1>5, <3>1 DEF Of
    <2> QED BY <2>1, <2>2
  <1>7. RotateKinds'
    BY <1>1, <1>2, <1>3, <1>4 DEF RotateKinds, RotateTypes, Steps
  <1>8. at'[w] = "lseek"
    BY <1>1, <1>2 DEF RotateKinds, RotateTypes
  <1>9. HandleInv(w)'
    BY <1>1, <1>2, <1>4, <1>8 DEF HandleInv, BaseIsOpen
  <1>10. /\ rotate_file_number \in FileNames /\ rotate_file_number # 0
         /\ \A i \in 1 .. (rotate_file_number - 1) : i \in FileNames /\ i # 0
         /\ rotate_file_number > 1 => rotate_file_number - 1 \in FileNames /\ rotate_file_number - 1 # 0
         /\ \A i \in 0 .. (rotate_file_number - 1) : i \in FileNames
    BY RotateFacts
  <1>11. NamesInv'
    BY <1>1, <1>4, <1>6, <1>10 DEF NamesInv
  <1>12. TurnInv(w)' /\ ~Turning(w) /\ ~Turning(w)'
    BY <1>1, <1>8 DEF TurnInv, Turning
  <1>13. PICK f : CutAt(f) /\ Enough(f, w)
    BY DEF RotateInv
  <1>14. CutAt(f)'
    BY <1>2, <1>6, <1>10, <1>13 DEF CutAt, Piece
  <1>15. Enough(f, w)'
    BY <1>2, <1>4, <1>10, <1>12, <1>13 DEF Enough
  <1> QED BY <1>7, <1>9, <1>11, <1>12, <1>14, <1>15 DEF RotateInv

LEMMA LseekStep ==
  ASSUME RotateAssumption, NEW w, Writers = {w}, RotateInv(w), Lseek(w)
  PROVE  RotateInv(w)'
  <1>1. /\ at[w] = "lseek" /\ log_file_fd = -1 /\ BaseIsOpen(fd[w]) /\ w \in Writers /\ Fds = 0..1
        /\ RotateKinds /\ 0 \in FileNames /\ rotate_file_number \in FileNames
    BY RotateFacts DEF RotateInv, HandleInv, Lseek
  <1>2. content[fds[fd[w]]] = Of(0) /\ Len(Of(0)) \in Nat /\ Len(Of(0)) <= SizeLimit
    BY <1>1, RotateFacts DEF BaseIsOpen, Of, RotateInv, NamesInv
  <1>3. UNCHANGED <<fd, name, content, restarts, record, logged, written>> /\ \A i : Of(i)' = Of(i)
    BY DEF Lseek, files, Of
  <1>4. CASE Len(Of(0)) < SizeLimit
    <2>1. /\ current_file_size' = Len(Of(0)) /\ log_file_fd' = fd[w]
          /\ at' = [at EXCEPT ![w] = "writev"] /\ UNCHANGED <<fds, dst>>
      BY <1>2, <1>3, <1>4 DEF Lseek, UseFile, Go
    <2>2. RotateKinds'
      BY <1>1, <1>2, <1>3, <2>1 DEF RotateKinds, RotateTypes, Steps, BaseIsOpen
    <2>3. at'[w] = "writev" /\ log_file_fd' # -1
      BY <1>1, <2>1 DEF RotateKinds, RotateTypes, BaseIsOpen
    <2>4. BaseIsOpen(log_file_fd)'
      BY <1>1, <1>3, <2>1 DEF BaseIsOpen
    <2>5. HandleInv(w)'
      BY <1>3, <1>4, <2>1, <2>3, <2>4 DEF HandleInv
    <2>6. TurnInv(w)' /\ ~Turning(w) /\ ~Turning(w)'
      BY <1>1, <2>3 DEF TurnInv, Turning
    <2> QED BY <1>3, <2>2, <2>5, <2>6, FilesStay DEF RotateInv
  <1>5. CASE ~(Len(Of(0)) < SizeLimit)
    <2>1. /\ fds' = [fds EXCEPT ![fd[w]] = NoFile] /\ at' = [at EXCEPT ![w] = "rename"]
          /\ dst' = [dst EXCEPT ![w] = rotate_file_number]
          /\ UNCHANGED <<log_file_fd, current_file_size>>
      BY <1>2, <1>5 DEF Lseek, Go
    <2>2. RotateKinds'
      BY <1>1, <1>3, <2>1 DEF RotateKinds, RotateTypes, Steps
    <2>3. at'[w] = "rename" /\ dst'[w] = rotate_file_number /\ log_file_fd' = -1
      BY <1>1, <2>1 DEF RotateKinds, RotateTypes
    <2>4. NoneIsOpen'
      BY <1>1, <2>1 DEF NoneIsOpen, BaseIsOpen, RotateKinds, RotateTypes
    <2>5. HandleInv(w)'
      BY <2>3, <2>4 DEF HandleInv
    <2>6. TurnInv(w)' /\ ~Turning(w)
      BY <1>1, <1>2, <1>3, <1>5, <2>3, RotateFacts DEF TurnInv, Turning
    <2> QED BY <1>3, <2>2, <2>3, <2>5, <2>6, FilesStay DEF RotateInv
  <1> QED BY <1>4, <1>5

(* A step of the loop that moves nothing.                                  *)
LEMMA RenameNothing ==
  ASSUME RotateAssumption, NEW w, Writers = {w}, RotateInv(w), Rename(w), name' = name
  PROVE  NamesInv' /\ \E f : CutAt(f)' /\ Enough(f, w)'
  <1> DEFINE N == rotate_file_number  d == dst[w]
  <1>1. /\ at[w] = "rename" /\ w \in Writers /\ RotateKinds /\ d \in 1..N /\ N \in Nat
        /\ Turning(w) /\ SizeLimit \in Nat /\ restarts \in Nat
    BY RotateFacts DEF RotateInv, TurnInv, Rename, Turning
  <1>2. UNCHANGED <<content, written, restarts>> /\ dst'[w] = d - 1 /\ \A i : Of(i)' = Of(i)
    BY <1>1 DEF Rename, NextName, RotateKinds, RotateTypes, Of
  <1>3. CASE d = N
    BY <1>2, <1>3, FilesStay
  <1>4. CASE d # N
    <2>1. NamesInv'
      BY <1>2 DEF NamesInv, RotateInv
    <2>2. PICK f : CutAt(f) /\ Enough(f, w)
      BY DEF RotateInv
    <2>3. CutAt(f)'
      BY <1>2, <2>2 DEF CutAt, Piece
    <2>4. Enough(f, w)'
      <3>1. ASSUME NEW i \in 1 .. (N - 1), name'[i] # NoFile
            PROVE  (IF Turning(w)' /\ i > dst'[w] THEN f[0] ELSE f[1]) - f[i + 1]
                     >= (i - restarts') * SizeLimit
        <4> DEFINE b == (i - restarts) * SizeLimit  a == f[0]  c == f[1]  e == f[i + 1]
        <4>1. a \in Nat /\ c \in Nat /\ e \in Nat /\ c <= a /\ b \in Int
          BY <1>1, <2>2, RotateFacts DEF CutAt
        <4>2. (IF i > d THEN a ELSE c) - e >= b
          BY <1>1, <2>2, <3>1 DEF Enough
        <4>3. Turning(w)' /\ dst'[w] = d - 1 /\ restarts' = restarts
          BY <1>1, <1>2 DEF Rename, Go, Turning, RotateKinds, RotateTypes
        <4> HIDE DEF a, b, c, e
        <4>4. (IF i > d - 1 THEN a ELSE c) - e >= b
          BY <1>1, <4>1, <4>2
        <4> QED BY <4>3, <4>4 DEF a, b, c, e
      <3> QED BY <1>2, <2>2, <3>1 DEF Enough
    <2> QED BY <2>1, <2>3, <2>4
  <1> QED BY <1>3, <1>4

(* A step that moves a file to the next name, which is free or the highest *)
(* one in use.                                                             *)
LEMMA RenameMoves ==
  ASSUME RotateAssumption, NEW w, Writers = {w}, RotateInv(w), Rename(w),
         NEW N, NEW d, NEW L, N = rotate_file_number, d = dst[w], L = SizeLimit,
         d # N, name[d - 1] # NoFile
  PROVE  /\ NamesInv' /\ \E f : CutAt(f)' /\ Enough(f, w)'
         /\ name'[d - 1] = NoFile /\ name' \in [FileNames -> Nat \cup {NoFile}]
         /\ d # 1 => Of(0)' = Of(0)
  <1>1. /\ at[w] = "rename" /\ w \in Writers /\ RotateKinds /\ NamesInv /\ TurnInv(w)
        /\ d \in 1 .. (N - 1) /\ N \in Nat /\ Turning(w) /\ L \in Nat /\ restarts \in Nat
        /\ Len(Of(0)) = L /\ FileNames = 0..N /\ d \in FileNames /\ d - 1 \in FileNames
        /\ d + 1 \in FileNames
    BY RotateFacts DEF RotateInv, TurnInv, Rename, Turning
  <1>a. /\ N \in Nat /\ d \in Nat /\ 0 < d /\ d < N /\ L \in Nat /\ restarts \in Nat
    <2>1. \A n \in Nat : \A e \in 1 .. (n - 1) : e \in Nat /\ 0 < e /\ e < n
      OBVIOUS
    <2> QED BY <1>1, <2>1, Zenon
  <1>e. 0 \in 0..N /\ 1 \in 0..N /\ d \in 0..N /\ d - 1 \in 0..N /\ d + 1 \in 0..N /\ N \in 0..N
    BY <1>a
  <1>f. FileNames = 0..N
    BY <1>1
  <1>b. name \in [0..N -> Nat \cup {NoFile}] /\ dst \in [Writers -> 0..N] /\ w \in Writers
    BY <1>1 DEF RotateKinds, RotateTypes
  <1>2. /\ name' = [name EXCEPT ![d] = name[d - 1], ![d - 1] = NoFile]
        /\ UNCHANGED <<content, written, restarts>> /\ dst'[w] = d - 1
    <2>1. /\ name' = Renamed(d) /\ dst' = [dst EXCEPT ![w] = d - 1]
          /\ UNCHANGED <<content, written, restarts>>
      BY DEF Rename, NextName
    <2>2. name' = [name EXCEPT ![d] = name[d - 1], ![d - 1] = NoFile]
      BY <2>1 DEF Renamed
    <2> QED BY <1>b, <2>1, <2>2
  <1>3. Turning(w)'
    BY <1>1 DEF Rename, Go, Turning, RotateKinds, RotateTypes
  <1>4. /\ name' \in [FileNames -> Nat \cup {NoFile}]
        /\ name'[d] = name[d - 1] /\ name'[d - 1] = NoFile
        /\ \A i \in FileNames : i # d /\ i # d - 1 => name'[i] = name[i]
    <2>1. d \in 0..N /\ d - 1 \in 0..N /\ d # d - 1
      BY <1>a
    <2>2. name[d - 1] \in Nat \cup {NoFile}
      BY <1>b, <2>1
    <2> DEFINE h == [name EXCEPT ![d] = name[d - 1]]
    <2>3. h \in [0..N -> Nat \cup {NoFile}] /\ h[d] = name[d - 1] /\ \A i \in 0..N : i # d => h[i] = name[i]
      BY <1>b, <2>1, <2>2
    <2>4. name' = [h EXCEPT ![d - 1] = NoFile]
      BY <1>2
    <2> HIDE DEF h
    <2>5. /\ name' \in [0..N -> Nat \cup {NoFile}] /\ name'[d - 1] = NoFile
          /\ \A i \in 0..N : i # d - 1 => name'[i] = h[i]
      BY <2>1, <2>3, <2>4
    <2>6. FileNames = 0..N
      BY <1>1
    <2> QED BY <2>1, <2>3, <2>5, <2>6
  <1>5. /\ Of(d)' = Of(d - 1) /\ Of(d - 1)' = <<>>
        /\ \A i \in FileNames : i # d /\ i # d - 1 => Of(i)' = Of(i)
    BY <1>2, <1>4 DEF Of
  <1>6. \A i \in FileNames : Len(Of(i)) \in Nat
    BY RotateFacts
  <1>7. Len(<<>>) = 0
    BY EmptySeq
  <1>8. NamesInv'
    <2>1. name'[N] = NoFile
      BY <1>1, <1>4 DEF NamesInv
    <2>a. /\ d \in FileNames /\ d - 1 \in FileNames /\ d # d - 1
      BY <1>1, <1>a
    <2>b. /\ \A i \in FileNames : name[i] # NoFile => name[i] \in 1 .. Len(content)
          /\ \A i, j \in FileNames : i # j /\ name[i] # NoFile => name[i] # name[j]
          /\ \A i \in FileNames : Len(Of(i)) <= L
      BY <1>1 DEF NamesInv
    <2>2. \A i \in FileNames : name'[i] # NoFile => name'[i] \in 1 .. Len(content')
      <3>1. content' = content
        BY <1>2
      <3> QED BY <1>4, <2>a, <2>b, <3>1, Zenon
    <2>3. \A i, j \in FileNames : i # j /\ name'[i] # NoFile => name'[i] # name'[j]
      <3> SUFFICES ASSUME NEW i \in FileNames, NEW j \in FileNames, i # j, name'[i] # NoFile
                   PROVE  name'[i] # name'[j]
        OBVIOUS
      <3>1. i # d - 1
        BY <1>4
      <3>2. CASE j = d - 1
        BY <1>4, <3>2
      <3>3. CASE i = d /\ j # d - 1
        <4>1. name'[i] = name[d - 1] /\ name'[j] = name[j] /\ j # d
          BY <1>4, <3>3
        <4> QED BY <2>a, <2>b, <3>3, <4>1, Zenon
      <3>4. CASE i # d /\ j = d
        <4>1. name'[i] = name[i] /\ name'[j] = name[d - 1]
          BY <1>4, <3>1, <3>4
        <4> QED BY <2>a, <2>b, <3>1, <4>1, Zenon
      <3>5. CASE i # d /\ j # d /\ j # d - 1
        <4>1. name'[i] = name[i] /\ name'[j] = name[j]
          BY <1>4, <3>1, <3>5
        <4> QED BY <2>b, <4>1, Zenon
      <3> QED BY <3>2, <3>3, <3>4, <3>5
    <2>4. \A i \in FileNames : Len(Of(i)') <= L
      <3>1. Len(<<>>) <= L
        BY <1>7, <1>a
      <3> QED BY <1>5, <2>a, <2>b, <3>1, Zenon
    <2>5. ASSUME NEW i \in 1 .. (N - 1), name'[i] # NoFile PROVE Len(Of(i)') = L
      <3>1. i \in FileNames /\ i # d - 1
        BY <1>1, <1>4, <2>5
      <3>2. CASE i = d
        <4>1. d - 1 = 0 \/ d - 1 \in 1 .. (N - 1)
          BY <1>a
        <4>2. Len(Of(d - 1)) = L
          BY <1>1, <1>4, <2>5, <3>2, <4>1 DEF NamesInv
        <4> QED BY <1>5, <3>2, <4>2
      <3>3. CASE i # d
        <4>1. \A k \in 1 .. (N - 1) : name[k] # NoFile => Len(Of(k)) = L
          BY <1>1 DEF NamesInv
        <4> QED BY <1>4, <1>5, <2>5, <3>1, <3>3, <4>1, Zenon
      <3> QED BY <3>2, <3>3
    <2> QED BY <2>1, <2>2, <2>3, <2>4, <2>5 DEF NamesInv
  <1>9. PICK f : CutAt(f) /\ Enough(f, w)
    BY DEF RotateInv
  <1>10. /\ \A i \in 0..N : f[i] \in 0 .. Len(written)
         /\ \A i, j \in 0..N : i <= j => f[j] <= f[i]
         /\ Len(written) \in Nat /\ f[0] = Len(written)
         /\ \A i \in 0 .. (N - 1) : Piece(Of(i), f[i + 1], f[i])
    BY <1>1, <1>9, RotateFacts DEF CutAt
  <1>c. \A i \in 0..N : f[i] \in Nat
    BY <1>10
  <1>g. \A i \in 0..N : f[i] \in 0 .. Len(written)
    BY <1>10, Zenon
  <1>h. \A i, j \in 0..N : i <= j => f[j] <= f[i]
    BY <1>10, Zenon
  <1>p. \A i \in 0 .. (N - 1) : Piece(Of(i), f[i + 1], f[i])
    BY <1>10, Zenon
  <1>d. f[d] <= f[d - 1] /\ f[d + 1] <= f[d]
    <2>1. d \in 0..N /\ d - 1 \in 0..N /\ d + 1 \in 0..N /\ d - 1 <= d /\ d <= d + 1
      BY <1>a
    <2> QED BY <1>h, <2>1, Zenon
  <1>11. d # N - 1 => f[d + 1] = f[d]
    <2> SUFFICES ASSUME d # N - 1 PROVE f[d + 1] = f[d]
      OBVIOUS
    <2>1. Of(d) = <<>>
      BY <1>1 DEF TurnInv, Of
    <2>2. Piece(<<>>, f[d + 1], f[d])
      <3>1. d \in 0 .. (N - 1)
        BY <1>a
      <3> QED BY <1>p, <2>1, <3>1
    <2>3. f[d] \in Nat /\ f[d + 1] \in Nat
      BY <1>e, <1>c, Zenon
    <2> QED BY <1>7, <2>2, <2>3 DEF Piece
  <1> DEFINE g == [i \in 0..N |-> IF i = d THEN f[d - 1] ELSE IF i = d + 1 THEN f[d] ELSE f[i]]
  <1>12. /\ g \in [0..N -> 0 .. Len(written)] /\ g[d] = f[d - 1] /\ g[d + 1] = f[d]
         /\ \A i \in 0..N : i # d /\ i # d + 1 => g[i] = f[i]
         /\ d # N - 1 => \A i \in 0..N : i # d => g[i] = f[i]
    <2>1. \A i \in 0..N : g[i] = IF i = d THEN f[d - 1] ELSE IF i = d + 1 THEN f[d] ELSE f[i]
      OBVIOUS
    <2>2. f[d - 1] \in 0 .. Len(written) /\ f[d] \in 0 .. Len(written) /\ d + 1 # d
      <3>1. d + 1 # d
        BY <1>a
      <3> QED BY <1>e, <1>g, <3>1, Zenon
    <2>3. g \in [0..N -> 0 .. Len(written)]
      BY <1>g, <2>2
    <2>4. d # N - 1 => f[d + 1] = f[d]
      BY <1>11
    <2> HIDE DEF g
    <2> QED BY <1>e, <2>1, <2>2, <2>3, <2>4, Zenon
  <1> HIDE DEF g
  <1>13. CutAt(g)'
    <2>1. g[0] = Len(written)
      <3>1. 0 \in 0..N /\ 0 # d /\ 0 # d + 1
        BY <1>a
      <3> QED BY <1>10, <1>12, <3>1
    <2>2. \A i, j \in 0..N : i <= j => g[j] <= g[i]
      <3> SUFFICES ASSUME NEW i \in 0..N, NEW j \in 0..N, i < j PROVE g[j] <= g[i]
        BY <1>12
      <3>1. i \in Nat /\ j \in Nat /\ f[i] \in Nat /\ f[j] \in Nat /\ f[d] \in Nat /\ f[d - 1] \in Nat
            /\ f[j] <= f[i]
        <4>1. d \in 0..N /\ d - 1 \in 0..N /\ i <= j /\ i \in Nat /\ j \in Nat
          BY <1>a
        <4> QED BY <1>c, <1>h, <4>1
      <3>2. CASE j = d
        <4>1. i # d + 1 /\ i <= d - 1 /\ f[d - 1] <= f[i]
          <5>1. i # d + 1 /\ i <= d - 1 /\ d - 1 \in 0..N
            BY <1>a, <3>1, <3>2
          <5> QED BY <1>h, <5>1
        <4> QED BY <1>12, <3>2, <4>1
      <3>3. CASE j = d + 1
        <4>1. i <= d /\ i # d + 1 /\ f[d] <= f[i] /\ f[d] <= f[d - 1]
          <5>1. i <= d /\ i # d + 1 /\ d \in 0..N
            BY <1>a, <3>1, <3>3
          <5> QED BY <1>d, <1>h, <5>1
        <4>2. g[j] = f[d] /\ g[i] \in {f[i], f[d - 1]}
          BY <1>12, <3>3, <4>1
        <4> QED BY <4>1, <4>2
      <3>4. CASE i = d /\ j # d + 1
        <4>1. f[j] <= f[d - 1] /\ j # d
          <5>1. d - 1 <= j /\ j # d
            BY <1>a, <3>4
          <5> QED BY <1>e, <1>h, <5>1, Zenon
        <4> QED BY <1>12, <3>4, <4>1
      <3>5. CASE i = d + 1
        <4>1. f[j] <= f[d] /\ j # d /\ j # d + 1
          <5>1. d <= j /\ j # d /\ j # d + 1
            BY <1>a, <3>5
          <5> QED BY <1>e, <1>h, <5>1, Zenon
        <4> QED BY <1>12, <3>5, <4>1
      <3>6. CASE i # d /\ i # d + 1 /\ j # d /\ j # d + 1
        BY <1>12, <3>1, <3>6
      <3> QED BY <3>2, <3>3, <3>4, <3>5, <3>6
    <2>3. ASSUME NEW i \in 0 .. (N - 1) PROVE Piece(Of(i)', g[i + 1], g[i])
      <3>1. i \in 0..N /\ i + 1 \in 0..N /\ f[d - 1] \in Nat
        BY <1>a, <1>e, <1>c
      <3>2. CASE i = d
        <4>1. Piece(Of(d - 1), f[d], f[d - 1])
          <5>1. d - 1 \in 0 .. (N - 1) /\ (d - 1) + 1 = d
            BY <1>a
          <5> QED BY <1>p, <5>1
        <4> QED BY <1>5, <1>12, <3>2, <4>1
      <3>3. CASE i = d - 1
        <4>0. i + 1 = d /\ i # d /\ i # d + 1
          BY <1>a, <3>3
        <4>1. g[i] = f[d - 1] /\ g[i + 1] = f[d - 1] /\ Of(i)' = <<>>
          BY <1>5, <1>12, <3>1, <3>3, <4>0
        <4> QED BY <1>7, <3>1, <4>1 DEF Piece
      <3>4. CASE i # d /\ i # d - 1
        <4>1. i + 1 # d /\ Of(i)' = Of(i)
          BY <1>1, <1>5, <3>1, <3>4
        <4>2. g[i + 1] = f[i + 1]
          <5>1. i + 1 # d + 1
            <6>1. i \in Int /\ d \in Int
              BY <1>a
            <6> QED BY <3>4, <6>1
          <5> QED BY <1>12, <3>1, <4>1, <5>1
        <4>3. g[i] = f[i]
          <5>1. i = d + 1 => d # N - 1
            BY <1>a
          <5> QED BY <1>12, <3>1, <3>4, <5>1
        <4> QED BY <1>p, <4>1, <4>2, <4>3
      <3> QED BY <3>2, <3>3, <3>4
    <2> QED BY <1>1, <1>2, <1>12, <2>1, <2>2, <2>3 DEF CutAt, Piece
  <1>14. Enough(g, w)'
    <2>1. f[0] - f[1] = L /\ f[0] \in Nat /\ f[1] \in Nat
      <3>1. 0 \in 0 .. (N - 1) /\ 0 + 1 = 1
        BY <1>a
      <3>2. Piece(Of(0), f[1], f[0])
        BY <1>p, <3>1
      <3>3. f[0] \in Nat /\ f[1] \in Nat
        BY <1>e, <1>c
      <3> QED BY <1>1, <3>2, <3>3 DEF Piece
    <2>2. ASSUME NEW i \in 1 .. (N - 1), name'[i] # NoFile
          PROVE  (IF i > d - 1 THEN g[0] ELSE g[1]) - g[i + 1] >= (i - restarts) * L
      <3>1. i \in FileNames /\ i + 1 \in 0..N /\ i # d - 1 /\ g[0] = f[0]
        <4>1. i \in FileNames /\ i + 1 \in 0..N /\ 0 \in 0..N /\ 0 # d /\ 0 # d + 1
          BY <1>a, <1>f
        <4> QED BY <1>4, <1>12, <2>2, <4>1
      <3>2. CASE i = d
        <4>1. g[i + 1] = f[d] /\ f[d] \in Nat
          BY <1>e, <1>c, <1>12, <3>2
        <4>2. f[0] - f[d] >= (d - restarts) * L
          <5>1. CASE d = 1
            <6>1. (1 - restarts) * L <= L
              <7>1. \A r, l \in Nat : (1 - r) * l <= l
                OBVIOUS
              <7> QED BY <1>a, <7>1
            <6> QED BY <1>a, <2>1, <5>1, <6>1
          <5>2. CASE d # 1
            <6>1. d - 1 \in 1 .. (N - 1) /\ ~(d - 1 > d) /\ (d - 1) + 1 = d
              BY <1>a, <5>2
            <6>2. f[1] - f[d] >= ((d - 1) - restarts) * L
              BY <1>9, <6>1 DEF Enough
            <6>3. ((d - 1) - restarts) * L + L = (d - restarts) * L /\ ((d - 1) - restarts) * L \in Int
              <7>1. \A x, l \in Int : (x - 1) * l + l = x * l /\ (x - 1) * l \in Int
                OBVIOUS
              <7>2. d - restarts \in Int /\ L \in Int /\ (d - 1) - restarts = (d - restarts) - 1
                BY <1>a
              <7>3. PICK z \in Int : z = d - restarts
                BY <7>2
              <7>4. (z - 1) * L + L = z * L /\ (z - 1) * L \in Int
                BY <7>1, <7>2, Zenon
              <7>5. (d - 1) - restarts = z - 1
                BY <1>a, <7>3
              <7> QED BY <7>3, <7>4, <7>5, Zenon
            <6> DEFINE p == ((d - 1) - restarts) * L  q == (d - restarts) * L  a == f[0]  b == f[1]
                       c == f[d]
            <6>4. /\ p + L = q /\ p \in Int /\ b - c >= p /\ a - b = L /\ a \in Nat /\ b \in Nat /\ c \in Nat
              BY <2>1, <4>1, <6>2, <6>3
            <6> HIDE DEF p, q, a, b, c
            <6>5. a - c >= q
              BY <1>a, <6>4
            <6> QED BY <6>5 DEF q, a, c
          <5> QED BY <5>1, <5>2
        <4> QED BY <1>a, <3>1, <3>2, <4>1, <4>2
      <3>3. CASE i > d
        <4>1. i + 1 # d /\ i + 1 # d + 1 /\ i > d - 1 /\ name[i] # NoFile
          BY <1>1, <1>4, <2>2, <3>1, <3>3
        <4>2. g[i + 1] = f[i + 1]
          BY <1>12, <3>1, <4>1
        <4>3. f[0] - f[i + 1] >= (i - restarts) * L
          BY <1>1, <1>9, <3>3, <4>1 DEF Enough
        <4> QED BY <3>1, <4>1, <4>2, <4>3
      <3>4. CASE i < d
        <4>1. i + 1 # d /\ i + 1 # d + 1 /\ ~(i > d - 1) /\ ~(i > d) /\ name[i] # NoFile /\ 1 # d
              /\ 1 # d + 1 /\ 1 \in 0..N
          BY <1>1, <1>4, <2>2, <3>1, <3>4
        <4>2. g[i + 1] = f[i + 1] /\ g[1] = f[1]
          BY <1>12, <3>1, <4>1
        <4>3. f[1] - f[i + 1] >= (i - restarts) * L
          BY <1>9, <4>1 DEF Enough
        <4> QED BY <4>1, <4>2, <4>3
      <3> QED BY <1>1, <3>2, <3>3, <3>4
    <2>3. g[N] > 0 /\ N > 1 => name'[N - 1] # NoFile
      <3> SUFFICES ASSUME g[N] > 0, N > 1 PROVE name'[N - 1] # NoFile
        OBVIOUS
      <3>1. CASE d = N - 1
        BY <1>4, <3>1
      <3>2. CASE d # N - 1
        <4>1. g[N] = f[N] /\ N - 1 \in FileNames /\ N - 1 # d /\ N - 1 # d - 1
          BY <1>1, <1>12, <3>2
        <4> QED BY <1>4, <1>9, <4>1 DEF Enough
      <3> QED BY <3>1, <3>2
    <2> QED BY <1>2, <1>3, <2>2, <2>3 DEF Enough
  <1>15. d # 1 => Of(0)' = Of(0)
    <2> SUFFICES ASSUME d # 1 PROVE Of(0)' = Of(0)
      OBVIOUS
    <2>1. 0 \in FileNames /\ 0 # d /\ 0 # d - 1
      BY <1>a, <1>f
    <2> QED BY <1>5, <2>1
  <1> QED BY <1>4, <1>8, <1>13, <1>14, <1>15

LEMMA RenameStep ==
  ASSUME RotateAssumption, NEW w, Writers = {w}, RotateInv(w), Rename(w)
  PROVE  RotateInv(w)'
  <1> SUFFICES ASSUME NEW N, NEW d, NEW L, N = rotate_file_number, d = dst[w], L = SizeLimit
               PROVE  RotateInv(w)'
    OBVIOUS
  <1>1. /\ at[w] = "rename" /\ w \in Writers /\ RotateKinds /\ NamesInv /\ TurnInv(w) /\ HandleInv(w)
        /\ d \in 1..N /\ N \in Nat /\ Len(Of(0)) = SizeLimit /\ FileNames = 0..N /\ SizeLimit > 0
    BY RotateFacts DEF RotateInv, TurnInv, Rename
  <1>2. /\ name' = Renamed(d) /\ dst' = [dst EXCEPT ![w] = d - 1]
        /\ at' = [at EXCEPT ![w] = IF d - 1 > 0 THEN "rename" ELSE "truncate"]
        /\ UNCHANGED <<log_file_fd, current_file_size, content, fds, fd, restarts, record, logged, written>>
    BY DEF Rename, NextName, Go
  <1>3. dst'[w] = d - 1 /\ at'[w] = (IF d - 1 > 0 THEN "rename" ELSE "truncate")
    BY <1>1, <1>2 DEF RotateKinds, RotateTypes
  <1>4. CASE d = N \/ name[d - 1] = NoFile
    <2>1. name' = name
      BY <1>1, <1>2, <1>4 DEF Renamed, NamesInv, RotateKinds, RotateTypes
    <2>2. NamesInv' /\ \E f : CutAt(f)' /\ Enough(f, w)'
      BY <2>1, RenameNothing
    <2>3. RotateKinds'
      BY <1>1, <1>2, <2>1 DEF RotateKinds, RotateTypes, Steps
    <2>4. HandleInv(w)'
      BY <1>1, <1>2, <1>3 DEF HandleInv, NoneIsOpen
    <2>5. TurnInv(w)'
      <3>1. Of(0)' = Of(0)
        BY <1>2, <2>1 DEF Of
      <3>2. d # N => d # 1
        <4>1. Len(<<>>) = 0
          BY EmptySeq
        <4>2. name[0] # NoFile
          BY <1>1, <4>1, RotateFacts DEF Of
        <4> QED BY <1>1, <1>4, <4>2
      <3> QED BY <1>1, <1>3, <1>4, <2>1, <3>1, <3>2 DEF TurnInv
    <2> QED BY <2>2, <2>3, <2>4, <2>5 DEF RotateInv
  <1>5. CASE d # N /\ name[d - 1] # NoFile
    <2>1. /\ NamesInv' /\ \E f : CutAt(f)' /\ Enough(f, w)'
          /\ name'[d - 1] = NoFile /\ name' \in [FileNames -> Nat \cup {NoFile}]
          /\ d # 1 => Of(0)' = Of(0)
      BY <1>5, RenameMoves
    <2>2. RotateKinds'
      BY <1>1, <1>2, <2>1 DEF RotateKinds, RotateTypes, Steps
    <2>3. HandleInv(w)'
      BY <1>1, <1>2, <1>3 DEF HandleInv, NoneIsOpen
    <2>4. TurnInv(w)'
      BY <1>1, <1>3, <2>1 DEF TurnInv
    <2> QED BY <2>1, <2>2, <2>3, <2>4 DEF RotateInv
  <1> QED BY <1>4, <1>5

(* The base file is empty again.  With one file only, what it held is gone.*)
LEMMA TruncateStep ==
  ASSUME RotateAssumption, NEW w, Writers = {w}, RotateInv(w), Truncate(w), NEW N, N = rotate_file_number
  PROVE  RotateInv(w)'
  <1>1. /\ at[w] = "truncate" /\ dst[w] = 0 /\ (N = 1 \/ name[0] = NoFile) /\ NoneIsOpen /\ w \in Writers
        /\ RotateKinds /\ NamesInv /\ Turning(w)
    BY RotateFacts DEF RotateInv, HandleInv, TurnInv, Truncate, Turning
  <1>2. /\ OpenBase(w) /\ at' = [at EXCEPT ![w] = "writev"]
        /\ content' = IF name[0] = NoFile THEN Append(content, <<>>)
                      ELSE [content EXCEPT ![name[0]] = <<>>]
        /\ current_file_size' = 0 /\ log_file_fd' = fd'[w]
        /\ UNCHANGED <<dst, restarts, record, logged, written>>
    BY DEF Truncate, UseFile, Go
  <1>3. /\ N \in Nat /\ N > 0 /\ FileNames = 0..N /\ SizeLimit \in Nat /\ SizeLimit > 0
        /\ restarts \in Nat /\ NoFile \notin Nat /\ Len(content) \in Nat /\ Len(<<>>) = 0
    BY RotateFacts, EmptySeq
  <1>4. \A i \in FileNames : name[i] # NoFile => name[i] \in 1 .. Len(content)
    BY <1>1 DEF NamesInv
  <1>5. /\ content' \in Seq(Seq(Nat)) /\ Len(content') \in Nat /\ Len(content') >= Len(content)
        /\ name[0] = NoFile => Len(content') = Len(content) + 1 /\ content'[Len(content) + 1] = <<>>
        /\ name[0] # NoFile => content'[name[0]] = <<>>
        /\ \A n \in 1 .. Len(content) : n # name[0] => content'[n] = content[n]
    <2>1. content \in Seq(Seq(Nat)) /\ <<>> \in Seq(Nat)
      BY RotateFacts, EmptySeq
    <2>2. CASE name[0] = NoFile
      BY <1>2, <1>3, <2>1, <2>2, AppendProperties
    <2>3. CASE name[0] # NoFile
      <3>1. name[0] \in 1 .. Len(content) /\ content' = [content EXCEPT ![name[0]] = <<>>]
        BY <1>2, <1>3, <1>4, <2>3
      <3> QED BY <1>3, <2>1, <2>3, <3>1, ExceptSeq
    <2> QED BY <2>2, <2>3
  <1>6. /\ name' \in [FileNames -> Nat \cup {NoFile}] /\ fds' \in [Fds -> Nat \cup {NoFile}]
        /\ name'[0] # NoFile /\ name'[0] = IF name[0] = NoFile THEN Len(content) + 1 ELSE name[0]
        /\ \A i \in FileNames : i # 0 => name'[i] = name[i]
        /\ \A i \in FileNames : name'[i] # NoFile => name'[i] \in 1 .. Len(content')
        /\ \A i, j \in FileNames : i # j /\ name'[i] # NoFile => name'[i] # name'[j]
        /\ fd' = [fd EXCEPT ![w] = 0] /\ fd'[w] = 0 /\ 0 \in Fds /\ 0 \in FileNames
        /\ fds'[0] = name'[0] /\ \A m \in Fds : m # 0 => fds'[m] = NoFile
    BY <1>1, <1>2, <1>5, BaseOpened
  <1>7. Of(0)' = <<>>
    BY <1>5, <1>6 DEF Of
  <1>8. ASSUME NEW i \in FileNames, i # 0 PROVE Of(i)' = Of(i)
    <2>1. name'[i] = name[i]
      BY <1>6, <1>8
    <2>2. name[i] # NoFile => name[i] # name[0]
      BY <1>1, <1>6, <1>8 DEF NamesInv
    <2> QED BY <1>4, <1>5, <2>1, <2>2 DEF Of
  <1>9. RotateKinds'
    BY <1>1, <1>2, <1>3, <1>5, <1>6 DEF RotateKinds, RotateTypes, Steps
  <1>10. at'[w] = "writev"
    BY <1>1, <1>2 DEF RotateKinds, RotateTypes
  <1>11. HandleInv(w)'
    <2>1. BaseIsOpen(log_file_fd)' /\ log_file_fd' # -1
      BY <1>2, <1>6 DEF BaseIsOpen
    <2> QED BY <1>2, <1>3, <1>7, <1>10, <2>1 DEF HandleInv
  <1>12. /\ N \in FileNames /\ N # 0 /\ 1 \in FileNames
         /\ \A i \in 1 .. (N - 1) : i \in FileNames /\ i # 0
    BY <1>3
  <1>13. NamesInv'
    <2>1. /\ name[N] = NoFile /\ \A i \in FileNames : Len(Of(i)) <= SizeLimit
          /\ \A i \in 1 .. (N - 1) : name[i] # NoFile => Len(Of(i)) = SizeLimit
      BY <1>1 DEF NamesInv
    <2>2. \A i \in FileNames : Len(Of(i)') <= SizeLimit
      BY <1>3, <1>7, <1>8, <2>1
    <2>3. \A i \in 1 .. (N - 1) : name'[i] # NoFile => Len(Of(i)') = SizeLimit
      BY <1>6, <1>8, <1>12, <2>1
    <2> QED BY <1>6, <1>12, <2>1, <2>2, <2>3 DEF NamesInv
  <1>14. TurnInv(w)' /\ ~Turning(w)'
    BY <1>10 DEF TurnInv, Turning
  <1>15. PICK f : CutAt(f) /\ Enough(f, w)
    BY DEF RotateInv
  <1>16. /\ f \in [0..N -> 0 .. Len(written)] /\ f[0] = Len(written) /\ Len(written) \in Nat
         /\ \A i, j \in 0..N : i <= j => f[j] <= f[i]
         /\ \A i \in 0 .. (N - 1) : Piece(Of(i), f[i + 1], f[i])
    BY <1>3, <1>15, RotateFacts DEF CutAt
  <1>17. N # 1 => f[1] = f[0]
    <2> SUFFICES ASSUME N # 1 PROVE f[1] = f[0]
      OBVIOUS
    <2>1. Of(0) = <<>> /\ 0 \in 0 .. (N - 1)
      BY <1>1, <1>3 DEF Of
    <2>2. Piece(<<>>, f[0 + 1], f[0]) /\ 0 + 1 = 1
      BY <1>16, <2>1
    <2>3. f[0] \in Nat /\ f[1] \in Nat
      BY <1>3, <1>12, <1>16
    <2> QED BY <1>3, <2>2, <2>3 DEF Piece
  <1> DEFINE g == [i \in 0..N |-> IF i = 1 THEN f[0] ELSE f[i]]
  <1>18. /\ g \in [0..N -> 0 .. Len(written)] /\ g[0] = f[0] /\ g[1] = f[0]
         /\ N # 1 => \A i \in 0..N : g[i] = f[i]
    <2>1. 0 \in 0..N /\ 1 \in 0..N
      BY <1>3
    <2>2. f[0] \in 0 .. Len(written)
      BY <1>16, <2>1
    <2> QED BY <1>16, <1>17, <2>1, <2>2
  <1> HIDE DEF g
  <1>19. CutAt(g)'
    <2>1. \A i, j \in 0..N : i <= j => g[j] <= g[i]
      <3>1. CASE N = 1
        <4>1. g[0] \in Nat /\ g[0] = g[1] /\ 0..N = {0, 1}
          BY <1>16, <1>18, <3>1
        <4> QED BY <4>1
      <3>2. CASE N # 1
        BY <1>16, <1>18, <3>2
      <3> QED BY <3>1, <3>2
    <2>2. ASSUME NEW i \in 0 .. (N - 1) PROVE Piece(Of(i), g[i + 1], g[i])'
      <3>1. written' = written /\ i \in 0..N /\ i + 1 \in 0..N /\ f[0] \in Nat
        BY <1>2, <1>3, <1>16
      <3>2. CASE i = 0
        <4>1. g[i + 1] = f[0] /\ g[i] = f[0]
          BY <1>18, <3>2
        <4> QED BY <1>3, <1>7, <3>1, <3>2, <4>1 DEF Piece
      <3>3. CASE i # 0
        <4>1. N # 1
          BY <1>3, <3>3
        <4>2. g[i + 1] = f[i + 1] /\ g[i] = f[i] /\ Of(i)' = Of(i)
          BY <1>3, <1>8, <1>18, <3>1, <3>3, <4>1
        <4> QED BY <1>16, <3>1, <4>2 DEF Piece
      <3> QED BY <3>2, <3>3
    <2> QED BY <1>2, <1>3, <1>16, <1>18, <2>1, <2>2 DEF CutAt
  <1>20. Enough(g, w)'
    <2>1. ASSUME NEW i \in 1 .. (N - 1), name'[i] # NoFile
          PROVE  g[1] - g[i + 1] >= (i - restarts) * SizeLimit
      <3>1. i > 0 /\ name[i] # NoFile /\ N # 1 /\ i + 1 \in 0..N
        BY <1>3, <1>6, <1>12, <2>1
      <3>2. f[0] - f[i + 1] >= (i - restarts) * SizeLimit
        BY <1>1, <1>15, <3>1 DEF Enough
      <3> QED BY <1>18, <3>1, <3>2
    <2>2. g[N] > 0 /\ N > 1 => name'[N - 1] # NoFile
      <3> SUFFICES ASSUME g[N] > 0, N > 1 PROVE name'[N - 1] # NoFile
        OBVIOUS
      <3>1. g[N] = f[N] /\ N - 1 \in 1 .. (N - 1)
        BY <1>3, <1>12, <1>18
      <3>2. name[N - 1] # NoFile
        BY <1>15, <3>1 DEF Enough
      <3> QED BY <1>6, <1>12, <3>1, <3>2
    <2> QED BY <1>2, <1>14, <2>1, <2>2 DEF Enough
  <1> QED BY <1>9, <1>11, <1>13, <1>14, <1>19, <1>20 DEF RotateInv

(* A record goes to the end of what was written and of the base file.      *)
LEMMA WritevStep ==
  ASSUME RotateAssumption, NEW w, Writers = {w}, RotateInv(w), Writev(w), NEW N, N = rotate_file_number
  PROVE  RotateInv(w)'
  <1>1. /\ at[w] = "writev" /\ log_file_fd # -1 /\ BaseIsOpen(log_file_fd) /\ w \in Writers
        /\ current_file_size = Len(Of(0)) /\ Len(Of(0)) < SizeLimit /\ RotateKinds /\ NamesInv
        /\ ~Turning(w)
    BY RotateFacts DEF RotateInv, HandleInv, Writev, Turning
  <1>2. /\ N \in Nat /\ N > 0 /\ FileNames = 0..N /\ SizeLimit \in Nat /\ restarts \in Nat
        /\ NoFile \notin Nat /\ Len(content) \in Nat /\ content \in Seq(Seq(Nat)) /\ Fds = 0..1
        /\ written \in Seq(Nat) /\ Len(written) \in Nat /\ record[w] \in Nat
        /\ Of(0) \in Seq(Nat) /\ Len(Of(0)) \in Nat
    BY <1>1, RotateFacts DEF RotateKinds
  <1> DEFINE r == record[w]  n == name[0]
  <1>3. /\ content' = [content EXCEPT ![n] = Append(content[n], r)] /\ written' = Append(written, r)
        /\ at' = [at EXCEPT ![w] = "count"]
        /\ UNCHANGED <<log_file_fd, current_file_size, name, fds, fd, dst, restarts, record, logged>>
    <2>1. ~(log_file_fd < 0) /\ fds[log_file_fd] = name[0] /\ name[0] # NoFile
      BY <1>1, <1>2 DEF BaseIsOpen
    <2> QED BY <2>1 DEF Writev, Go, locals
  <1>4. n \in 1 .. Len(content) /\ Of(0) = content[n] /\ n # NoFile
    BY <1>1, <1>2 DEF BaseIsOpen, NamesInv, Of
  <1> HIDE DEF r
  <1>5. /\ Append(Of(0), r) \in Seq(Nat) /\ Len(Append(Of(0), r)) = Len(Of(0)) + 1
        /\ Append(Of(0), r)[Len(Of(0)) + 1] = r
        /\ \A k \in 1 .. Len(Of(0)) : Append(Of(0), r)[k] = Of(0)[k]
    BY <1>2, AppendProperties DEF r
  <1>6. /\ written' \in Seq(Nat) /\ Len(written') = Len(written) + 1 /\ written'[Len(written) + 1] = r
        /\ \A k \in 1 .. Len(written) : written'[k] = written[k]
    BY <1>2, <1>3, AppendProperties DEF r
  <1>7. /\ content' \in Seq(Seq(Nat)) /\ Len(content') = Len(content)
        /\ \A k \in 1 .. Len(content) : content'[k] = IF k = n THEN Append(Of(0), r) ELSE content[k]
    <2> HIDE DEF n
    <2> QED BY <1>2, <1>3, <1>4, <1>5, ExceptSeq
  <1>8. Of(0)' = Append(Of(0), r)
    BY <1>3, <1>4, <1>7 DEF Of
  <1>9. ASSUME NEW i \in FileNames, i # 0 PROVE Of(i)' = Of(i)
    <2>1. name' = name /\ 0 \in FileNames
      BY <1>2, <1>3
    <2>2. name[i] # NoFile => name[i] # n /\ name[i] \in 1 .. Len(content)
      BY <1>1, <1>9, <2>1 DEF NamesInv
    <2> QED BY <1>7, <2>1, <2>2 DEF Of
  <1>10. RotateKinds'
    BY <1>1, <1>3, <1>6, <1>7 DEF RotateKinds, RotateTypes, Steps
  <1>11. at'[w] = "count"
    BY <1>1, <1>3 DEF RotateKinds, RotateTypes
  <1>12. HandleInv(w)'
    <2>1. BaseIsOpen(log_file_fd)' /\ log_file_fd' # -1
      BY <1>1, <1>3 DEF BaseIsOpen
    <2>2. current_file_size' + 1 = Len(Of(0)')
      BY <1>1, <1>3, <1>5, <1>8
    <2> QED BY <1>11, <2>1, <2>2 DEF HandleInv
  <1>13. \A i \in 1 .. (N - 1) : i \in FileNames /\ i # 0
    BY <1>2
  <1>14. NamesInv'
    <2>1. /\ name[N] = NoFile /\ \A i \in FileNames : Len(Of(i)) <= SizeLimit
          /\ \A i \in FileNames : name[i] # NoFile => name[i] \in 1 .. Len(content)
          /\ \A i, j \in FileNames : i # j /\ name[i] # NoFile => name[i] # name[j]
          /\ \A i \in 1 .. (N - 1) : name[i] # NoFile => Len(Of(i)) = SizeLimit
      BY <1>1 DEF NamesInv
    <2>2. \A i \in FileNames : Len(Of(i)') <= SizeLimit
      BY <1>1, <1>2, <1>5, <1>8, <1>9, <2>1
    <2>3. \A i \in 1 .. (N - 1) : name'[i] # NoFile => Len(Of(i)') = SizeLimit
      BY <1>3, <1>9, <1>13, <2>1
    <2>4. name' = name /\ Len(content') = Len(content)
      BY <1>3, <1>7
    <2> QED BY <2>1, <2>2, <2>3, <2>4 DEF NamesInv
  <1>15. TurnInv(w)' /\ ~Turning(w)'
    BY <1>11 DEF TurnInv, Turning
  <1>16. PICK f : CutAt(f) /\ Enough(f, w)
    BY DEF RotateInv
  <1>17. /\ f \in [0..N -> 0 .. Len(written)] /\ f[0] = Len(written)
         /\ \A i, j \in 0..N : i <= j => f[j] <= f[i]
         /\ \A i \in 0 .. (N - 1) : Piece(Of(i), f[i + 1], f[i])
    BY <1>2, <1>16 DEF CutAt
  <1> DEFINE g == [f EXCEPT ![0] = f[0] + 1]
  <1>18. /\ g \in [0..N -> 0 .. Len(written')] /\ g[0] = Len(written')
         /\ \A i \in 0..N : i # 0 => g[i] = f[i]
    <2>1. /\ 0 \in 0..N /\ f[0] + 1 = Len(written') /\ Len(written') \in 0 .. Len(written')
          /\ 0 .. Len(written) \subseteq 0 .. Len(written')
      BY <1>2, <1>6, <1>17
    <2> QED BY <1>17, <2>1
  <1>19. \A i \in 0..N : f[i] \in Nat /\ f[i] <= Len(written)
    BY <1>2, <1>17
  <1> HIDE DEF g
  <1>20. CutAt(g)'
    <2>1. ASSUME NEW i \in 0..N, NEW j \in 0..N, i <= j PROVE g[j] <= g[i]
      <3>1. CASE j = 0
        <4>1. i = 0 /\ g[0] \in Nat
          BY <1>2, <1>6, <1>18, <2>1, <3>1
        <4> QED BY <3>1, <4>1
      <3>2. CASE j # 0 /\ i = 0
        <4>1. g[j] = f[j] /\ f[j] <= Len(written) /\ g[i] = Len(written) + 1 /\ f[j] \in Nat
          BY <1>6, <1>18, <1>19, <3>2
        <4> QED BY <1>2, <4>1
      <3>3. CASE j # 0 /\ i # 0
        BY <1>17, <1>18, <2>1, <3>3
      <3> QED BY <3>1, <3>2, <3>3
    <2>2. ASSUME NEW i \in 0 .. (N - 1) PROVE Piece(Of(i), g[i + 1], g[i])'
      <3>1. i \in 0..N /\ i + 1 \in 0..N /\ i + 1 # 0 /\ g[i + 1] = f[i + 1]
        BY <1>2, <1>18
      <3>2. f[i + 1] \in Nat /\ f[i] \in Nat /\ f[i] <= Len(written)
        BY <1>19, <3>1
      <3>3. Piece(Of(i), f[i + 1], f[i])
        BY <1>17
      <3>4. \A k \in 1 .. (f[i] - f[i + 1]) : f[i + 1] + k \in 1 .. Len(written)
        <4>1. \A a, b, l \in Nat : b <= l => \A k \in 1 .. (b - a) : a + k \in 1 .. l
          OBVIOUS
        <4> QED BY <1>2, <3>2, <4>1
      <3>5. \A k \in 1 .. (f[i] - f[i + 1]) : written'[f[i + 1] + k] = written[f[i + 1] + k]
        BY <1>6, <3>4
      <3>6. CASE i # 0
        <4>1. Of(i)' = Of(i) /\ g[i] = f[i]
          BY <1>2, <1>9, <1>18, <3>1, <3>6
        <4> QED BY <3>1, <3>3, <3>5, <4>1 DEF Piece
      <3>7. CASE i = 0
        <4> DEFINE a == f[i + 1]  b == Len(written)  s == Of(0)
        <4>1. /\ f[i] = b /\ g[i] = b + 1 /\ g[i + 1] = a /\ Of(i)' = Append(s, r) /\ a \in Nat
          BY <1>6, <1>8, <1>17, <1>18, <3>1, <3>2, <3>7
        <4>2. Len(s) = b - a /\ \A k \in 1 .. (b - a) : s[k] = written[a + k]
          BY <3>3, <3>7, <4>1 DEF Piece
        <4>3. \A k \in 1 .. (b - a) : written'[a + k] = written[a + k]
          BY <3>5, <4>1
        <4> HIDE DEF a, b, s
        <4>4. /\ Len(Append(s, r)) = Len(s) + 1 /\ Append(s, r)[Len(s) + 1] = r
              /\ \A k \in 1 .. Len(s) : Append(s, r)[k] = s[k]
              /\ written'[b + 1] = r /\ b \in Nat
          BY <1>2, <1>5, <1>6 DEF s, b
        <4>5. ASSUME NEW k \in 1 .. ((b + 1) - a) PROVE Append(s, r)[k] = written'[a + k]
          <5>1. CASE k = (b - a) + 1
            <6>1. a + k = b + 1 /\ k = Len(s) + 1
              BY <4>1, <4>2, <4>4, <5>1
            <6> QED BY <4>4, <6>1
          <5>2. CASE k # (b - a) + 1
            <6>0. a \in Nat /\ b \in Nat
              BY <4>1, <4>4
            <6>1. k \in 1 .. (b - a)
              BY <5>2, <6>0
            <6> QED BY <4>2, <4>3, <4>4, <6>1
          <5> QED BY <5>1, <5>2
        <4>6. Len(Append(s, r)) = (b + 1) - a
          BY <4>1, <4>2, <4>4
        <4> QED BY <4>1, <4>5, <4>6 DEF Piece
      <3> QED BY <3>6, <3>7
    <2> QED BY <1>2, <1>18, <2>1, <2>2 DEF CutAt
  <1>21. Enough(g, w)'
    <2>1. 1 \in 0..N /\ N \in 0..N /\ N # 0 /\ \A i \in 1 .. (N - 1) : i + 1 \in 0..N /\ i + 1 # 0
      BY <1>2
    <2>2. g[1] = f[1] /\ g[N] = f[N] /\ \A i \in 1 .. (N - 1) : g[i + 1] = f[i + 1]
      BY <1>18, <2>1
    <2> QED BY <1>1, <1>3, <1>15, <1>16, <2>2 DEF Enough
  <1> QED BY <1>10, <1>12, <1>14, <1>15, <1>20, <1>21 DEF RotateInv

LEMMA CountStep ==
  ASSUME RotateAssumption, NEW w, Writers = {w}, RotateInv(w), Count(w)
  PROVE  RotateInv(w)'
  <1>1. /\ at[w] = "count" /\ log_file_fd # -1 /\ BaseIsOpen(log_file_fd) /\ w \in Writers
        /\ current_file_size + 1 = Len(Of(0)) /\ RotateKinds /\ Len(Of(0)) <= SizeLimit
        /\ SizeLimit \in Nat /\ Len(Of(0)) \in Nat /\ current_file_size \in Nat
    <2>1. at[w] = "count" /\ w \in Writers /\ RotateKinds /\ HandleInv(w) /\ NamesInv /\ 0 \in FileNames
          /\ SizeLimit \in Nat /\ Len(Of(0)) \in Nat
      BY RotateFacts DEF RotateInv, Count
    <2>2. log_file_fd # -1 /\ BaseIsOpen(log_file_fd) /\ current_file_size + 1 = Len(Of(0))
      BY <2>1 DEF HandleInv
    <2>3. Len(Of(0)) <= SizeLimit
      BY <2>1 DEF NamesInv
    <2>4. current_file_size \in Nat
      BY <2>1 DEF RotateKinds, RotateTypes
    <2> QED BY <2>1, <2>2, <2>3, <2>4
  <1>2. /\ current_file_size' = current_file_size + 1
        /\ at' = [at EXCEPT ![w] = IF Len(Of(0)) >= SizeLimit THEN "close" ELSE "idle"]
        /\ UNCHANGED <<log_file_fd, name, content, fds, fd, dst, restarts, record, logged, written>>
    BY <1>1 DEF Count, Go, files, locals
  <1>3. RotateKinds'
    BY <1>1, <1>2 DEF RotateKinds, RotateTypes, Steps
  <1>4. at'[w] = IF Len(Of(0)) >= SizeLimit THEN "close" ELSE "idle"
    BY <1>1, <1>2 DEF RotateKinds, RotateTypes
  <1>5. Of(0)' = Of(0) /\ BaseIsOpen(log_file_fd)' /\ log_file_fd' # -1
    BY <1>1, <1>2 DEF Of, BaseIsOpen
  <1>6. HandleInv(w)'
    BY <1>1, <1>2, <1>4, <1>5 DEF HandleInv
  <1>7. TurnInv(w)' /\ ~Turning(w) /\ ~Turning(w)'
    BY <1>1, <1>4 DEF TurnInv, Turning
  <1> QED BY <1>2, <1>3, <1>6, <1>7, FilesStay DEF RotateInv

LEMMA CloseStep ==
  ASSUME RotateAssumption, NEW w, Writers = {w}, RotateInv(w), Close(w)
  PROVE  RotateInv(w)'
  <1>1. at[w] = "close" /\ log_file_fd # -1 /\ BaseIsOpen(log_file_fd) /\ w \in Writers /\ RotateKinds
        /\ Fds = 0..1
    BY RotateFacts DEF RotateInv, HandleInv, Close
  <1>2. /\ at' = [at EXCEPT ![w] = "reset"] /\ fds' = [fds EXCEPT ![log_file_fd] = NoFile]
        /\ UNCHANGED <<log_file_fd, current_file_size, name, content, fd, dst, restarts, record, logged,
                       written>>
    BY <1>1 DEF Close, Go, files, locals, BaseIsOpen
  <1>3. RotateKinds'
    BY <1>1, <1>2 DEF RotateKinds, RotateTypes, Steps
  <1>4. at'[w] = "reset" /\ NoneIsOpen'
    BY <1>1, <1>2 DEF RotateKinds, RotateTypes, NoneIsOpen, BaseIsOpen
  <1>5. HandleInv(w)' /\ TurnInv(w)' /\ ~Turning(w) /\ ~Turning(w)'
    BY <1>1, <1>2, <1>4 DEF HandleInv, TurnInv, Turning
  <1> QED BY <1>2, <1>3, <1>5, FilesStay DEF RotateInv

LEMMA ResetStep ==
  ASSUME RotateAssumption, NEW w, Writers = {w}, RotateInv(w), Reset(w)
  PROVE  RotateInv(w)'
  <1>1. at[w] = "reset" /\ NoneIsOpen /\ w \in Writers /\ RotateKinds
    BY RotateFacts DEF RotateInv, HandleInv, Reset
  <1>2. /\ at' = [at EXCEPT ![w] = "idle"] /\ log_file_fd' = -1 /\ current_file_size' = 0
        /\ UNCHANGED <<name, content, fds, fd, dst, restarts, record, logged, written>>
    BY DEF Reset, Go, files, locals
  <1>3. RotateKinds'
    BY <1>1, <1>2 DEF RotateKinds, RotateTypes, Steps
  <1>4. at'[w] = "idle" /\ NoneIsOpen'
    BY <1>1, <1>2 DEF RotateKinds, RotateTypes, NoneIsOpen
  <1>5. HandleInv(w)' /\ TurnInv(w)' /\ ~Turning(w) /\ ~Turning(w)'
    BY <1>1, <1>2, <1>4 DEF HandleInv, TurnInv, Turning
  <1> QED BY <1>2, <1>3, <1>5, FilesStay DEF RotateInv

(* The program ends: what a rotation has moved no longer counts the base   *)
(* file, which is at most one file less.                                   *)
LEMMA RestartStep ==
  ASSUME RotateAssumption, NEW w, Writers = {w}, RotateInv(w), Restart, NEW N, N = rotate_file_number
  PROVE  RotateInv(w)'
  <1>1. /\ w \in Writers /\ RotateKinds /\ NamesInv /\ N \in Nat /\ N > 0 /\ FileNames = 0..N
        /\ SizeLimit \in Nat /\ restarts \in Nat /\ Len(written) \in Nat
    BY RotateFacts DEF RotateInv
  <1>2. /\ at' = Idle /\ log_file_fd' = -1 /\ current_file_size' = 0 /\ fds' = [n \in Fds |-> NoFile]
        /\ restarts' = restarts + 1
        /\ UNCHANGED <<name, content, fd, dst, record, logged, written>>
    BY DEF Restart, files, locals
  <1>3. RotateKinds'
    BY <1>1, <1>2 DEF RotateKinds, RotateTypes, Steps, Idle
  <1>4. at'[w] = "idle" /\ NoneIsOpen' /\ \A i : Of(i)' = Of(i)
    BY <1>1, <1>2 DEF Idle, NoneIsOpen, Of
  <1>5. HandleInv(w)' /\ TurnInv(w)' /\ ~Turning(w)'
    BY <1>2, <1>4 DEF HandleInv, TurnInv, Turning
  <1>6. NamesInv'
    BY <1>1, <1>2, <1>4 DEF NamesInv
  <1>7. PICK f : CutAt(f) /\ Enough(f, w)
    BY DEF RotateInv
  <1>8. CutAt(f)'
    BY <1>2, <1>4, <1>7 DEF CutAt, Piece
  <1>9. /\ \A i \in 0..N : f[i] \in Nat
        /\ Piece(Of(0), f[1], f[0]) /\ Len(Of(0)) <= SizeLimit
    <2>1. 0 \in 0 .. (N - 1) /\ 0 + 1 = 1 /\ 0 \in FileNames
      BY <1>1
    <2> QED BY <1>1, <1>7, <2>1 DEF CutAt, NamesInv
  <1>10. f[0] - f[1] <= SizeLimit /\ f[0] \in Nat /\ f[1] \in Nat
    BY <1>1, <1>9 DEF Piece
  <1>11. ASSUME NEW i \in 1 .. (N - 1), name'[i] # NoFile
         PROVE  f[1] - f[i + 1] >= (i - (restarts + 1)) * SizeLimit
    <2> DEFINE a == f[0]  b == f[1]  c == f[i + 1]  p == (i - restarts) * SizeLimit
               q == (i - (restarts + 1)) * SizeLimit
    <2>1. c \in Nat
      BY <1>1, <1>9
    <2>2. a - c >= p \/ b - c >= p
      BY <1>2, <1>7, <1>11 DEF Enough
    <2>3. p \in Int /\ q = p - SizeLimit
      <3>1. \A x, l \in Int : x * l \in Int /\ (x - 1) * l = x * l - l
        OBVIOUS
      <3>2. i - restarts \in Int /\ i - (restarts + 1) = (i - restarts) - 1
        BY <1>1
      <3> QED BY <1>1, <3>1, <3>2
    <2>4. a - b <= SizeLimit /\ a \in Nat /\ b \in Nat
      BY <1>10
    <2> HIDE DEF a, b, c, p, q
    <2>5. b - c >= q
      BY <1>1, <2>1, <2>2, <2>3, <2>4
    <2> QED BY <2>5 DEF b, c, q
  <1>12. Enough(f, w)'
    BY <1>2, <1>5, <1>7, <1>11 DEF Enough
  <1> QED BY <1>3, <1>5, <1>6, <1>8, <1>12 DEF RotateInv

LEMMA RotateInitial ==
  ASSUME RotateAssumption, NEW w, Writers = {w}, RotateInit
  PROVE  RotateInv(w)
  <1>1. /\ rotate_file_number \in Nat /\ rotate_file_number > 0 /\ SizeLimit \in Nat /\ w \in Writers
        /\ FileNames = 0 .. rotate_file_number /\ Len(<<>>) = 0
    BY EmptySeq DEF RotateAssumption, FileNames
  <1>2. Fds = 0..1
    BY FS_Singleton DEF Fds
  <1>3. RotateKinds
    BY <1>1, <1>2, EmptySeq DEF RotateKinds, RotateTypes, RotateInit, Idle, Steps
  <1>4. at[w] = "idle" /\ log_file_fd = -1 /\ NoneIsOpen /\ restarts = 0
        /\ \A i \in FileNames : name[i] = NoFile /\ Of(i) = <<>>
    BY <1>1 DEF RotateInit, Idle, NoneIsOpen, Of
  <1>5. HandleInv(w) /\ TurnInv(w) /\ ~Turning(w)
    BY <1>4 DEF HandleInv, TurnInv, Turning
  <1>6. NamesInv
    <2>1. rotate_file_number \in FileNames
      BY <1>1
    <2>2. \A i \in 1 .. (rotate_file_number - 1) : i \in FileNames
      BY <1>1
    <2>3. \A i \in FileNames : Len(Of(i)) <= SizeLimit
      BY <1>1, <1>4
    <2> QED BY <1>4, <2>1, <2>2, <2>3 DEF NamesInv
  <1> DEFINE f == [i \in FileNames |-> 0]
  <1>7. Len(written) = 0
    BY <1>1 DEF RotateInit
  <1>8. f \in [FileNames -> 0 .. Len(written)] /\ \A i \in FileNames : f[i] = 0
    BY <1>7
  <1> HIDE DEF f
  <1>9. CutAt(f)
    <2>1. 0 \in FileNames
      BY <1>1
    <2>2. ASSUME NEW i \in 0 .. (rotate_file_number - 1) PROVE Piece(Of(i), f[i + 1], f[i])
      <3>1. i \in FileNames /\ i + 1 \in FileNames
        BY <1>1
      <3>2. Of(i) = <<>> /\ f[i + 1] = 0 /\ f[i] = 0
        BY <1>4, <1>8, <3>1
      <3> QED BY <1>1, <3>2 DEF Piece
    <2> QED BY <1>7, <1>8, <2>1, <2>2 DEF CutAt
  <1>10. Enough(f, w)
    <2>1. rotate_file_number \in FileNames /\ \A i \in 1 .. (rotate_file_number - 1) : i \in FileNames
      BY <1>1
    <2> QED BY <1>4, <1>8, <2>1 DEF Enough
  <1> QED BY <1>3, <1>5, <1>6, <1>9, <1>10 DEF RotateInv

LEMMA RotateInvariant ==
  ASSUME RotateAssumption, NEW w, Writers = {w}, RotateInv(w), [RotateNext]_rotateVars
  PROVE  RotateInv(w)'
  <1>1. CASE RotateNext
    <2>1. \A t \in Writers : t = w
      OBVIOUS
    <2>2. \/ Write(w) \/ Open(w) \/ Lseek(w) \/ Rename(w) \/ Truncate(w)
          \/ Writev(w) \/ Count(w) \/ Close(w) \/ Reset(w) \/ Restart
      BY <1>1, <2>1 DEF RotateNext
    <2> QED BY <2>2, WriteStep, OpenStep, LseekStep, RenameStep, TruncateStep, WritevStep, CountStep,
               CloseStep, ResetStep, RestartStep
  <1>2. CASE UNCHANGED rotateVars
    <2>1. /\ UNCHANGED <<log_file_fd, current_file_size, name, content, fds, at, fd, dst, restarts,
                         record, logged, written>>
      BY <1>2 DEF rotateVars, locals, files
    <2>2. \A i : Of(i)' = Of(i)
      BY <2>1 DEF Of
    <2>3. RotateKinds' /\ HandleInv(w)' /\ NamesInv' /\ TurnInv(w)'
      BY <2>1, <2>2 DEF RotateInv, RotateKinds, RotateTypes, HandleInv, BaseIsOpen, NoneIsOpen, NamesInv,
                        TurnInv
    <2>4. PICK f : CutAt(f) /\ Enough(f, w)
      BY DEF RotateInv
    <2>5. CutAt(f)' /\ Enough(f, w)'
      BY <2>1, <2>2, <2>4 DEF CutAt, Piece, Enough, Turning
    <2> QED BY <2>3, <2>5 DEF RotateInv
  <1> QED BY <1>1, <1>2

(* With one thread that writes, as when the asynchronous log runs: however *)
(* many files of whatever size, and wherever in write() or log_rotate_()   *)
(* the program ends and starts again, rotation removes the oldest records  *)
(* only and none from between the others, keeps as many as all files but   *)
(* base take, less one file for each restart, leaves the records in their  *)
(* order, and no file grows beyond its limit.                              *)
THEOREM RecordsKept ==
  ASSUME RotateAssumption, NEW w, Writers = {w}
  PROVE  RotateSpec => []NewestRecordsKept
  <1>1. RotateInit => RotateInv(w)
    BY RotateInitial
  <1>2. RotateInv(w) /\ [RotateNext]_rotateVars => RotateInv(w)'
    BY RotateInvariant
  <1>3. RotateInv(w) => NewestRecordsKept
    BY CutIsKept
  <1> QED BY <1>1, <1>2, <1>3, PTL DEF RotateSpec

-----------------------------------------------------------------------------
(* The filter for repeated messages, for any cache, keys and limits.       *)

(* Raised is a recursive function: the functions on 0..n that go up like   *)
(* it are the same as far as they go, and so there is one for all of Nat.  *)
Raises(f, n) == f \in [0..n -> Nat \ {0}] /\ f[0] = 1 /\ \A i \in 1..n : f[i] = kIncreaseTimes * f[i - 1]

LEMMA RaisesOnce ==
  ASSUME StormAssumption, NEW n \in Nat, NEW m \in Nat, n <= m, NEW f, NEW g, Raises(f, n), Raises(g, m)
  PROVE  \A i \in 0..n : f[i] = g[i]
  <1> SUFFICES ASSUME NEW b \in 0..n, f[b] # g[b] PROVE FALSE
    OBVIOUS
  <1> DEFINE T == {i \in 0..n : f[i] # g[i]}
  <1>1. T \subseteq Nat /\ T # {}
    OBVIOUS
  <1>2. PICK i \in T : \A j \in T : i <= j
    <2> HIDE DEF T
    <2> QED BY <1>1, LeastOf
  <1>3. i # 0
    BY <1>2 DEF Raises
  <1>4. i \in 1..n /\ i \in 1..m /\ i - 1 \in 0..n /\ ~(i <= i - 1)
    BY <1>2, <1>3
  <1>5. f[i - 1] = g[i - 1]
    BY <1>2, <1>4
  <1>6. f[i] = kIncreaseTimes * f[i - 1] /\ g[i] = kIncreaseTimes * g[i - 1]
    BY <1>4 DEF Raises
  <1> QED BY <1>2, <1>5, <1>6

LEMMA RaisesFar ==
  ASSUME StormAssumption, NEW n \in Nat
  PROVE  \E f : Raises(f, n)
  <1>0. kIncreaseTimes \in Nat \ {0}
    BY DEF StormAssumption
  <1> SUFFICES ASSUME ~ \E f : Raises(f, n) PROVE FALSE
    OBVIOUS
  <1> DEFINE T == {i \in Nat : ~ \E f : Raises(f, i)}
  <1>1. T \subseteq Nat /\ T # {}
    OBVIOUS
  <1>2. PICK i \in T : \A j \in T : i <= j
    <2> HIDE DEF T
    <2> QED BY <1>1, LeastOf
  <1>3. i # 0
    <2> SUFFICES ASSUME i = 0 PROVE FALSE
      OBVIOUS
    <2> DEFINE f == [j \in 0..0 |-> 1]
    <2>1. Raises(f, 0)
      BY DEF Raises
    <2> HIDE DEF f
    <2> QED BY <1>2, <2>1
  <1>4. i \in Nat /\ i - 1 \in Nat /\ i - 1 \notin T
    BY <1>2, <1>3
  <1>5. PICK f : Raises(f, i - 1)
    BY <1>4
  <1> DEFINE g == [j \in 0..i |-> IF j = i THEN kIncreaseTimes * f[i - 1] ELSE f[j]]
  <1>6. \A j \in 0 .. (i - 1) : j \in 0..i /\ j # i /\ f[j] \in Nat \ {0}
    BY <1>4, <1>5 DEF Raises
  <1>7. kIncreaseTimes * f[i - 1] \in Nat \ {0} /\ i \in 0..i
    <2>1. f[i - 1] \in Nat \ {0}
      BY <1>4, <1>6
    <2>2. \A a, b \in Nat \ {0} : a * b \in Nat \ {0}
      OBVIOUS
    <2> QED BY <1>0, <1>4, <2>1, <2>2
  <1>8. \A j \in 0..i : j = i \/ j \in 0 .. (i - 1)
    BY <1>4
  <1>9. g[i] = kIncreaseTimes * f[i - 1] /\ \A j \in 0 .. (i - 1) : g[j] = f[j]
    BY <1>6, <1>7
  <1>10. g \in [0..i -> Nat \ {0}]
    BY <1>6, <1>7, <1>8
  <1> HIDE DEF g
  <1>11. Raises(g, i)
    <2>1. 0 \in 0 .. (i - 1) /\ i - 1 \in 0 .. (i - 1)
      BY <1>4
    <2>2. \A j \in 1..i : j # i => j \in 1 .. (i - 1) /\ j \in 0 .. (i - 1) /\ j - 1 \in 0 .. (i - 1)
      BY <1>4
    <2> QED BY <1>5, <1>9, <1>10, <2>1, <2>2 DEF Raises
  <1> QED BY <1>2, <1>11

LEMMA RaisedIs ==
  ASSUME StormAssumption
  PROVE  /\ Raised \in [Nat -> Nat \ {0}] /\ Raised[0] = 1
         /\ \A j \in Nat : Raised[j + 1] = kIncreaseTimes * Raised[j]
  <1> DEFINE A(n) == CHOOSE f : Raises(f, n)
             R    == [n \in Nat |-> A(n)[n]]
  <1>1. \A n \in Nat : Raises(A(n), n)
    BY RaisesFar
  <1> HIDE DEF A
  <1>2. \A n \in Nat : R[n] \in Nat \ {0} /\ R[n] = A(n)[n]
    <2> SUFFICES ASSUME NEW n \in Nat PROVE R[n] \in Nat \ {0} /\ R[n] = A(n)[n]
      OBVIOUS
    <2>1. n \in 0..n
      OBVIOUS
    <2> QED BY <1>1, <2>1 DEF Raises
  <1>3. R[0] = 1
    BY <1>1, <1>2 DEF Raises
  <1>4. ASSUME NEW n \in Nat PROVE R[n + 1] = kIncreaseTimes * R[n]
    <2>1. n + 1 \in Nat /\ n <= n + 1 /\ n \in 0..n /\ n + 1 \in 1 .. (n + 1) /\ (n + 1) - 1 = n
      OBVIOUS
    <2>2. Raises(A(n), n) /\ Raises(A(n + 1), n + 1)
      BY <1>1, <2>1
    <2>3. A(n)[n] = A(n + 1)[n]
      BY <2>1, <2>2, RaisesOnce
    <2>4. A(n + 1)[n + 1] = kIncreaseTimes * A(n + 1)[(n + 1) - 1]
      BY <2>1, <2>2 DEF Raises
    <2> QED BY <1>2, <2>1, <2>3, <2>4
  <1>5. R \in [Nat -> Nat \ {0}]
    BY <1>2
  <1>6. R = [j \in Nat |-> IF j = 0 THEN 1 ELSE kIncreaseTimes * R[j - 1]]
    <2>1. R = [j \in Nat |-> R[j]]
      BY <1>5
    <2>2. ASSUME NEW j \in Nat PROVE R[j] = IF j = 0 THEN 1 ELSE kIncreaseTimes * R[j - 1]
      <3>1. CASE j = 0
        BY <1>3, <3>1
      <3>2. CASE j # 0
        <4>1. j - 1 \in Nat /\ (j - 1) + 1 = j
          BY <3>2
        <4>2. R[(j - 1) + 1] = kIncreaseTimes * R[j - 1]
          BY <1>4, <4>1
        <4> QED BY <3>2, <4>1, <4>2
      <3> QED BY <3>1, <3>2
    <2> HIDE DEF R
    <2> QED BY <2>1, <2>2
  <1> HIDE DEF R
  <1>7. Raised = [j \in Nat |-> IF j = 0 THEN 1 ELSE kIncreaseTimes * Raised[j - 1]]
    BY <1>6 DEF Raised
  <1>8. \A j \in Nat : Raised[j] = IF j = 0 THEN 1 ELSE kIncreaseTimes * Raised[j - 1]
    BY <1>7
  <1>9. DOMAIN Raised = Nat /\ Raised = [j \in Nat |-> Raised[j]]
    BY <1>7
  <1>10. \A n \in Nat : Raised[n] = R[n]
    <2> SUFFICES ASSUME NEW b \in Nat, Raised[b] # R[b] PROVE FALSE
      OBVIOUS
    <2> DEFINE T == {i \in Nat : Raised[i] # R[i]}
    <2>1. T \subseteq Nat /\ T # {}
      OBVIOUS
    <2>2. PICK i \in T : \A j \in T : i <= j
      <3> HIDE DEF T
      <3> QED BY <2>1, LeastOf
    <2>3. i # 0
      BY <1>3, <1>8, <2>2
    <2>4. i - 1 \in Nat /\ (i - 1) + 1 = i /\ ~(i <= i - 1)
      BY <2>2, <2>3
    <2>5. Raised[i - 1] = R[i - 1]
      BY <2>2, <2>4
    <2>6. R[i] = kIncreaseTimes * R[i - 1] /\ Raised[i] = kIncreaseTimes * Raised[i - 1]
      BY <1>4, <1>8, <2>2, <2>3, <2>4
    <2> QED BY <2>2, <2>5, <2>6
  <1>11. Raised \in [Nat -> Nat \ {0}]
    BY <1>2, <1>9, <1>10
  <1>12. \A j \in Nat : Raised[j + 1] = kIncreaseTimes * Raised[j]
    BY <1>4, <1>10
  <1> QED BY <1>3, <1>10, <1>11, <1>12

LEMMA RaisedGrows ==
  ASSUME StormAssumption, NEW i \in Nat, NEW j \in Nat, i <= j
  PROVE  Raised[i] <= Raised[j]
  <1>1. /\ \A n \in Nat : Raised[n] \in Nat /\ Raised[n] > 0
        /\ \A n \in Nat : Raised[n + 1] = kIncreaseTimes * Raised[n]
        /\ kIncreaseTimes \in Nat /\ kIncreaseTimes > 1
    BY RaisedIs DEF StormAssumption
  <1>2. \A n \in Nat : Raised[n] <= Raised[n + 1]
    <2>1. \A a, k \in Nat : a > 0 /\ k > 1 => a <= k * a
      OBVIOUS
    <2> QED BY <1>1, <2>1
  <1> SUFFICES ASSUME ~(Raised[i] <= Raised[j]) PROVE FALSE
    OBVIOUS
  <1> DEFINE T == {n \in Nat : i <= n /\ ~(Raised[i] <= Raised[n])}
  <1>3. T \subseteq Nat /\ T # {}
    OBVIOUS
  <1>4. PICK n \in T : \A m \in T : n <= m
    <2> HIDE DEF T
    <2> QED BY <1>3, LeastOf
  <1>5. n # i
    BY <1>1, <1>4
  <1>6. n - 1 \in Nat /\ (n - 1) + 1 = n /\ ~(n <= n - 1) /\ i <= n - 1
    BY <1>4, <1>5
  <1>7. Raised[i] <= Raised[n - 1]
    BY <1>4, <1>6
  <1>8. Raised[n - 1] <= Raised[n]
    BY <1>2, <1>6
  <1> QED BY <1>1, <1>4, <1>6, <1>7, <1>8

(* A node is raised so often that its count is below its target, and not   *)
(* below the one before.                                                   *)
NodeNames == NodeKeys \cup {CHOOSE k \in NodeKeys : TRUE}
NodeKind  == [key : NodeNames, target : Nat, count : Nat, interval : Nat]

TargetOf(j) == kNoRateControlCounts * Raised[j]

NodeThin(n) ==
  \E j \in Nat : /\ n.interval = Raised[j] /\ n.target = TargetOf(j) /\ n.count < TargetOf(j)
                 /\ j # 0 => n.count >= TargetOf(j - 1)

InWindow(c, j) == (IF j = 0 THEN c >= 1 ELSE c > TargetOf(j - 1)) /\ c <= TargetOf(j)

(* What check() said last is right for the window of its count.            *)
AnswerThin ==
  /\ answer.count \in Nat
  /\ answer.count # 0 =>
       \E j \in Nat : InWindow(answer.count, j) /\ (answer.valid <=> answer.count % Raised[j] = 0)

LEMMA TargetIs ==
  ASSUME StormAssumption
  PROVE  /\ \A j \in Nat : TargetOf(j) \in Nat /\ TargetOf(j) > 0
         /\ \A j \in Nat : TargetOf(j + 1) = kIncreaseTimes * TargetOf(j) /\ TargetOf(j) < TargetOf(j + 1)
         /\ \A i, j \in Nat : i <= j => TargetOf(i) <= TargetOf(j)
         /\ TargetOf(0) = kNoRateControlCounts
  <1>1. /\ \A n \in Nat : Raised[n] \in Nat /\ Raised[n] > 0
        /\ \A n \in Nat : Raised[n + 1] = kIncreaseTimes * Raised[n]
        /\ Raised[0] = 1 /\ kIncreaseTimes \in Nat /\ kIncreaseTimes > 1
        /\ kNoRateControlCounts \in Nat /\ kNoRateControlCounts > 1
    BY RaisedIs DEF StormAssumption
  <1>2. \A a, b \in Nat : a > 0 /\ b > 0 => a * b \in Nat /\ a * b > 0
    OBVIOUS
  <1>3. \A j \in Nat : TargetOf(j) \in Nat /\ TargetOf(j) > 0
    BY <1>1, <1>2 DEF TargetOf
  <1>4. \A j \in Nat : TargetOf(j + 1) = kIncreaseTimes * TargetOf(j)
    <2>1. \A a, b, c \in Nat : a * (b * c) = b * (a * c)
      OBVIOUS
    <2> QED BY <1>1, <2>1 DEF TargetOf
  <1>5. \A j \in Nat : TargetOf(j) < TargetOf(j + 1)
    <2>1. \A a, k \in Nat : a > 0 /\ k > 1 => a < k * a
      OBVIOUS
    <2> QED BY <1>1, <1>3, <1>4, <2>1
  <1>6. \A i, j \in Nat : i <= j => TargetOf(i) <= TargetOf(j)
    <2>1. \A a, b, c \in Nat : b <= c => a * b <= a * c
      OBVIOUS
    <2> QED BY <1>1, <2>1, RaisedGrows DEF TargetOf
  <1>7. TargetOf(0) = kNoRateControlCounts
    BY <1>1 DEF TargetOf
  <1> QED BY <1>3, <1>4, <1>5, <1>6, <1>7

LEMMA MultipleRest ==
  ASSUME NEW a \in Nat, NEW b \in Nat, b > 0
  PROVE  (a * b) % b = 0
  <1> DEFINE c == a * b  q == c \div b  r == c % b
  <1>1. c \in Nat
    OBVIOUS
  <1>2. q \in Int /\ r \in 0 .. (b - 1) /\ c = b * q + r
    <2> HIDE DEF c
    <2> QED BY <1>1
  <1>3. r = b * (a - q)
    BY <1>2
  <1> HIDE DEF c, q, r
  <1>4. \A d \in Int : d >= 1 => b * d >= b
    OBVIOUS
  <1>5. \A d \in Int : d <= -1 => b * d < 0
    OBVIOUS
  <1>6. a - q = 0
    BY <1>2, <1>3, <1>4, <1>5
  <1>7. r = 0
    BY <1>3, <1>6
  <1> QED BY <1>7 DEF r, c

(* A repetition counts in the window of the node, which moves on when the  *)
(* count has reached its end: the end is a multiple of the interval.       *)
LEMMA ThinnedIs ==
  ASSUME StormAssumption, NEW m \in NodeKind, NodeThin(m), NEW n, n = [m EXCEPT !.count = @ + 1]
  PROVE  /\ n \in NodeKind /\ n.count = m.count + 1 /\ n.key = m.key
         /\ \E j \in Nat : InWindow(n.count, j) /\ n.interval = Raised[j]
         /\ Thinned(n) \in NodeKind /\ NodeThin(Thinned(n)) /\ Thinned(n).key = n.key
  <1>1. /\ n \in NodeKind /\ n.count = m.count + 1 /\ n.key = m.key /\ n.interval = m.interval
        /\ n.target = m.target /\ m.count \in Nat
    BY DEF NodeKind
  <1>2. PICK j \in Nat : /\ m.interval = Raised[j] /\ m.target = TargetOf(j) /\ m.count < TargetOf(j)
                         /\ j # 0 => m.count >= TargetOf(j - 1)
    BY DEF NodeThin
  <1>3. /\ Raised[j] \in Nat /\ Raised[j] > 0 /\ Raised[j + 1] = kIncreaseTimes * Raised[j]
        /\ TargetOf(j) \in Nat /\ TargetOf(j + 1) = kIncreaseTimes * TargetOf(j)
        /\ TargetOf(j + 1) \in Nat /\ Raised[j + 1] \in Nat /\ TargetOf(j) < TargetOf(j + 1)
    BY RaisedIs, TargetIs
  <1>4. j # 0 => TargetOf(j - 1) \in Nat
    <2>1. j # 0 => j - 1 \in Nat
      OBVIOUS
    <2> QED BY <2>1, TargetIs
  <1>5. InWindow(n.count, j)
    BY <1>1, <1>2, <1>3, <1>4 DEF InWindow
  <1>6. CASE n.count % n.interval = 0 /\ n.count >= n.target
    <2>1. n.count = TargetOf(j)
      <3>1. n.count >= n.target
        BY <1>6
      <3>2. m.count + 1 >= TargetOf(j) /\ m.count < TargetOf(j) /\ m.count \in Nat /\ TargetOf(j) \in Nat
        BY <1>1, <1>2, <1>3, <3>1
      <3> QED BY <1>1, <3>2
    <2> DEFINE t == Thinned(n)
    <2>2. t = [n EXCEPT !.interval = @ * kIncreaseTimes, !.target = @ * kIncreaseTimes]
      BY <1>6 DEF Thinned
    <2>3. n.interval * kIncreaseTimes = Raised[j + 1] /\ n.target * kIncreaseTimes = TargetOf(j + 1)
      <3>1. \A a, b \in Nat : a * b = b * a
        OBVIOUS
      <3>2. kIncreaseTimes \in Nat
        BY DEF StormAssumption
      <3>3. Raised[j] * kIncreaseTimes = Raised[j + 1] /\ TargetOf(j) * kIncreaseTimes = TargetOf(j + 1)
        BY <1>3, <3>1, <3>2
      <3> QED BY <1>1, <1>2, <3>3
    <2>4. t \in NodeKind /\ t.key = n.key /\ t.count = n.count /\ t.interval = Raised[j + 1]
          /\ t.target = TargetOf(j + 1)
      <3>1. t = [n EXCEPT !.interval = Raised[j + 1], !.target = TargetOf(j + 1)]
        BY <1>1, <2>2, <2>3 DEF NodeKind
      <3> HIDE DEF t
      <3> QED BY <1>1, <1>3, <3>1 DEF NodeKind
    <2> HIDE DEF t
    <2>5. j + 1 \in Nat /\ (j + 1) - 1 = j /\ t.count < TargetOf(j + 1) /\ t.count >= TargetOf(j)
      BY <1>3, <2>1, <2>4
    <2>6. NodeThin(t)
      BY <2>4, <2>5 DEF NodeThin
    <2> QED BY <1>1, <1>2, <1>5, <2>4, <2>6 DEF t
  <1>7. CASE ~(n.count % n.interval = 0 /\ n.count >= n.target)
    <2>1. Thinned(n) = n
      BY <1>7 DEF Thinned
    <2>2. n.count # TargetOf(j)
      <3> SUFFICES ASSUME n.count = TargetOf(j) PROVE FALSE
        OBVIOUS
      <3>1. n.count = kNoRateControlCounts * n.interval
        BY <1>1, <1>2 DEF TargetOf
      <3>2. n.count % n.interval = 0
        <4>1. n.interval \in Nat /\ n.interval > 0
          BY <1>1, <1>2, <1>3
        <4>2. kNoRateControlCounts \in Nat
          BY DEF StormAssumption
        <4>3. (kNoRateControlCounts * n.interval) % n.interval = 0
          BY <4>1, <4>2, MultipleRest, Zenon
        <4> QED BY <3>1, <4>3, Zenon
      <3>3. n.count >= n.target
        <4>1. n.target = TargetOf(j)
          BY <1>1, <1>2
        <4>2. TargetOf(j) \in Nat
          BY <1>3
        <4> QED BY <4>1, <4>2
      <3> QED BY <1>7, <3>2, <3>3
    <2>3. n.count < TargetOf(j) /\ (j # 0 => n.count >= TargetOf(j - 1))
      BY <1>1, <1>2, <1>3, <1>4, <2>2
    <2>4. NodeThin(n)
      BY <1>1, <1>2, <2>3 DEF NodeThin
    <2> QED BY <1>1, <1>2, <1>5, <2>1, <2>4
  <1> QED BY <1>6, <1>7

(* The windows do not meet, so the answer is the one of its count.         *)
LEMMA WindowsApart ==
  ASSUME StormAssumption, NEW c \in Nat, NEW i \in Nat, NEW j \in Nat, InWindow(c, i), InWindow(c, j)
  PROVE  i = j
  <1>1. ASSUME NEW k \in Nat, NEW l \in Nat, k < l, InWindow(c, k), InWindow(c, l) PROVE FALSE
    <2>1. l # 0 /\ l - 1 \in Nat /\ k <= l - 1
      BY <1>1
    <2>2. TargetOf(k) \in Nat /\ TargetOf(l - 1) \in Nat /\ TargetOf(k) <= TargetOf(l - 1)
      BY <2>1, TargetIs
    <2> QED BY <1>1, <2>1, <2>2 DEF InWindow
  <1>2. i < j \/ j < i \/ i = j
    OBVIOUS
  <1> QED BY <1>1, <1>2

LEMMA AnswerPasses ==
  ASSUME StormAssumption, AnswerThin
  PROVE  PassesThin
  <1> SUFFICES ASSUME NEW j \in 0 .. answer.count,
                      IF j = 0 THEN answer.count >= 1 ELSE answer.count > TargetOf(j - 1),
                      answer.count <= TargetOf(j)
               PROVE  answer.valid <=> answer.count % Raised[j] = 0
    BY DEF PassesThin, TargetOf
  <1>1. answer.count \in Nat /\ j \in Nat /\ InWindow(answer.count, j)
    BY DEF AnswerThin, InWindow
  <1>2. answer.count # 0
    BY <1>1
  <1>3. PICK i \in Nat : InWindow(answer.count, i) /\ (answer.valid <=> answer.count % Raised[i] = 0)
    BY <1>2 DEF AnswerThin
  <1>4. i = j
    BY <1>1, <1>3, WindowsApart
  <1> QED BY <1>3, <1>4

(* The nodes one after the other, those of the pool first.                 *)
Place(i) == IF i <= Len(free) THEN free[i] ELSE list[i - Len(free)]

NodesPlaced ==
  /\ Len(free) + Len(list) = capacity
  /\ \A i, j \in 1 .. capacity : i # j => Place(i) # Place(j)
  /\ \A x \in Nodes : \E i \in 1 .. capacity : Place(i) = x

(* An entry of the map is the key of a node in use.  While no key was cut  *)
(* every node in use has its entry.                                        *)
MapKeeps ==
  /\ \A k \in DOMAIN key2node : key2node[k] \in ToSet(list) /\ node[key2node[k]].key = k
  /\ ~was_cut => /\ ~assert_failed
                 /\ \A x \in ToSet(list) : node[x].key \in DOMAIN key2node /\ key2node[node[x].key] = x

StormKinds == StormTypes /\ node \in [Nodes -> NodeKind]

StormInv ==
  /\ StormKinds /\ NodesPlaced /\ MapKeeps /\ AnswerThin
  /\ \A x \in Nodes : NodeThin(node[x])

LEMMA CacheFacts ==
  ASSUME StormAssumption, StormKinds, NodesPlaced
  PROVE  /\ capacity \in Nat /\ capacity > 0 /\ list \in Seq(Nodes) /\ free \in Seq(Nodes)
         /\ Len(list) \in Nat /\ Len(free) \in Nat /\ Len(free) + Len(list) = capacity
         /\ DOMAIN list = 1 .. Len(list) /\ DOMAIN free = 1 .. Len(free)
         /\ \A i \in 1 .. Len(free) : i \in 1 .. capacity /\ Place(i) = free[i] /\ free[i] \in Nodes
         /\ \A i \in 1 .. Len(list) : /\ Len(free) + i \in 1 .. capacity
                                      /\ Place(Len(free) + i) = list[i] /\ list[i] \in Nodes
         /\ \A i, j \in 1 .. Len(list) : i # j => list[i] # list[j]
         /\ \A x : x \in ToSet(list) <=> \E i \in 1 .. Len(list) : list[i] = x
         /\ \A x : x \in ToSet(free) <=> \E i \in 1 .. Len(free) : free[i] = x
         /\ DOMAIN node = Nodes /\ \A x \in Nodes : node[x] \in NodeKind
  <1>1. capacity \in Nat /\ capacity > 0
    <2>1. Cardinality(Nodes) # 0
      BY FS_EmptySet DEF StormAssumption
    <2> QED BY <2>1, FS_CardinalityType DEF StormAssumption, capacity
  <1>2. list \in Seq(Nodes) /\ free \in Seq(Nodes) /\ node \in [Nodes -> NodeKind]
    BY DEF StormKinds, StormTypes
  <1>3. /\ Len(list) \in Nat /\ Len(free) \in Nat /\ Len(free) + Len(list) = capacity
        /\ DOMAIN list = 1 .. Len(list) /\ DOMAIN free = 1 .. Len(free)
    BY <1>2, LenProperties DEF NodesPlaced
  <1>4. \A i \in 1 .. Len(free) : i \in 1 .. capacity /\ Place(i) = free[i] /\ free[i] \in Nodes
    BY <1>1, <1>2, <1>3, ElementOfSeq DEF Place
  <1>5. ASSUME NEW i \in 1 .. Len(list)
        PROVE  /\ Len(free) + i \in 1 .. capacity /\ Place(Len(free) + i) = list[i] /\ list[i] \in Nodes
    <2>1. Len(free) + i \in 1 .. capacity /\ ~(Len(free) + i <= Len(free)) /\ (Len(free) + i) - Len(free) = i
      BY <1>3
    <2> QED BY <1>2, <2>1, ElementOfSeq DEF Place
  <1>6. ASSUME NEW i \in 1 .. Len(list), NEW j \in 1 .. Len(list), i # j PROVE list[i] # list[j]
    <2>1. Len(free) + i # Len(free) + j
      BY <1>3, <1>6
    <2>2. Len(free) + i \in 1 .. capacity /\ Len(free) + j \in 1 .. capacity
      BY <1>5
    <2>3. Place(Len(free) + i) # Place(Len(free) + j)
      BY <2>1, <2>2, Zenon DEF NodesPlaced
    <2> QED BY <1>5, <2>3
  <1>7. /\ \A x : x \in ToSet(list) <=> \E i \in 1 .. Len(list) : list[i] = x
        /\ \A x : x \in ToSet(free) <=> \E i \in 1 .. Len(free) : free[i] = x
    BY <1>3 DEF ToSet
  <1> QED BY <1>1, <1>2, <1>3, <1>4, <1>5, <1>6, <1>7

LEMMA CacheIs ==
  ASSUME StormAssumption, StormInv
  PROVE  StormIsThinned
  <1>1. StormKinds /\ NodesPlaced /\ MapKeeps /\ AnswerThin
    BY DEF StormInv
  <1>2. /\ Len(list) \in Nat /\ Len(free) \in Nat /\ Len(free) + Len(list) = capacity /\ capacity \in Nat
        /\ \A i \in 1 .. Len(free) : i \in 1 .. capacity /\ Place(i) = free[i] /\ free[i] \in Nodes
        /\ \A i \in 1 .. Len(list) : /\ Len(free) + i \in 1 .. capacity
                                     /\ Place(Len(free) + i) = list[i] /\ list[i] \in Nodes
        /\ \A x : x \in ToSet(list) <=> \E i \in 1 .. Len(list) : list[i] = x
        /\ \A x : x \in ToSet(free) <=> \E i \in 1 .. Len(free) : free[i] = x
    BY <1>1, CacheFacts
  <1>3. ToSet(list) \cap ToSet(free) = {}
    <2> SUFFICES ASSUME NEW x \in ToSet(list), x \in ToSet(free) PROVE FALSE
      OBVIOUS
    <2>1. PICK i \in 1 .. Len(list) : list[i] = x
      BY <1>2
    <2>2. PICK j \in 1 .. Len(free) : free[j] = x
      BY <1>2
    <2>3. Len(free) + i # j /\ Len(free) + i \in 1 .. capacity /\ j \in 1 .. capacity
      BY <1>2
    <2>4. Place(Len(free) + i) = x /\ Place(j) = x
      BY <1>2, <2>1, <2>2
    <2> QED BY <1>1, <2>3, <2>4 DEF NodesPlaced
  <1>4. ToSet(list) \cup ToSet(free) = Nodes
    <2>1. ASSUME NEW x \in Nodes PROVE x \in ToSet(list) \cup ToSet(free)
      <3>1. PICK i \in 1 .. capacity : Place(i) = x
        BY <1>1 DEF NodesPlaced
      <3>2. CASE i <= Len(free)
        BY <1>2, <3>1, <3>2 DEF Place
      <3>3. CASE ~(i <= Len(free))
        <4>1. i - Len(free) \in 1 .. Len(list)
          BY <1>2, <3>3
        <4>2. list[i - Len(free)] = x
          BY <3>1, <3>3 DEF Place
        <4> QED BY <1>2, <4>1, <4>2
      <3> QED BY <3>2, <3>3
    <2> QED BY <1>2, <2>1
  <1>5. ~was_cut => {key2node[k] : k \in DOMAIN key2node} = ToSet(list) /\ ~assert_failed
    BY <1>1 DEF MapKeeps
  <1>6. CacheIntact
    BY <1>1, <1>2, <1>3, <1>4, <1>5 DEF CacheIntact, MapKeeps
  <1> QED BY <1>1, <1>6, AnswerPasses DEF StormIsThinned

(* A node is taken out of its place and put at the end.                    *)
LEMMA PlacesTurn ==
  ASSUME StormAssumption, StormKinds, NodesPlaced, NEW p \in 1 .. capacity,
         Len(free') + Len(list') = capacity,
         \A i \in 1 .. capacity :
           Place(i)' = Place(IF i = capacity THEN p ELSE IF i < p THEN i ELSE i + 1)
  PROVE  NodesPlaced'
  <1> DEFINE to(i) == IF i = capacity THEN p ELSE IF i < p THEN i ELSE i + 1
  <1>1. capacity \in Nat /\ capacity > 0 /\ p \in Nat
    BY CacheFacts
  <1>2. \A i \in 1 .. capacity : to(i) \in 1 .. capacity /\ Place(i)' = Place(to(i))
    BY <1>1
  <1>3. \A i, j \in 1 .. capacity : i # j => to(i) # to(j)
    BY <1>1
  <1>4. \A j \in 1 .. capacity : \E i \in 1 .. capacity : to(i) = j
    <2> SUFFICES ASSUME NEW j \in 1 .. capacity PROVE \E i \in 1 .. capacity : to(i) = j
      OBVIOUS
    <2>1. CASE j < p
      <3>1. j \in 1 .. capacity /\ to(j) = j
        BY <1>1, <2>1
      <3> QED BY <3>1
    <2>2. CASE j = p
      <3>1. capacity \in 1 .. capacity /\ to(capacity) = j
        BY <1>1, <2>2
      <3> QED BY <3>1
    <2>3. CASE j > p
      <3>1. j - 1 \in 1 .. capacity /\ to(j - 1) = j
        BY <1>1, <2>3
      <3> QED BY <3>1
    <2> QED BY <1>1, <2>1, <2>2, <2>3
  <1> HIDE DEF to
  <1>5. \A i, j \in 1 .. capacity : i # j => Place(i)' # Place(j)'
    BY <1>2, <1>3 DEF NodesPlaced
  <1>6. \A x \in Nodes : \E i \in 1 .. capacity : Place(i)' = x
    <2> SUFFICES ASSUME NEW x \in Nodes PROVE \E i \in 1 .. capacity : Place(i)' = x
      OBVIOUS
    <2>1. PICK j \in 1 .. capacity : Place(j) = x
      BY DEF NodesPlaced
    <2>2. PICK i \in 1 .. capacity : to(i) = j
      BY <1>4
    <2> QED BY <1>2, <2>1, <2>2
  <1> QED BY <1>5, <1>6 DEF NodesPlaced

(* Giving up nodes makes room in the map, and at least one is given up     *)
(* when all are in use under their keys.                                   *)
LEMMA EvictedIs ==
  ASSUME StormAssumption, StormInv
  PROVE  /\ Evicted \in 0 .. Len(list)
         /\ \A i : DOMAIN MapAfter(i) = DOMAIN key2node \ {node[list[j]].key : j \in 1 .. i}
         /\ \A i : \A k \in DOMAIN MapAfter(i) : MapAfter(i)[k] = key2node[k]
         /\ ~was_cut /\ Len(free) = 0 => Evicted # 0
  <1>1. StormKinds /\ NodesPlaced /\ MapKeeps
    BY DEF StormInv
  <1>2. /\ capacity \in Nat /\ capacity > 0 /\ Len(list) \in Nat /\ Len(free) + Len(list) = capacity
        /\ \A x : x \in ToSet(list) <=> \E i \in 1 .. Len(list) : list[i] = x
        /\ \A i \in 1 .. Len(list) : list[i] \in Nodes
        /\ \A i, j \in 1 .. Len(list) : i # j => list[i] # list[j]
    BY <1>1, CacheFacts
  <1>3. /\ \A i : DOMAIN MapAfter(i) = DOMAIN key2node \ {node[list[j]].key : j \in 1 .. i}
        /\ \A i : \A k \in DOMAIN MapAfter(i) : MapAfter(i)[k] = key2node[k]
    BY DEF MapAfter
  <1>4. DOMAIN key2node = {} \/ DOMAIN key2node # {}
    OBVIOUS
  <1>5. IsFiniteSet(DOMAIN key2node)
    <2> DEFINE D == DOMAIN key2node  f == [k \in D |-> key2node[k]]
    <2>1. \A k \in D : key2node[k] \in Nodes
      BY <1>1 DEF StormKinds, StormTypes
    <2>2. \A k, l \in D : key2node[k] = key2node[l] => k = l
      BY <1>1 DEF MapKeeps
    <2>3. f \in Injection(D, Nodes)
      BY <2>1, <2>2 DEF Injection, IsInjective
    <2> HIDE DEF D, f
    <2>4. IsFiniteSet(D)
      BY <2>3, FS_Injection DEF StormAssumption
    <2> QED BY <2>4 DEF D
  <1> DEFINE size(i) == Cardinality(DOMAIN MapAfter(i))
             T       == {i \in 0 .. Len(list) : size(i) < capacity}
  <1>6. \A i : size(i) \in Nat
    <2> SUFFICES ASSUME NEW i PROVE size(i) \in Nat
      OBVIOUS
    <2>1. DOMAIN MapAfter(i) \in SUBSET DOMAIN key2node
      BY <1>3
    <2>2. IsFiniteSet(DOMAIN MapAfter(i))
      BY <1>5, <2>1, FS_Subset
    <2> QED BY <2>2, FS_CardinalityType
  <1>7. Len(list) \in T
    <2>1. DOMAIN MapAfter(Len(list)) = {}
      <3> SUFFICES ASSUME NEW k \in DOMAIN key2node
                   PROVE  k \in {node[list[j]].key : j \in 1 .. Len(list)}
        BY <1>3
      <3> QED BY <1>1, <1>2 DEF MapKeeps
    <2>2. size(Len(list)) = 0
      BY <2>1, FS_EmptySet
    <2> QED BY <1>2, <2>2
  <1>8. PICK e \in T : \A m \in T : e <= m
    <2>1. T \subseteq Nat /\ T # {}
      BY <1>2, <1>7
    <2> HIDE DEF T
    <2> QED BY <2>1, LeastOf
  <1>9. e \in 0 .. Len(list) /\ size(e) < capacity /\ \A j \in 0 .. (e - 1) : size(j) >= capacity
    <2>1. ASSUME NEW j \in 0 .. (e - 1) PROVE size(j) >= capacity
      <3>1. j \in 0 .. Len(list) /\ ~(e <= j)
        BY <1>2, <1>8
      <3>2. ~(size(j) < capacity)
        BY <1>8, <3>1
      <3> HIDE DEF size
      <3> QED BY <1>2, <1>6, <3>2
    <2> QED BY <1>8, <2>1
  <1>10. /\ Evicted \in 0 .. Len(list) /\ size(Evicted) < capacity
         /\ \A j \in 0 .. (Evicted - 1) : size(j) >= capacity
    BY <1>9 DEF Evicted
  <1>11. ASSUME ~was_cut, Len(free) = 0 PROVE Evicted # 0
    <2> SUFFICES ASSUME Evicted = 0 PROVE FALSE
      OBVIOUS
    <2> DEFINE D == DOMAIN key2node  f == [x \in Nodes |-> node[x].key]
    <2>1. DOMAIN MapAfter(0) = D
      <3>1. {node[list[j]].key : j \in 1 .. 0} = {}
        OBVIOUS
      <3> QED BY <1>3, <3>1
    <2>2. Cardinality(D) < Cardinality(Nodes)
      BY <1>10, <2>1 DEF capacity
    <2>3. ASSUME NEW x \in Nodes PROVE x \in ToSet(list)
      <3>1. PICK i \in 1 .. capacity : Place(i) = x
        BY <1>1 DEF NodesPlaced
      <3>2. ~(i <= Len(free)) /\ i - Len(free) \in 1 .. Len(list)
        BY <1>2, <1>11
      <3> QED BY <1>2, <3>1, <3>2 DEF Place
    <2>4. \A x \in Nodes : node[x].key \in D /\ key2node[node[x].key] = x
      BY <1>1, <1>11, <2>3 DEF MapKeeps
    <2>5. f \in Injection(Nodes, D)
      BY <2>4 DEF Injection, IsInjective
    <2> HIDE DEF f
    <2>6. Cardinality(Nodes) <= Cardinality(D)
      BY <1>5, <2>5, FS_Injection
    <2>7. Cardinality(Nodes) \in Nat /\ Cardinality(D) \in Nat
      BY <1>5, FS_CardinalityType DEF StormAssumption
    <2> QED BY <2>2, <2>6, <2>7
  <1> QED BY <1>3, <1>10, <1>11

LEMMA LatestIs ==
  ASSUME StormAssumption, StormKinds, NodesPlaced, NEW p \in 1 .. Len(list)
  PROVE  /\ MadeLatest(list[p]) \in Seq(Nodes) /\ Len(MadeLatest(list[p])) = Len(list)
         /\ \A i \in 1 .. Len(list) : MadeLatest(list[p])[i] =
              list[IF i = Len(list) THEN p ELSE IF i < p THEN i ELSE i + 1]
  <1> DEFINE n == Len(list)
  <1>1. /\ list \in Seq(Nodes) /\ n \in Nat /\ DOMAIN list = 1..n /\ p \in Nat
        /\ \A i \in 1..n : list[i] \in Nodes
        /\ \A i, j \in 1..n : i # j => list[i] # list[j]
    BY CacheFacts
  <1>2. (CHOOSE i \in DOMAIN list : list[i] = list[p]) = p
    BY <1>1
  <1> DEFINE a == SubSeq(list, 1, p - 1)  b == SubSeq(list, p + 1, n)
  <1>3. a \in Seq(Nodes) /\ Len(a) = p - 1 /\ \A i \in 1 .. (p - 1) : a[i] = list[i]
    <2>1. 1 \in Int /\ p - 1 \in Int /\ \A i \in 1 .. (p - 1) : list[i] \in Nodes
      BY <1>1
    <2>2. /\ a \in Seq(Nodes) /\ Len(a) = IF 1 <= p - 1 THEN (p - 1) - 1 + 1 ELSE 0
          /\ \A i \in 1 .. ((p - 1) - 1 + 1) : a[i] = list[1 + i - 1]
      BY <2>1, SubSeqProperties
    <2> HIDE DEF a
    <2> QED BY <1>1, <2>2
  <1>4. b \in Seq(Nodes) /\ Len(b) = n - p /\ \A i \in 1 .. (n - p) : b[i] = list[p + i]
    <2>1. p + 1 \in Int /\ n \in Int /\ \A i \in (p + 1) .. n : list[i] \in Nodes
      BY <1>1
    <2>2. /\ b \in Seq(Nodes) /\ Len(b) = IF p + 1 <= n THEN n - (p + 1) + 1 ELSE 0
          /\ \A i \in 1 .. (n - (p + 1) + 1) : b[i] = list[(p + 1) + i - 1]
      BY <2>1, SubSeqProperties
    <2> HIDE DEF b
    <2>3. n - (p + 1) + 1 = n - p /\ \A i \in 1 .. (n - p) : (p + 1) + i - 1 = p + i
      BY <1>1
    <2>4. \A i \in 1 .. (n - p) : b[i] = list[p + i]
      BY <2>2, <2>3, Zenon
    <2>5. (IF p + 1 <= n THEN n - (p + 1) + 1 ELSE 0) = n - p
      <3>1. n \in Nat /\ p \in 1..n
        BY <1>1
      <3> HIDE DEF n
      <3> QED BY <3>1
    <2> QED BY <2>2, <2>4, <2>5
  <1> DEFINE c == a \o b
  <1>5. RemoveAt(list, p) = c
    BY DEF RemoveAt
  <1> HIDE DEF a, b
  <1>6. /\ c \in Seq(Nodes) /\ Len(c) = Len(a) + Len(b)
        /\ \A i \in 1 .. (Len(a) + Len(b)) : c[i] = IF i <= Len(a) THEN a[i] ELSE b[i - Len(a)]
    BY <1>3, <1>4, ConcatProperties
  <1> HIDE DEF c
  <1>7. Len(c) = n - 1 /\ \A i \in 1 .. (n - 1) : c[i] = list[IF i < p THEN i ELSE i + 1]
    <2>1. Len(a) + Len(b) = n - 1
      BY <1>1, <1>3, <1>4
    <2> SUFFICES ASSUME NEW i \in 1 .. (n - 1) PROVE c[i] = list[IF i < p THEN i ELSE i + 1]
      BY <1>6, <2>1
    <2>2. c[i] = IF i <= p - 1 THEN a[i] ELSE b[i - (p - 1)]
      BY <1>3, <1>6, <2>1
    <2>3. CASE i < p
      <3>1. i \in 1 .. (p - 1)
        BY <1>1, <2>3
      <3> QED BY <1>3, <2>2, <2>3, <3>1
    <2>4. CASE ~(i < p)
      <3>1. ~(i <= p - 1) /\ i - (p - 1) \in 1 .. (n - p) /\ p + (i - (p - 1)) = i + 1
        BY <1>1, <2>4
      <3> QED BY <1>4, <2>2, <2>4, <3>1
    <2> QED BY <2>3, <2>4
  <1>8. MadeLatest(list[p]) = Append(c, list[p])
    BY <1>2, <1>5 DEF MadeLatest
  <1>9. list[p] \in Nodes
    BY <1>1
  <1>10. /\ Append(c, list[p]) \in Seq(Nodes) /\ Len(Append(c, list[p])) = Len(c) + 1
         /\ \A i \in 1 .. Len(c) : Append(c, list[p])[i] = c[i]
         /\ Append(c, list[p])[Len(c) + 1] = list[p]
    BY <1>6, <1>9, AppendProperties
  <1>11. Len(c) + 1 = n /\ \A i \in 1..n : i # n => i \in 1 .. (n - 1)
    <2>1. n \in Nat /\ Len(c) = n - 1
      BY <1>1, <1>7
    <2> HIDE DEF n
    <2> QED BY <2>1
  <1>12. ASSUME NEW i \in 1..n
         PROVE  MadeLatest(list[p])[i] = list[IF i = n THEN p ELSE IF i < p THEN i ELSE i + 1]
    <2>1. CASE i = n
      BY <1>8, <1>10, <1>11, <2>1
    <2>2. CASE i # n
      BY <1>7, <1>8, <1>10, <1>11, <2>2
    <2> QED BY <2>1, <2>2
  <1> QED BY <1>8, <1>10, <1>11, <1>12

LEMMA KnownStep ==
  ASSUME StormAssumption, StormInv, NEW k \in Keys, Known(k), UNCHANGED was_cut
  PROVE  StormInv'
  <1>1. StormKinds /\ NodesPlaced /\ MapKeeps /\ \A x \in Nodes : NodeThin(node[x])
    BY DEF StormInv
  <1> DEFINE x == key2node[k]
  <1>2. k \in DOMAIN key2node /\ x \in ToSet(list)
    BY <1>1 DEF Known, MapKeeps
  <1>3. /\ capacity \in Nat /\ Len(list) \in Nat /\ Len(free) \in Nat /\ Len(free) + Len(list) = capacity
        /\ free \in Seq(Nodes)
        /\ \A i \in 1 .. Len(free) : i \in 1 .. capacity /\ Place(i) = free[i]
        /\ \A i \in 1 .. Len(list) : /\ Len(free) + i \in 1 .. capacity
                                     /\ Place(Len(free) + i) = list[i] /\ list[i] \in Nodes
        /\ \A y : y \in ToSet(list) <=> \E i \in 1 .. Len(list) : list[i] = y
        /\ DOMAIN node = Nodes /\ \A y \in Nodes : node[y] \in NodeKind
    BY <1>1, CacheFacts
  <1>4. PICK p \in 1 .. Len(list) : list[p] = x
    BY <1>2, <1>3
  <1>5. PICK start_again \in BOOLEAN :
          LET n == [(IF start_again THEN Fresh(node[x].key) ELSE node[x]) EXCEPT !.count = @ + 1]
          IN  /\ node' = [node EXCEPT ![x] = Thinned(n)]
              /\ Answer(n.count % n.interval = 0, n)
    BY DEF Known
  <1> DEFINE m == IF start_again THEN Fresh(node[x].key) ELSE node[x]
             n == [m EXCEPT !.count = @ + 1]
  <1>6. node' = [node EXCEPT ![x] = Thinned(n)] /\ Answer(n.count % n.interval = 0, n)
    BY <1>5
  <1>7. list' = MadeLatest(list[p]) /\ UNCHANGED <<key2node, free, assert_failed, was_cut>>
    BY <1>4 DEF Known
  <1>8. x \in Nodes
    BY <1>3, <1>4
  <1>9. m \in NodeKind /\ NodeThin(m) /\ m.key = node[x].key
    <2>1. node[x] \in NodeKind /\ NodeThin(node[x])
      BY <1>1, <1>3, <1>8
    <2>2. CASE ~start_again
      BY <2>1, <2>2
    <2>3. CASE start_again
      <3>1. m = Fresh(node[x].key) /\ node[x].key \in NodeNames
        BY <2>1, <2>3 DEF NodeKind
      <3> HIDE DEF m
      <3>2. m \in NodeKind /\ m.key = node[x].key /\ m.target = TargetOf(0) /\ m.count = 0
            /\ m.interval = Raised[0]
        BY <3>1, RaisedIs, TargetIs DEF Fresh, NodeKind, StormAssumption
      <3>3. 0 \in Nat /\ 0 < TargetOf(0)
        BY TargetIs
      <3> QED BY <3>2, <3>3 DEF NodeThin
    <2> QED BY <2>2, <2>3
  <1> HIDE DEF m
  <1>10. /\ n \in NodeKind /\ n.count = m.count + 1 /\ n.key = m.key
         /\ \E j \in Nat : InWindow(n.count, j) /\ n.interval = Raised[j]
         /\ Thinned(n) \in NodeKind /\ NodeThin(Thinned(n)) /\ Thinned(n).key = n.key
    BY <1>9, ThinnedIs
  <1> HIDE DEF n, x
  <1>11. /\ node' \in [Nodes -> NodeKind] /\ \A y \in Nodes : NodeThin(node'[y])
         /\ \A y \in Nodes : node'[y].key = node[y].key
    <2>1. node \in [Nodes -> NodeKind]
      BY <1>1 DEF StormKinds
    <2>2. /\ node' \in [Nodes -> NodeKind] /\ node'[x] = Thinned(n)
          /\ \A y \in Nodes : y # x => node'[y] = node[y]
      BY <1>6, <1>8, <1>10, <2>1
    <2> QED BY <1>1, <1>9, <1>10, <2>2
  <1>12. AnswerThin'
    <2>1. PICK j \in Nat : InWindow(n.count, j) /\ n.interval = Raised[j]
      BY <1>10
    <2>2. answer'.count = n.count /\ answer'.valid = (n.count % n.interval = 0) /\ n.count \in Nat
      BY <1>6, <1>10 DEF Answer, NodeKind
    <2>3. InWindow(answer'.count, j) /\ (answer'.valid <=> answer'.count % Raised[j] = 0)
      BY <2>1, <2>2
    <2> QED BY <2>2, <2>3 DEF AnswerThin
  <1>13. /\ list' \in Seq(Nodes) /\ Len(list') = Len(list)
         /\ \A i \in 1 .. Len(list) :
              list'[i] = list[IF i = Len(list) THEN p ELSE IF i < p THEN i ELSE i + 1]
    BY <1>1, <1>7, LatestIs
  <1>14. NodesPlaced'
    <2>1. Len(free') + Len(list') = capacity
      BY <1>3, <1>7, <1>13
    <2> DEFINE q == Len(free) + p
    <2>2. q \in 1 .. capacity
      BY <1>3
    <2>3. ASSUME NEW i \in 1 .. capacity
          PROVE  Place(i)' = Place(IF i = capacity THEN q ELSE IF i < q THEN i ELSE i + 1)
      <3>1. CASE i <= Len(free)
        <4>1. i # capacity /\ i < q
          BY <1>3, <3>1
        <4> QED BY <1>7, <3>1, <4>1 DEF Place
      <3>2. CASE ~(i <= Len(free))
        <4> DEFINE j == i - Len(free)
        <4>1. j \in 1 .. Len(list) /\ Len(free) + j = i
          BY <1>3, <3>2
        <4>2. Place(i)' = list'[j]
          BY <1>7, <3>2 DEF Place
        <4> DEFINE to == IF j = Len(list) THEN p ELSE IF j < p THEN j ELSE j + 1
        <4>3. list'[j] = list[to]
          BY <1>13, <4>1
        <4>4. to \in 1 .. Len(list)
          BY <1>3, <4>1
        <4>5. Len(free) + to = IF i = capacity THEN q ELSE IF i < q THEN i ELSE i + 1
          <5> HIDE DEF j
          <5>1. /\ Len(free) \in Nat /\ Len(list) \in Nat /\ capacity = Len(free) + Len(list) /\ j \in Nat
                /\ i = Len(free) + j /\ p \in Nat
            BY <1>3, <4>1
          <5>2. (i = capacity <=> j = Len(list)) /\ (i < q <=> j < p) /\ i + 1 = Len(free) + (j + 1)
            BY <5>1
          <5> QED BY <5>1, <5>2
        <4>6. list[to] = Place(Len(free) + to)
          <5> HIDE DEF to
          <5> QED BY <1>3, <4>4
        <4> QED BY <4>2, <4>3, <4>5, <4>6
      <3> QED BY <3>1, <3>2
    <2> HIDE DEF q
    <2> QED BY <1>1, <2>1, <2>2, <2>3, PlacesTurn
  <1>15. \A y : y \in ToSet(list') <=> y \in ToSet(list)
    <2>1. \A y : y \in ToSet(list') <=> \E i \in 1 .. Len(list) : list'[i] = y
      BY <1>13, LenProperties DEF ToSet
    <2>2. ASSUME NEW y \in ToSet(list') PROVE y \in ToSet(list)
      <3>1. PICK i \in 1 .. Len(list) : list'[i] = y
        BY <2>1
      <3>2. (IF i = Len(list) THEN p ELSE IF i < p THEN i ELSE i + 1) \in 1 .. Len(list)
        BY <1>3
      <3> QED BY <1>3, <1>13, <3>1, <3>2
    <2>3. ASSUME NEW y \in ToSet(list) PROVE y \in ToSet(list')
      <3>1. PICK i \in 1 .. Len(list) : list[i] = y
        BY <1>3
      <3>2. \E j \in 1 .. Len(list) : i = IF j = Len(list) THEN p ELSE IF j < p THEN j ELSE j + 1
        <4>1. CASE i = p
          <5>1. Len(list) \in 1 .. Len(list)
            BY <1>3
          <5> QED BY <4>1, <5>1
        <4>2. CASE i < p
          <5>1. i # Len(list)
            BY <1>3, <4>2
          <5> QED BY <4>2, <5>1
        <4>3. CASE i > p
          <5>1. i - 1 \in 1 .. Len(list) /\ i - 1 # Len(list) /\ ~(i - 1 < p) /\ (i - 1) + 1 = i
            BY <1>3, <4>3
          <5> QED BY <5>1
        <4> QED BY <1>3, <4>1, <4>2, <4>3
      <3> QED BY <1>13, <2>1, <3>1, <3>2
    <2> QED BY <2>2, <2>3
  <1>16. MapKeeps'
    <2>1. \A y \in ToSet(list) : y \in Nodes
      BY <1>3
    <2> QED BY <1>1, <1>7, <1>11, <1>15, <2>1 DEF MapKeeps
  <1>17. StormKinds'
    BY <1>1, <1>7, <1>11, <1>13 DEF StormKinds, StormTypes
  <1> QED BY <1>11, <1>12, <1>14, <1>16, <1>17 DEF StormInv

(* What the places are when a node of the pool, or the first that is given *)
(* up, goes to the end of the list.                                        *)
LEMMA PushedIs ==
  ASSUME StormAssumption, StormInv, NEW e \in 0 .. Len(list), Len(free) + e > 0, NEW pool,
         pool = free \o SubSeq(list, 1, e)
  PROVE  /\ pool # <<>> /\ Head(pool) = Place(1) /\ Head(pool) \in Nodes
         /\ Tail(pool) \in Seq(Nodes) /\ Len(Tail(pool)) = Len(free) + e - 1
         /\ \A i \in 1 .. (Len(free) + e - 1) : Tail(pool)[i] = Place(i + 1)
         /\ Append(SubSeq(list, e + 1, Len(list)), Head(pool)) \in Seq(Nodes)
         /\ Len(Append(SubSeq(list, e + 1, Len(list)), Head(pool))) = Len(list) - e + 1
         /\ \A i \in 1 .. (Len(list) - e) :
              Append(SubSeq(list, e + 1, Len(list)), Head(pool))[i] = list[e + i]
         /\ Append(SubSeq(list, e + 1, Len(list)), Head(pool))[Len(list) - e + 1] = Head(pool)
  <1> DEFINE n == Len(list)  l == Len(free)
  <1>1. /\ list \in Seq(Nodes) /\ free \in Seq(Nodes) /\ n \in Nat /\ l \in Nat
        /\ \A i \in 1..n : list[i] \in Nodes
        /\ \A i \in 1..l : free[i] \in Nodes
    BY CacheFacts DEF StormInv
  <1> DEFINE a == SubSeq(list, 1, e)  b == SubSeq(list, e + 1, n)
  <1>2. a \in Seq(Nodes) /\ Len(a) = e /\ \A i \in 1..e : a[i] = list[i]
    <2>1. 1 \in Int /\ e \in Int /\ \A i \in 1..e : list[i] \in Nodes
      BY <1>1
    <2>2. /\ a \in Seq(Nodes) /\ Len(a) = IF 1 <= e THEN e - 1 + 1 ELSE 0
          /\ \A i \in 1 .. (e - 1 + 1) : a[i] = list[1 + i - 1]
      BY <2>1, SubSeqProperties
    <2> HIDE DEF a
    <2>3. e \in Nat
      BY <1>1
    <2>4. (IF 1 <= e THEN e - 1 + 1 ELSE 0) = e /\ e - 1 + 1 = e /\ \A i \in 1..e : 1 + i - 1 = i
      BY <2>3
    <2>5. \A i \in 1..e : a[i] = list[i]
      BY <2>2, <2>4, Zenon
    <2> QED BY <2>2, <2>4, <2>5
  <1>3. b \in Seq(Nodes) /\ Len(b) = n - e /\ \A i \in 1 .. (n - e) : b[i] = list[e + i]
    <2>1. e + 1 \in Int /\ n \in Int /\ \A i \in (e + 1) .. n : list[i] \in Nodes
      BY <1>1
    <2>2. /\ b \in Seq(Nodes) /\ Len(b) = IF e + 1 <= n THEN n - (e + 1) + 1 ELSE 0
          /\ \A i \in 1 .. (n - (e + 1) + 1) : b[i] = list[(e + 1) + i - 1]
      BY <2>1, SubSeqProperties
    <2> HIDE DEF b
    <2>3. n \in Nat /\ e \in 0..n
      BY <1>1
    <2>4. /\ (IF e + 1 <= n THEN n - (e + 1) + 1 ELSE 0) = n - e /\ n - (e + 1) + 1 = n - e
          /\ \A i \in 1 .. (n - e) : (e + 1) + i - 1 = e + i
      <3> HIDE DEF n
      <3> QED BY <2>3
    <2>5. \A i \in 1 .. (n - e) : b[i] = list[e + i]
      BY <2>2, <2>4, Zenon
    <2>6. Len(b) = n - e
      BY <2>2, <2>4, Zenon
    <2> QED BY <2>2, <2>5, <2>6, Zenon
  <1> HIDE DEF a, b
  <1>4. pool = free \o a
    BY DEF a
  <1>5. /\ pool \in Seq(Nodes) /\ Len(pool) = l + e
        /\ \A i \in 1 .. (l + e) : pool[i] = IF i <= l THEN free[i] ELSE a[i - l]
    <2>1. /\ free \o a \in Seq(Nodes) /\ Len(free \o a) = Len(free) + Len(a)
          /\ \A i \in 1 .. (Len(free) + Len(a)) :
               (free \o a)[i] = IF i <= Len(free) THEN free[i] ELSE a[i - Len(free)]
      BY <1>1, <1>2, ConcatProperties
    <2> QED BY <1>2, <1>4, <2>1
  <1>6. \A i \in 1 .. (l + e) : pool[i] = Place(i)
    <2> SUFFICES ASSUME NEW i \in 1 .. (l + e) PROVE pool[i] = Place(i)
      OBVIOUS
    <2>1. CASE i <= l
      BY <1>5, <2>1 DEF Place
    <2>2. CASE ~(i <= l)
      <3>1. i - l \in 1..e
        BY <1>1, <2>2
      <3> QED BY <1>2, <1>5, <2>2, <3>1 DEF Place
    <2> QED BY <2>1, <2>2
  <1>7. pool # <<>>
    <2>1. Len(<<>>) = 0
      BY EmptySeq
    <2>2. Len(pool) > 0
      BY <1>5
    <2> QED BY <2>1, <2>2
  <1>8. /\ Head(pool) \in Nodes /\ Tail(pool) \in Seq(Nodes) /\ Len(Tail(pool)) = Len(pool) - 1
        /\ \A i \in 1 .. Len(Tail(pool)) : Tail(pool)[i] = pool[i + 1]
    BY <1>5, <1>7, HeadTailProperties
  <1>9. Head(pool) = Place(1)
    <2>1. Head(pool) = pool[1]
      BY <1>5, <1>7
    <2>2. 1 \in 1 .. (l + e)
      BY <1>1
    <2> QED BY <1>6, <2>1, <2>2
  <1>10. Len(Tail(pool)) = l + e - 1 /\ \A i \in 1 .. (l + e - 1) : Tail(pool)[i] = Place(i + 1)
    <2>1. Len(Tail(pool)) = l + e - 1
      <3>1. Len(pool) = l + e /\ Len(Tail(pool)) = Len(pool) - 1
        BY <1>5, <1>8
      <3> QED BY <3>1
    <2>2. \A i \in 1 .. (l + e - 1) : i + 1 \in 1 .. (l + e)
      BY <1>1
    <2> QED BY <1>6, <1>8, <2>1, <2>2
  <1> DEFINE x == Head(pool)
  <1> HIDE DEF x
  <1>11. /\ Append(b, x) \in Seq(Nodes) /\ Len(Append(b, x)) = Len(b) + 1
         /\ \A i \in 1 .. Len(b) : Append(b, x)[i] = b[i]
         /\ Append(b, x)[Len(b) + 1] = x
    <2>1. b \in Seq(Nodes) /\ x \in Nodes
      BY <1>3, <1>8 DEF x
    <2> QED BY <2>1, AppendProperties
  <1>12. /\ Append(b, x) \in Seq(Nodes) /\ Len(Append(b, x)) = n - e + 1
         /\ \A i \in 1 .. (n - e) : Append(b, x)[i] = list[e + i]
         /\ Append(b, x)[n - e + 1] = x
    BY <1>3, <1>11
  <1> QED BY <1>7, <1>8, <1>9, <1>10, <1>12 DEF b, x

LEMMA PushStep ==
  ASSUME StormAssumption, StormInv, NEW k \in Keys, Push(k)
  PROVE  StormInv'
  <1> DEFINE e == Evicted  n == Len(list)  l == Len(free)  c == Cut(k)  x == Head(Pool)
  <1>1. StormKinds /\ NodesPlaced /\ MapKeeps /\ AnswerThin /\ \A y \in Nodes : NodeThin(node[y])
    BY DEF StormInv
  <1>2. /\ capacity \in Nat /\ capacity > 0 /\ n \in Nat /\ l \in Nat /\ l + n = capacity
        /\ \A i \in 1..l : i \in 1 .. capacity /\ Place(i) = free[i]
        /\ \A i \in 1..n : l + i \in 1 .. capacity /\ Place(l + i) = list[i] /\ list[i] \in Nodes
        /\ \A i, j \in 1..n : i # j => list[i] # list[j]
        /\ \A y : y \in ToSet(list) <=> \E i \in 1..n : list[i] = y
        /\ DOMAIN node = Nodes /\ \A y \in Nodes : node[y] \in NodeKind
    BY <1>1, CacheFacts
  <1>3. /\ k \notin DOMAIN key2node /\ was_cut' = (was_cut \/ c # k) /\ c \in NodeKeys
    BY DEF Push, NodeKeys
  <1>4. /\ e \in 0..n
        /\ \A i : DOMAIN MapAfter(i) = DOMAIN key2node \ {node[list[j]].key : j \in 1..i}
        /\ ~was_cut /\ l = 0 => e # 0
    BY EvictedIs
  <1>5. Pool = free \o SubSeq(list, 1, e)
    BY DEF Pool
  <1>6. CASE l + e = 0
    <2>1. l = 0 /\ e = 0
      BY <1>2, <1>4, <1>6
    <2>2. Pool = <<>>
      <3>1. SubSeq(list, 1, e) = <<>>
        BY <2>1, SubSeqEmpty
      <3>2. free = <<>>
        <4>1. free \in Seq(Nodes) /\ Len(free) = 0
          BY <1>1, <2>1 DEF StormKinds, StormTypes
        <4> QED BY <4>1, EmptySeq
      <3>3. <<>> \in Seq(Nodes)
        BY EmptySeq
      <3>4. <<>> \o <<>> = <<>>
        BY <3>3, ConcatEmptySeq
      <3> QED BY <1>5, <3>1, <3>2, <3>4
    <2>3. assert_failed' = TRUE /\ UNCHANGED <<key2node, list, free, node, answer>>
      BY <2>2 DEF Push
    <2>4. was_cut /\ was_cut'
      BY <1>1, <1>3, <1>4, <2>1 DEF StormKinds, StormTypes
    <2>5. StormKinds'
      BY <1>1, <2>3, <2>4 DEF StormKinds, StormTypes
    <2>6. \A i : Place(i)' = Place(i)
      BY <2>3 DEF Place
    <2>7. NodesPlaced'
      BY <1>1, <2>3, <2>6 DEF NodesPlaced
    <2>8. MapKeeps' /\ AnswerThin'
      BY <1>1, <2>3, <2>4 DEF MapKeeps, AnswerThin
    <2> QED BY <1>1, <2>3, <2>5, <2>7, <2>8 DEF StormInv
  <1>7. CASE l + e # 0
    <2>1. l + e > 0
      BY <1>2, <1>4, <1>7
    <2>2. /\ Pool # <<>> /\ x = Place(1) /\ x \in Nodes
          /\ Tail(Pool) \in Seq(Nodes) /\ Len(Tail(Pool)) = l + e - 1
          /\ \A i \in 1 .. (l + e - 1) : Tail(Pool)[i] = Place(i + 1)
          /\ Append(SubSeq(list, e + 1, n), x) \in Seq(Nodes)
          /\ Len(Append(SubSeq(list, e + 1, n), x)) = n - e + 1
          /\ \A i \in 1 .. (n - e) : Append(SubSeq(list, e + 1, n), x)[i] = list[e + i]
          /\ Append(SubSeq(list, e + 1, n), x)[n - e + 1] = x
      <3>1. e \in 0 .. Len(list) /\ Len(free) + e > 0
        BY <1>4, <2>1
      <3> QED BY <1>5, <3>1, PushedIs, Zenon
    <2> DEFINE new == [Fresh(c) EXCEPT !.count = 1]
    <2>3. /\ node' = [node EXCEPT ![x] = new] /\ list' = Append(SubSeq(list, e + 1, n), x)
          /\ free' = Tail(Pool)
          /\ key2node' = [held \in DOMAIN MapAfter(e) \cup {c} |-> IF held = c THEN x ELSE key2node[held]]
          /\ Answer(TRUE, new) /\ UNCHANGED assert_failed
      BY <2>2 DEF Push
    <2>4. /\ DOMAIN key2node' = DOMAIN MapAfter(e) \cup {c} /\ key2node'[c] = x
          /\ \A held \in DOMAIN MapAfter(e) : held # c => key2node'[held] = key2node[held]
      BY <2>3
    <2> HIDE DEF e, n, l, c, x
    <2>5. /\ free' \in Seq(Nodes) /\ Len(free') = l + e - 1
          /\ \A i \in 1 .. (l + e - 1) : free'[i] = Place(i + 1)
          /\ list' \in Seq(Nodes) /\ Len(list') = n - e + 1
          /\ \A i \in 1 .. (n - e) : list'[i] = list[e + i]
          /\ list'[n - e + 1] = x
      BY <2>2, <2>3
    <2>6. new \in NodeKind /\ new.key = c /\ new.count = 1 /\ NodeThin(new)
      <3>1. /\ new = [key |-> c, target |-> kNoRateControlCounts, count |-> 1, interval |-> 1]
            /\ c \in NodeNames /\ kNoRateControlCounts \in Nat /\ kNoRateControlCounts > 1
        BY <1>3 DEF Fresh, NodeNames, StormAssumption
      <3> HIDE DEF new
      <3>2. new \in NodeKind /\ new.key = c /\ new.count = 1 /\ new.target = kNoRateControlCounts
            /\ new.interval = 1
        BY <3>1 DEF NodeKind
      <3>3. 0 \in Nat /\ TargetOf(0) = kNoRateControlCounts /\ Raised[0] = 1
        BY RaisedIs, TargetIs
      <3> QED BY <3>1, <3>2, <3>3 DEF NodeThin
    <2> HIDE DEF new
    <2>7. /\ node' \in [Nodes -> NodeKind] /\ node'[x] = new
          /\ \A y \in Nodes : y # x => node'[y] = node[y]
      <3>1. node \in [Nodes -> NodeKind]
        BY <1>1 DEF StormKinds
      <3> QED BY <2>2, <2>3, <2>6, <3>1
    <2>8. AnswerThin'
      <3>1. answer'.count = 1 /\ answer'.valid = TRUE
        BY <2>3, <2>6 DEF Answer
      <3>2. 0 \in Nat /\ TargetOf(0) = kNoRateControlCounts /\ Raised[0] = 1 /\ 1 % 1 = 0
            /\ kNoRateControlCounts \in Nat /\ kNoRateControlCounts > 1
        BY RaisedIs, TargetIs DEF StormAssumption
      <3>3. InWindow(1, 0)
        BY <3>2 DEF InWindow
      <3> QED BY <3>1, <3>2, <3>3 DEF AnswerThin
    <2>9. NodesPlaced'
      <3>0. l \in Nat /\ n \in Nat /\ e \in 0..n /\ l + n = capacity /\ l + e > 0
        BY <1>2, <1>4, <2>1 DEF e, n, l
      <3>1. Len(free') + Len(list') = capacity
        <4>1. Len(free') = l + e - 1 /\ Len(list') = n - e + 1
          BY <2>5
        <4> QED BY <3>0, <4>1
      <3>2. ASSUME NEW i \in 1 .. capacity
            PROVE  Place(i)' = Place(IF i = capacity THEN 1 ELSE IF i < 1 THEN i ELSE i + 1)
        <4>0. l \in Nat /\ n \in Nat /\ e \in 0..n /\ l + n = capacity /\ l + e > 0
          BY <3>0
        <4>1. CASE i <= l + e - 1
          <5>1. i # capacity /\ ~(i < 1) /\ i \in 1 .. (l + e - 1)
            BY <4>0, <4>1
          <5> QED BY <2>5, <4>1, <5>1 DEF Place
        <4>2. CASE ~(i <= l + e - 1)
          <5>1. Place(i)' = list'[i - (l + e - 1)]
            BY <2>5, <4>2 DEF Place
          <5>2. CASE i = capacity
            <6>1. i - (l + e - 1) = n - e + 1
              BY <4>0, <5>2
            <6> QED BY <2>2, <2>5, <5>1, <5>2, <6>1 DEF x
          <5>3. CASE i # capacity
            <6>1. /\ i - (l + e - 1) \in 1 .. (n - e) /\ e + (i - (l + e - 1)) = (i + 1) - l
                  /\ ~(i + 1 <= l) /\ ~(i < 1)
              BY <4>0, <4>2, <5>3
            <6>2. Place(i)' = list[(i + 1) - l]
              BY <2>5, <5>1, <6>1
            <6>3. Place(i + 1) = list[(i + 1) - l]
              BY <6>1 DEF Place, l
            <6> QED BY <5>3, <6>1, <6>2, <6>3
          <5> QED BY <5>2, <5>3
        <4> QED BY <4>1, <4>2
      <3>3. 1 \in 1 .. capacity
        BY <1>2
      <3> QED BY <1>1, <3>1, <3>2, <3>3, PlacesTurn
    <2>10. \A y : y \in ToSet(list') <=> (y = x \/ \E p \in 1..n : p > e /\ list[p] = y)
      <3>0. n \in Nat /\ e \in 0..n
        BY <1>2, <1>4 DEF e, n
      <3>1. \A y : y \in ToSet(list') <=> \E i \in 1 .. (n - e + 1) : list'[i] = y
        BY <2>5, LenProperties DEF ToSet
      <3>2. ASSUME NEW i \in 1 .. (n - e + 1)
            PROVE  list'[i] = x \/ \E p \in 1..n : p > e /\ list[p] = list'[i]
        <4>1. CASE i = n - e + 1
          BY <2>5, <4>1
        <4>2. CASE i # n - e + 1
          <5>1. i \in 1 .. (n - e) /\ e + i \in 1..n /\ e + i > e
            BY <3>0, <4>2
          <5> QED BY <2>5, <5>1
        <4> QED BY <4>1, <4>2
      <3>3. ASSUME NEW p \in 1..n, p > e PROVE \E i \in 1 .. (n - e + 1) : list'[i] = list[p]
        <4>1. p - e \in 1 .. (n - e) /\ p - e \in 1 .. (n - e + 1) /\ e + (p - e) = p
          BY <3>0, <3>3
        <4>2. list'[p - e] = list[e + (p - e)]
          BY <2>5, <4>1
        <4> QED BY <4>1, <4>2
      <3>4. n - e + 1 \in 1 .. (n - e + 1)
        BY <3>0
      <3> QED BY <2>5, <3>1, <3>2, <3>3, <3>4
    <2>11. \A p \in 1..n : p > e => list[p] # x /\ list[p] \in Nodes
      <3> SUFFICES ASSUME NEW p \in 1..n, p > e PROVE list[p] # x /\ list[p] \in Nodes
        OBVIOUS
      <3>1. l + p \in 1 .. capacity /\ Place(l + p) = list[p] /\ list[p] \in Nodes /\ 1 \in 1 .. capacity
        BY <1>2 DEF n, l
      <3>2. l + p # 1
        BY <1>2, <1>4, <2>1 DEF e, n, l
      <3>3. Place(l + p) # Place(1)
        BY <1>1, <3>1, <3>2, Zenon DEF NodesPlaced
      <3> QED BY <2>2, <3>1, <3>3 DEF x
    <2>12. DOMAIN MapAfter(e) = DOMAIN key2node \ {node[list[j]].key : j \in 1..e}
      BY <1>4 DEF e
    <2>13. \A y \in ToSet(list) : \E p \in 1..n : list[p] = y
      BY <1>2 DEF n
    <2>14. \A held \in DOMAIN key2node' : key2node'[held] \in ToSet(list') /\ node'[key2node'[held]].key = held
      <3> SUFFICES ASSUME NEW held \in DOMAIN key2node'
                   PROVE  key2node'[held] \in ToSet(list') /\ node'[key2node'[held]].key = held
        OBVIOUS
      <3>1. CASE held = c
        BY <2>4, <2>6, <2>7, <2>10, <3>1
      <3>2. CASE held # c
        <4> DEFINE y == key2node[held]
        <4>1. /\ held \in DOMAIN key2node /\ key2node'[held] = y
              /\ held \notin {node[list[j]].key : j \in 1..e}
          BY <2>4, <2>12, <3>2
        <4>2. y \in ToSet(list) /\ node[y].key = held
          BY <1>1, <4>1 DEF MapKeeps
        <4> HIDE DEF y
        <4>3. PICK p \in 1..n : list[p] = y
          BY <2>13, <4>2
        <4>4. p > e
          <5>1. p \notin 1..e
            BY <4>1, <4>2, <4>3
          <5> QED BY <1>2, <1>4, <5>1 DEF e, n
        <4>5. y # x /\ y \in Nodes
          BY <2>11, <4>3, <4>4
        <4>6. node'[y] = node[y]
          BY <2>7, <4>5
        <4> QED BY <2>10, <4>1, <4>2, <4>3, <4>4, <4>6
      <3> QED BY <3>1, <3>2
    <2>15. ASSUME ~was_cut'
           PROVE  /\ ~assert_failed'
                  /\ \A y \in ToSet(list') : /\ node'[y].key \in DOMAIN key2node'
                                             /\ key2node'[node'[y].key] = y
      <3>1. ~was_cut /\ c = k
        BY <1>3, <2>15 DEF c
      <3>2. ~assert_failed /\ \A y \in ToSet(list) : /\ node[y].key \in DOMAIN key2node
                                                     /\ key2node[node[y].key] = y
        BY <1>1, <3>1 DEF MapKeeps
      <3>3. ASSUME NEW y \in ToSet(list')
            PROVE  node'[y].key \in DOMAIN key2node' /\ key2node'[node'[y].key] = y
        <4>1. CASE y = x
          BY <2>4, <2>6, <2>7, <4>1
        <4>2. CASE y # x
          <5>1. PICK p \in 1..n : p > e /\ list[p] = y
            BY <2>10, <3>3, <4>2
          <5>2. y \in ToSet(list) /\ y \in Nodes
            BY <1>2, <2>11, <5>1 DEF n
          <5> DEFINE held == node[y].key
          <5>3. held \in DOMAIN key2node /\ key2node[held] = y /\ node'[y] = node[y]
            BY <2>7, <3>2, <4>2, <5>2
          <5>4. held \notin {node[list[j]].key : j \in 1..e}
            <6> SUFFICES ASSUME NEW j \in 1..e, node[list[j]].key = held PROVE FALSE
              OBVIOUS
            <6>1. j \in 1..n /\ j # p
              BY <1>2, <1>4, <5>1 DEF e, n
            <6>2. list[j] \in ToSet(list) /\ list[j] # list[p]
              BY <1>2, <6>1 DEF n
            <6>3. key2node[node[list[j]].key] = list[j]
              BY <3>2, <6>2
            <6> QED BY <5>1, <5>3, <6>2, <6>3
          <5>5. held # c
            BY <1>3, <3>1, <5>3
          <5> QED BY <2>4, <2>12, <5>3, <5>4, <5>5
        <4> QED BY <4>1, <4>2
      <3> QED BY <2>3, <3>2, <3>3
    <2>16. MapKeeps'
      BY <2>14, <2>15 DEF MapKeeps
    <2>17. \A y \in Nodes : NodeThin(node'[y])
      BY <1>1, <2>6, <2>7
    <2>18. StormKinds'
      <3>1. DOMAIN key2node \subseteq NodeKeys /\ \A held \in DOMAIN key2node : key2node[held] \in Nodes
        BY <1>1 DEF StormKinds, StormTypes
      <3>2. DOMAIN key2node' \subseteq NodeKeys
        BY <1>3, <2>4, <2>12, <3>1 DEF c
      <3>3. \A held \in DOMAIN key2node' : key2node'[held] \in Nodes
        BY <2>2, <2>4, <2>12, <3>1 DEF x
      <3>4. assert_failed' \in BOOLEAN /\ was_cut' \in BOOLEAN
        BY <1>1, <1>3, <2>3 DEF StormKinds, StormTypes
      <3> QED BY <2>5, <2>7, <3>2, <3>3, <3>4 DEF StormKinds, StormTypes
    <2> QED BY <2>8, <2>9, <2>16, <2>17, <2>18 DEF StormInv
  <1> QED BY <1>6, <1>7

LEMMA StormInitial == StormAssumption /\ StormInit => StormInv
  <1> SUFFICES ASSUME StormAssumption, StormInit PROVE StormInv
    OBVIOUS
  <1> DEFINE first == CHOOSE k \in NodeKeys : TRUE
  <1>1. /\ DOMAIN key2node = {} /\ list = <<>> /\ free = SetToSeq(Nodes)
        /\ node \in [Nodes -> {Fresh(first)}]
        /\ assert_failed = FALSE /\ was_cut = FALSE /\ answer.count = 0
    BY DEF StormInit
  <1>2. capacity \in Nat /\ ExistsBijection(1 .. capacity, Nodes) /\ IsFiniteSet(Nodes)
    BY FS_CardinalityType DEF StormAssumption, capacity
  <1>3. /\ free \in [1 .. capacity -> Nodes] /\ \A i, j \in 1 .. capacity : free[i] = free[j] => i = j
    <2>1. PICK f : f \in Bijection(1 .. capacity, Nodes)
      BY <1>2 DEF ExistsBijection
    <2>2. f \in [1 .. capacity -> Nodes] /\ IsInjective(f)
      BY <2>1 DEF Bijection, Injection
    <2> DEFINE P(g) == IsInjective(g)
    <2>3. free = CHOOSE g \in [1 .. capacity -> Nodes] : IsInjective(g)
      BY <1>1 DEF SetToSeq, capacity
    <2>4. free \in [1 .. capacity -> Nodes] /\ IsInjective(free)
      BY <2>2, <2>3
    <2> QED BY <2>4 DEF IsInjective
  <1>4. \A x \in Nodes : \E i \in 1 .. capacity : free[i] = x
    <2>1. free \in Injection(1 .. capacity, Nodes)
      BY <1>3 DEF Injection, IsInjective
    <2>2. Cardinality(1 .. capacity) = Cardinality(Nodes)
      <3>1. 1 \in Int /\ capacity \in Int
        BY <1>2
      <3>2. Cardinality(1 .. capacity) = IF 1 > capacity THEN 0 ELSE capacity - 1 + 1
        BY <3>1, FS_Interval
      <3>3. (IF 1 > capacity THEN 0 ELSE capacity - 1 + 1) = capacity
        BY <1>2
      <3> QED BY <3>2, <3>3 DEF capacity
    <2>3. free \in Surjection(1 .. capacity, Nodes)
      BY <1>2, <2>1, <2>2, FS_Injection
    <2> QED BY <2>3 DEF Surjection
  <1>5. free \in Seq(Nodes) /\ Len(free) = capacity /\ list \in Seq(Nodes) /\ Len(list) = 0
    BY <1>1, <1>2, <1>3, EmptySeq
  <1>6. NodesPlaced
    <2>1. \A i \in 1 .. capacity : Place(i) = free[i]
      BY <1>5 DEF Place
    <2>2. Len(free) + Len(list) = capacity
      BY <1>2, <1>5
    <2> QED BY <1>3, <1>4, <2>1, <2>2 DEF NodesPlaced
  <1>7. \A x \in Nodes : node[x] = Fresh(first)
    BY <1>1
  <1>8. Fresh(first) \in NodeKind /\ NodeThin(Fresh(first))
    <2> DEFINE n == Fresh(first)
    <2>1. /\ n = [key |-> first, target |-> kNoRateControlCounts, count |-> 0, interval |-> 1]
          /\ first \in NodeNames /\ kNoRateControlCounts \in Nat /\ kNoRateControlCounts > 1
      BY DEF Fresh, NodeNames, StormAssumption
    <2> HIDE DEF n, first
    <2>2. n \in NodeKind /\ n.count = 0 /\ n.target = kNoRateControlCounts /\ n.interval = 1
      BY <2>1 DEF NodeKind
    <2>3. 0 \in Nat /\ TargetOf(0) = kNoRateControlCounts /\ Raised[0] = 1
      BY RaisedIs, TargetIs
    <2>4. NodeThin(n)
      BY <2>1, <2>2, <2>3 DEF NodeThin
    <2> QED BY <2>2, <2>4 DEF n
  <1>9. node \in [Nodes -> NodeKind] /\ \A x \in Nodes : NodeThin(node[x])
    <2> HIDE DEF first
    <2> QED BY <1>1, <1>7, <1>8
  <1>10. StormKinds
    BY <1>1, <1>5, <1>9 DEF StormKinds, StormTypes
  <1>11. MapKeeps
    <2>1. ToSet(list) = {}
      <3>1. DOMAIN <<>> = {}
        OBVIOUS
      <3> QED BY <1>1, <3>1 DEF ToSet
    <2> QED BY <1>1, <2>1 DEF MapKeeps
  <1>12. AnswerThin
    BY <1>1 DEF AnswerThin
  <1> QED BY <1>6, <1>9, <1>10, <1>11, <1>12 DEF StormInv

LEMMA StormInvariant ==
  ASSUME StormAssumption, StormInv, [StormNext]_stormVars
  PROVE  StormInv'
  <1>1. ASSUME NEW k \in Keys, Check(k) PROVE StormInv'
    BY <1>1, PushStep, KnownStep DEF Check
  <1>2. CASE UNCHANGED stormVars
    <2>1. UNCHANGED <<key2node, list, free, node, assert_failed, was_cut, answer>>
      BY <1>2 DEF stormVars
    <2>2. \A i : Place(i)' = Place(i)
      BY <2>1 DEF Place
    <2>3. StormKinds /\ NodesPlaced /\ MapKeeps /\ AnswerThin /\ \A x \in Nodes : NodeThin(node[x])
      BY DEF StormInv
    <2>4. StormKinds' /\ MapKeeps' /\ AnswerThin' /\ \A x \in Nodes : NodeThin(node'[x])
      BY <2>1, <2>3 DEF StormKinds, StormTypes, MapKeeps, AnswerThin
    <2>5. NodesPlaced'
      BY <2>1, <2>2, <2>3 DEF NodesPlaced
    <2> QED BY <2>4, <2>5 DEF StormInv
  <1> QED BY <1>1, <1>2 DEF StormNext

(* For any cache, keys and limits: no node of the cache is lost or in two  *)
(* places; as long as no key was cut every node in use is found under its  *)
(* key and a node is there when one is needed; and a message that repeats  *)
(* passes at the multiples of the power its count has reached.             *)
THEOREM StormThinned ==
  ASSUME StormAssumption
  PROVE  StormSpec => []StormIsThinned
  <1>1. StormInit => StormInv
    BY StormInitial
  <1>2. StormInv /\ [StormNext]_stormVars => StormInv'
    BY StormInvariant
  <1>3. StormInv => StormIsThinned
    BY CacheIs
  <1> QED BY <1>1, <1>2, <1>3, PTL DEF StormSpec
=============================================================================
