---------------------------- MODULE ClientProofs ----------------------------
(***************************************************************************)
(* The client of a lidar: the life of a lidar (LidarLifecycle), the reader *)
(* of UDP packets (UdpInput), the recorder of raw data (RawRecorder), the  *)
(* reader of files and connections (FileInput), the configuration of the   *)
(* stages (Configs), the recorder's callback (CallbackSlot), the           *)
(* attributes (ClientAttributes), the requests to the lidar (NetManager)   *)
(* and the commands made of them (LidarCommands).                          *)
(***************************************************************************)
EXTENDS LidarLifecycle, ClientParts, RawRecorder,
        FiniteSetTheorems, SequenceTheorems, WellFoundedInduction, TLAPS

-----------------------------------------------------------------------------
(* The life of a lidar, for any bound on the packets in flight: what holds *)
(* whenever the node is stopped and whether or not the driver reconnects,  *)
(* and what holds of a steady driver alone.                                *)

(* Check has not handed the read stage its job yet.                        *)
NotReading == {"none", "connect", "started?", "before_read", "create", "failed", "add_job"}

(* Before its job is added the read stage is as it was created, and the    *)
(* client is up just for the call that adds the job.                       *)
Untouched ==
  /\ pc[Check] \in NotReading =>
       reader = "none" /\ state = "INIT" /\ packets = 0 /\ ~in_callback
  /\ pc[Check] \in NotReading => (last_stage_is_up <=> pc[Check] = "add_job")
  /\ pc[Main] = "start" => pc[Check] = "none" /\ lidar = "none" /\ ~joinable

(* The job runs just while the read stage reads or is told to stop.        *)
JobAndState ==
  /\ state \in {"READING", "STOPPING"} <=> reader \in {"reading", "message", "ending"}
  /\ reader = "queued" => state = "INIT"

(* What a thread that stops the lidar knows, from the job that has begun   *)
(* to the stage that is reset.                                             *)
StopProgress ==
  \A t \in Threads :
    /\ pc[t] \in {"wait_stopped", "shutdown_read", "shutdown_deliver", "final_cleanup", "down"} =>
         pc[Check] \notin NotReading
    /\ pc[t] \in {"shutdown_deliver", "final_cleanup", "down"} => reader \in {"none", "done"}
    /\ pc[t] \in {"final_cleanup", "down"} => Delivered
    /\ pc[t] = "down" => state = "INIT"

(* A client that is not up has nothing under way.                          *)
DownIsQuiet ==
  ~last_stage_is_up => reader = "none" /\ Delivered /\ state = "INIT"

(* Where the lidar is: taken out of the table only in the hands of one     *)
(* that deletes it, deleted only when it is down.                          *)
Whereabouts ==
  /\ lidar \in {"none", "open", "closed", "deleted"}
  /\ lidar \in {"none", "deleted"} => ~last_stage_is_up
  /\ lidar = "none" => pc[Check] = "none"
  /\ lidar = "closed" => \E t \in Threads : pc[t] = "delete"
  /\ handle = -1 => lidar # "open"
  /\ \A t \in Threads : /\ pc[t] \in {"delete", "clear", "join", "stopped"} => lidar # "open"
                        /\ pc[t] \in {"join", "stopped"} => handle = -1

(* The thread of the driver can be joined until it has been.               *)
OneThread ==
  /\ ~joinable => pc[Check] = "none" \/ pc[Main] = "stopped"
  /\ pc[Main] = "stopped" => ~joinable /\ pc[Check] \in {"none", "exited"}

LifeInv == /\ pc \in [Threads -> Places] /\ handle \in {-1, Handle} /\ Untouched /\ JobAndState /\ StopProgress /\ DownIsQuiet
           /\ Whereabouts /\ OneThread

(* A steady driver: it does not reconnect, and it is stopped only while it *)
(* does not connect, so that the check thread never stops or closes the    *)
(* lidar and Main never meets it in the client.                            *)
Steady == ~ContinueLive /\ ~StopAnyTime

SteadyInv ==
  /\ pc[Check] \in {"none", "failed", "watch", "exited"} \cup
                   (IF pc[Main] = "idle" THEN NotReading ELSE {})
  /\ pc[Main] \notin {"started?", "before_read", "create", "add_job"}
  /\ pc[Main] \in {"stop?", "print_stats", "input_stop", "wait_started", "wait_stopped",
                   "shutdown_read", "shutdown_deliver", "final_cleanup", "down"} => lidar = "open"
  /\ pc[Main] \in {"print_stats", "input_stop", "wait_started", "wait_stopped",
                   "shutdown_read", "shutdown_deliver", "final_cleanup", "down"} => last_stage_is_up
  /\ pc[Main] = "close" /\ lidar = "open" => ~last_stage_is_up
  /\ pc[Main] = "delete" => ~last_stage_is_up
  /\ pc[Main] \in {"start", "idle", "stop", "close"} => lidar \in {"none", "open"}
  /\ stopped => ~last_stage_is_up /\ pc[Main] \notin {"start", "idle"}
  /\ crash = "none"

LEMMA LifeInit == Init => LifeInv
  <1> SUFFICES ASSUME Init PROVE LifeInv
    OBVIOUS
  <1>1. pc[Main] = "start" /\ pc[Check] = "none" /\ pc \in [Threads -> Places]
    BY ConstantAssumption DEF Init, Threads, ConstantAssumption, Places
  <1> QED BY <1>1
          DEF Init, Threads, LifeInv, Untouched, JobAndState, StopProgress, DownIsQuiet,
              Whereabouts, OneThread, NotReading, Handle, Delivered

LEMMA AllPlaces == Places =
  {"start", "idle", "connect", "failed", "watch", "exited", "stop",
   "close", "delete", "clear", "join", "stopped", "started?",
   "before_read", "create", "add_job", "stop?", "print_stats",
   "input_stop", "wait_started", "wait_stopped", "shutdown_read",
   "shutdown_deliver", "final_cleanup", "down", "none"}
  BY DEF Places, InClientPlaces

(* A step of t moves t alone.                                              *)
LEMMA Moves ==
  ASSUME pc \in [Threads -> Places], NEW t \in Threads, NEW there \in Places, Goto(t, there)
  PROVE  /\ pc' \in [Threads -> Places] /\ pc'[t] = there
         /\ \A u \in Threads : u # t => pc'[u] = pc[u]
         /\ pc'[Main] = IF t = Main THEN there ELSE pc[Main]
         /\ pc'[Check] = IF t = Check THEN there ELSE pc[Check]
  BY DEF Goto, Threads

(* A step that crashes changes nothing else.                               *)
LEMMA CrashKeeps ==
  ASSUME LifeInv, NEW what, Crash(what)
  PROVE  LifeInv'
  BY DEF LifeInv, Untouched, JobAndState, StopProgress, DownIsQuiet, Whereabouts,
         OneThread, Delivered, Crash, driverVars, clientVars, poolVars, readVars

(* The threads that stop the lidar, on the way down,                       *)
LEMMA LifeStopping ==
  ASSUME LifeInv, NEW t \in Threads, FindToStop(t) \/ TestUp(t) \/ PrintStats(t) \/ InputStop(t)
         \/ WaitStarted(t) \/ WaitStopped(t) \/ ShutdownRead(t) \/ ShutdownDeliver(t)
         \/ FinalCleanup(t)
  PROVE  LifeInv'
  <1> USE ConstantAssumption, AllPlaces
      DEF ConstantAssumption, Threads, Handle, At, InClient, driverVars, poolVars, readVars,
          clientVars, LifeInv, Untouched, JobAndState, StopProgress, DownIsQuiet,
          Whereabouts, OneThread, Delivered, NotReading
  <1>1. CASE FindToStop(t)
    <2>1. PICK there \in {"stop?", "close", "clear"} : Goto(t, there)
      BY <1>1 DEF FindToStop
    <2> QED BY <1>1, <2>1, Moves DEF FindToStop
  <1>2. CASE TestUp(t)
    <2>1. PICK there \in {"print_stats", "close"} : Goto(t, there)
      BY <1>2 DEF TestUp
    <2> QED BY <1>2, <2>1, Moves DEF TestUp
  <1>3. CASE PrintStats(t)
    <2>1. CASE last_stage_is_up
      BY <1>3, <2>1, Moves DEF PrintStats
    <2>2. CASE ~(last_stage_is_up)
      BY <1>3, <2>2, CrashKeeps DEF PrintStats
    <2> QED BY <2>1, <2>2
  <1>4. CASE InputStop(t)
    BY <1>4, Moves DEF InputStop
  <1>5. CASE WaitStarted(t)
    BY <1>5, Moves DEF WaitStarted
  <1>6. CASE WaitStopped(t)
    BY <1>6, Moves DEF WaitStopped
  <1>7. CASE ShutdownRead(t)
    BY <1>7, Moves DEF ShutdownRead
  <1>8. CASE ShutdownDeliver(t)
    BY <1>8, Moves DEF ShutdownDeliver
  <1>9. CASE FinalCleanup(t)
    BY <1>9, Moves DEF FinalCleanup
  <1> QED BY <1>1, <1>2, <1>3, <1>4, <1>5, <1>6, <1>7, <1>8, <1>9

(* and from there to their end.                                            *)
LEMMA LifeClosing ==
  ASSUME LifeInv, NEW t \in Threads, Down(t) \/ Close(t) \/ Delete(t) \/ Clear(t) \/ Join(t) \/ UseDeleted(t)
  PROVE  LifeInv'
  <1> USE ConstantAssumption, AllPlaces
      DEF ConstantAssumption, Threads, Handle, At, InClient, driverVars, poolVars, readVars,
          clientVars, LifeInv, Untouched, JobAndState, StopProgress, DownIsQuiet,
          Whereabouts, OneThread, Delivered, NotReading
  <1>1. CASE Down(t)
    BY <1>1, Moves DEF Down
  <1>2. CASE Close(t)
    BY <1>2, Moves DEF Close
  <1>3. CASE Delete(t)
    <2>1. CASE state = "INIT" /\ ~last_stage_is_up
      BY <1>3, <2>1, Moves DEF Delete
    <2>2. CASE ~(state = "INIT" /\ ~last_stage_is_up)
      BY <1>3, <2>2, CrashKeeps DEF Delete
    <2> QED BY <2>1, <2>2
  <1>4. CASE Clear(t)
    BY <1>4, Moves DEF Clear
  <1>5. CASE Join(t)
    <2>1. CASE UNCHANGED <<pc, joinable>>
      <3>1. UNCHANGED <<handle, clientVars>>
        BY <1>5 DEF Join
      <3> QED BY <2>1, <3>1
    <2>2. CASE Goto(t, "stopped")
      <3>1. t = Main /\ joinable' = FALSE /\ pc[Check] \in {"none", "exited"}
        <4>1. CASE ~joinable
          <5>1. pc[Check] = "none" \/ pc[Main] = "stopped"
            BY <4>1
          <5>2. t = Main /\ pc[Check] = "none"
            BY <1>5, <5>1 DEF Join
          <5>3. joinable' = joinable
            BY <1>5, <5>2 DEF Join
          <5>4. joinable' = FALSE
            BY <4>1, <5>3, <1>5 DEF Join
          <5> QED BY <5>2, <5>4
        <4>2. CASE joinable
          BY <1>5, <2>2, <4>2, Moves DEF Join
        <4> QED BY <4>1, <4>2
      <3>2. handle' = handle /\ handle = -1 /\ UNCHANGED <<clientVars>>
        BY <1>5 DEF Join
      <3>3. pc[Main] = "join" /\ pc' \in [Threads -> Places] /\ pc'[Main] = "stopped" /\ pc'[Check] = pc[Check]
        BY <1>5, <2>2, <3>1, Moves DEF Join
      <3> QED BY <3>1, <3>2, <3>3
    <2> QED BY <1>5, <2>1, <2>2 DEF Join
  <1>6. CASE UseDeleted(t)
    BY <1>6, CrashKeeps DEF UseDeleted
  <1> QED BY <1>1, <1>2, <1>3, <1>4, <1>5, <1>6

(* The node and the check thread.                                          *)
LEMMA LifeStarting ==
  ASSUME LifeInv, StartLidar \/ Destroy \/ Connect \/ TestStarted
         \/ BeforeReadStart \/ Create \/ AddJob \/ Retry
         \/ StopWatching \/ Reconnect
  PROVE  LifeInv'
  <1> USE ConstantAssumption, AllPlaces
      DEF ConstantAssumption, Threads, Handle, At, InClient, driverVars, poolVars, readVars,
          clientVars, LifeInv, Untouched, JobAndState, StopProgress, DownIsQuiet,
          Whereabouts, OneThread, Delivered, NotReading
  <1>1. CASE StartLidar
    BY <1>1 DEF StartLidar, Goto
  <1>2. CASE Destroy
    BY <1>2, Moves DEF Destroy
  <1>3. CASE Connect
    <2>1. PICK there \in {"started?", "failed"} : Goto(Check, there)
      BY <1>3 DEF Connect
    <2> QED BY <1>3, <2>1, Moves DEF Connect
  <1>4. CASE TestStarted
    <2>1. PICK there \in {"watch", "before_read"} : Goto(Check, there)
      BY <1>4 DEF TestStarted
    <2> QED BY <1>4, <2>1, Moves DEF TestStarted
  <1>5. CASE BeforeReadStart
    BY <1>5, Moves DEF BeforeReadStart
  <1>6. CASE Create
    BY <1>6, Moves DEF Create
  <1>7. CASE AddJob
    BY <1>7, Moves DEF AddJob
  <1>8. CASE Retry
    <2>1. PICK there \in {"connect", "watch"} : Goto(Check, there)
      BY <1>8 DEF Retry
    <2> QED BY <1>8, <2>1, Moves DEF Retry
  <1>9. CASE StopWatching
    BY <1>9, Moves DEF StopWatching
  <1>10. CASE Reconnect
    BY <1>10, Moves DEF Reconnect
  <1> QED BY <1>1, <1>2, <1>3, <1>4, <1>5, <1>6, <1>7, <1>8, <1>9, <1>10

(* The read stage and the callbacks.                                       *)
LEMMA LifeReading ==
  ASSUME LifeInv, StartReading \/ ReadPacket \/ ReadEnds \/ ReadFails
         \/ MessageCallback \/ ReadReturns \/ CallbackBegins \/ CallbackEnds
  PROVE  LifeInv'
  <1> USE ConstantAssumption, AllPlaces
      DEF ConstantAssumption, Threads, Handle, Reads, driverVars, poolVars, readVars,
          clientVars, LifeInv, Untouched, JobAndState, StopProgress, DownIsQuiet,
          Whereabouts, OneThread, Delivered, NotReading
  <1>1. CASE StartReading
    <2>1. CASE state = "INIT"
      BY <1>1, <2>1 DEF StartReading
    <2>2. CASE ~(state = "INIT")
      BY <1>1, <2>2, CrashKeeps DEF StartReading
    <2> QED BY <2>1, <2>2
  <1>2. CASE ReadPacket
    BY <1>2 DEF ReadPacket
  <1>3. CASE ReadEnds
    BY <1>3 DEF ReadEnds
  <1>4. CASE ReadFails
    BY <1>4 DEF ReadFails
  <1>5. CASE MessageCallback
    BY <1>5 DEF MessageCallback
  <1>6. CASE ReadReturns
    <2>1. CASE state \in {"READING", "STOPPING"}
      BY <1>6, <2>1 DEF ReadReturns
    <2>2. CASE ~(state \in {"READING", "STOPPING"})
      BY <1>6, <2>2, CrashKeeps DEF ReadReturns
    <2> QED BY <2>1, <2>2
  <1>7. CASE CallbackBegins
    BY <1>7 DEF CallbackBegins
  <1>8. CASE CallbackEnds
    BY <1>8 DEF CallbackEnds
  <1> QED BY <1>1, <1>2, <1>3, <1>4, <1>5, <1>6, <1>7, <1>8
LEMMA LifeStep == LifeInv /\ [Next]_vars => LifeInv'
  <1> SUFFICES ASSUME LifeInv, [Next]_vars PROVE LifeInv'
    OBVIOUS
  <1>1. CASE \E t \in Threads : StopStep(t)
    BY <1>1, LifeStopping, LifeClosing DEF StopStep
  <1>2. CASE StartLidar \/ Destroy \/ CheckStep
    BY <1>2, LifeStarting DEF CheckStep
  <1>3. CASE ReadStep \/ CallbackBegins \/ CallbackEnds
    BY <1>3, LifeReading DEF ReadStep
  <1>4. CASE UNCHANGED vars
    BY <1>4 DEF vars, driverVars, clientVars, poolVars, readVars, LifeInv, Untouched, JobAndState,
                StopProgress, DownIsQuiet, Whereabouts, OneThread, Delivered
  <1> QED BY <1>1, <1>2, <1>3, <1>4 DEF Next

LEMMA LifeInvariant == Spec => []LifeInv
  BY LifeInit, LifeStep, PTL DEF Spec

(* When the destructor of the driver returns, the lidar is closed and the  *)
(* client deleted, the check thread is gone, and no job, no packet and no  *)
(* callback is left that could reach the driver: whether the driver        *)
(* reconnects or not, and whenever it is destroyed.                        *)
THEOREM DriverEndsClean == Spec => []DestroyedIsClosed
  <1>1. LifeInv => DestroyedIsClosed
    <2> SUFFICES ASSUME LifeInv, At(Main, "stopped")
                 PROVE  /\ handle = -1 /\ ~joinable /\ pc[Check] \in {"none", "exited"}
                        /\ lidar \in {"none", "deleted"}
                        /\ reader = "none" /\ packets = 0 /\ ~in_callback
      BY DEF DestroyedIsClosed
    <2>1. handle = -1 /\ ~joinable /\ pc[Check] \in {"none", "exited"}
      BY DEF LifeInv, OneThread, Whereabouts, At, Threads
    <2>2. lidar \in {"none", "deleted"}
      BY <2>1 DEF LifeInv, Whereabouts, At, Threads
    <2> QED BY <2>1, <2>2 DEF LifeInv, Whereabouts, DownIsQuiet, Delivered
  <1> QED BY <1>1, LifeInvariant, PTL
LEMMA SteadyInit == Init => SteadyInv
  BY ConstantAssumption DEF Init, SteadyInv, ConstantAssumption, Threads

(* Main stops the lidar alone.                                            *)
LEMMA SteadyStopping ==
  ASSUME Steady, LifeInv, SteadyInv, NEW t \in Threads,
         FindToStop(t) \/ TestUp(t) \/ PrintStats(t) \/ InputStop(t)
         \/ WaitStarted(t) \/ WaitStopped(t) \/ ShutdownRead(t) \/ ShutdownDeliver(t)
         \/ FinalCleanup(t)
  PROVE  SteadyInv'
  <1> USE ConstantAssumption, AllPlaces
      DEF ConstantAssumption, Threads, Handle, At, InClient, driverVars, poolVars, readVars,
          clientVars, LifeInv, Untouched, JobAndState, StopProgress, DownIsQuiet,
          Whereabouts, OneThread, Delivered, NotReading, Steady, SteadyInv
  <1>1. CASE FindToStop(t)
    <2>1. PICK there \in {"stop?", "close", "clear"} : Goto(t, there)
      BY <1>1 DEF FindToStop
    <2> QED BY <1>1, <2>1, Moves DEF FindToStop
  <1>2. CASE TestUp(t)
    <2>1. PICK there \in {"print_stats", "close"} : Goto(t, there)
      BY <1>2 DEF TestUp
    <2> QED BY <1>2, <2>1, Moves DEF TestUp
  <1>3. CASE PrintStats(t)
    <2>1. last_stage_is_up /\ t = Main
      BY <1>3 DEF PrintStats
    <2> QED BY <1>3, <2>1, Moves DEF PrintStats
  <1>4. CASE InputStop(t)
    BY <1>4, Moves DEF InputStop
  <1>5. CASE WaitStarted(t)
    BY <1>5, Moves DEF WaitStarted
  <1>6. CASE WaitStopped(t)
    BY <1>6, Moves DEF WaitStopped
  <1>7. CASE ShutdownRead(t)
    BY <1>7, Moves DEF ShutdownRead
  <1>8. CASE ShutdownDeliver(t)
    BY <1>8, Moves DEF ShutdownDeliver
  <1>9. CASE FinalCleanup(t)
    BY <1>9, Moves DEF FinalCleanup
  <1> QED BY <1>1, <1>2, <1>3, <1>4, <1>5, <1>6, <1>7, <1>8, <1>9

(* It closes and deletes what nobody else uses.                            *)
LEMMA SteadyClosing ==
  ASSUME Steady, LifeInv, SteadyInv, NEW t \in Threads,
         Down(t) \/ Close(t) \/ Delete(t) \/ Clear(t) \/ Join(t) \/ UseDeleted(t)
  PROVE  SteadyInv'
  <1> USE ConstantAssumption, AllPlaces
      DEF ConstantAssumption, Threads, Handle, At, InClient, driverVars, poolVars, readVars,
          clientVars, LifeInv, Untouched, JobAndState, StopProgress, DownIsQuiet,
          Whereabouts, OneThread, Delivered, NotReading, Steady, SteadyInv
  <1>1. CASE Down(t)
    BY <1>1, Moves DEF Down
  <1>2. CASE Close(t)
    BY <1>2, Moves DEF Close
  <1>3. CASE Delete(t)
    <2>1. state = "INIT" /\ ~last_stage_is_up /\ t = Main
      BY <1>3 DEF Delete
    <2> QED BY <1>3, <2>1, Moves DEF Delete
  <1>4. CASE Clear(t)
    BY <1>4, Moves DEF Clear
  <1>5. CASE Join(t)
    <2>1. t = Main /\ t # Check
      BY <1>5 DEF Join
    <2>2. Goto(t, "stopped") /\ crash' = crash
      BY <1>5, <2>1 DEF Join
    <2> QED BY <1>5, <2>1, <2>2, Moves DEF Join
  <1>6. CASE UseDeleted(t)
    BY <1>6 DEF UseDeleted, InClientPlaces
  <1> QED BY <1>1, <1>2, <1>3, <1>4, <1>5, <1>6

(* The node and the check thread.                                          *)
LEMMA SteadyStarting ==
  ASSUME Steady, LifeInv, SteadyInv, 
         StartLidar \/ Destroy \/ Connect \/ TestStarted
         \/ BeforeReadStart \/ Create \/ AddJob \/ Retry
         \/ StopWatching \/ Reconnect
  PROVE  SteadyInv'
  <1> USE ConstantAssumption, AllPlaces
      DEF ConstantAssumption, Threads, Handle, At, InClient, driverVars, poolVars, readVars,
          clientVars, LifeInv, Untouched, JobAndState, StopProgress, DownIsQuiet,
          Whereabouts, OneThread, Delivered, NotReading, Steady, SteadyInv
  <1>1. CASE StartLidar
    BY <1>1 DEF StartLidar, Goto
  <1>2. CASE Destroy
    BY <1>2, Moves DEF Destroy, Connecting
  <1>3. CASE Connect
    <2>1. PICK there \in {"started?", "failed"} : Goto(Check, there)
      BY <1>3 DEF Connect
    <2> QED BY <1>3, <2>1, Moves DEF Connect
  <1>4. CASE TestStarted
    <2>1. PICK there \in {"watch", "before_read"} : Goto(Check, there)
      BY <1>4 DEF TestStarted
    <2> QED BY <1>4, <2>1, Moves DEF TestStarted
  <1>5. CASE BeforeReadStart
    BY <1>5, Moves DEF BeforeReadStart
  <1>6. CASE Create
    BY <1>6, Moves DEF Create
  <1>7. CASE AddJob
    BY <1>7, Moves DEF AddJob
  <1>8. CASE Retry
    <2>1. PICK there \in {"connect", "watch"} : Goto(Check, there)
      BY <1>8 DEF Retry
    <2> QED BY <1>8, <2>1, Moves DEF Retry
  <1>9. CASE StopWatching
    BY <1>9, Moves DEF StopWatching
  <1>10. CASE Reconnect
    BY <1>10, Moves DEF Reconnect
  <1> QED BY <1>1, <1>2, <1>3, <1>4, <1>5, <1>6, <1>7, <1>8, <1>9, <1>10

(* The read stage and the callbacks.                                       *)
LEMMA SteadyReading ==
  ASSUME Steady, LifeInv, SteadyInv, 
         StartReading \/ ReadPacket \/ ReadEnds \/ ReadFails
         \/ MessageCallback \/ ReadReturns \/ CallbackBegins \/ CallbackEnds
  PROVE  SteadyInv'
  <1> USE ConstantAssumption, AllPlaces
      DEF ConstantAssumption, Threads, Handle, Reads, driverVars, poolVars, readVars,
          clientVars, LifeInv, Untouched, JobAndState, StopProgress, DownIsQuiet,
          Whereabouts, OneThread, Delivered, NotReading, Steady, SteadyInv
  <1>1. CASE StartReading
    BY <1>1 DEF StartReading
  <1>2. CASE ReadPacket
    BY <1>2 DEF ReadPacket
  <1>3. CASE ReadEnds
    BY <1>3 DEF ReadEnds
  <1>4. CASE ReadFails
    BY <1>4 DEF ReadFails
  <1>5. CASE MessageCallback
    BY <1>5 DEF MessageCallback
  <1>6. CASE ReadReturns
    BY <1>6 DEF ReadReturns
  <1>7. CASE CallbackBegins
    BY <1>7 DEF CallbackBegins
  <1>8. CASE CallbackEnds
    BY <1>8 DEF CallbackEnds
  <1> QED BY <1>1, <1>2, <1>3, <1>4, <1>5, <1>6, <1>7, <1>8
(* In a driver that does not reconnect and is not stopped while it         *)
(* connects, no verification of the SDK fails, nothing uses the deleted    *)
(* client, no thread joins itself; and once inno_lidar_stop has returned   *)
(* no callback of the lidar runs.                                          *)
THEOREM SteadyDriver ==
  ASSUME ~ContinueLive, ~StopAnyTime
  PROVE  Spec => [](crash = "none" /\ QuietAfterStop)
  <1>1. LifeInv /\ SteadyInv /\ [Next]_vars => SteadyInv'
    <2> SUFFICES ASSUME LifeInv, SteadyInv, [Next]_vars PROVE SteadyInv'
      OBVIOUS
    <2>0. Steady
      BY DEF Steady
    <2>1. CASE \E t \in Threads : StopStep(t)
      BY <2>0, <2>1, SteadyStopping, SteadyClosing DEF StopStep
    <2>2. CASE StartLidar \/ Destroy \/ CheckStep
      BY <2>0, <2>2, SteadyStarting DEF CheckStep
    <2>3. CASE ReadStep \/ CallbackBegins \/ CallbackEnds
      BY <2>0, <2>3, SteadyReading DEF ReadStep
    <2>4. CASE UNCHANGED vars
      BY <2>4 DEF vars, clientVars, SteadyInv
    <2> QED BY <2>1, <2>2, <2>3, <2>4 DEF Next
  <1>2. LifeInv /\ SteadyInv => crash = "none" /\ QuietAfterStop
    BY DEF LifeInv, SteadyInv, QuietAfterStop, DownIsQuiet, Delivered
  <1> QED BY <1>1, <1>2, SteadyInit, LifeInvariant, PTL DEF Spec
(* Every variable keeps its type, and no more packets than the bound wait  *)
(* to be delivered.                                                        *)
THEOREM LidarTypes == Spec => []TypeOK
  <1> USE ConstantAssumption, AllPlaces
      DEF ConstantAssumption, TypeOK, Threads, Handle, At, InClient, Reads, Crash, Goto,
          driverVars, poolVars, readVars, clientVars
  <1>1. Init => TypeOK
    <2> SUFFICES ASSUME Init PROVE TypeOK
      OBVIOUS
    <2>1. /\ is_running \in BOOLEAN /\ fatal_error \in BOOLEAN /\ joinable \in BOOLEAN
          /\ last_stage_is_up \in BOOLEAN /\ in_callback \in BOOLEAN
          /\ start_flag \in BOOLEAN /\ stopped \in BOOLEAN
      BY Zenon DEF Init
    <2> QED BY <2>1 DEF Init
  <1>2. TypeOK /\ [Next]_vars => TypeOK'
    <2> SUFFICES ASSUME TypeOK, [Next]_vars PROVE TypeOK'
      OBVIOUS
    <2>1. ASSUME NEW t \in Threads, StopStep(t) PROVE TypeOK'
      <3>1. CASE FindToStop(t)
        BY <3>1 DEF FindToStop
      <3>2. CASE TestUp(t)
        BY <3>2 DEF TestUp
      <3>3. CASE PrintStats(t)
        BY <3>3 DEF PrintStats
      <3>4. CASE InputStop(t)
        <4>1. start_flag' \in BOOLEAN
          BY <3>4, Zenon DEF InputStop
        <4> QED BY <3>4, <4>1 DEF InputStop
      <3>5. CASE WaitStarted(t)
        <4>1. start_flag' \in BOOLEAN
          BY <3>5, Zenon DEF WaitStarted
        <4> QED BY <3>5, <4>1 DEF WaitStarted
      <3>6. CASE WaitStopped(t)
        BY <3>6 DEF WaitStopped
      <3>7. CASE ShutdownRead(t)
        BY <3>7 DEF ShutdownRead
      <3>8. CASE ShutdownDeliver(t)
        BY <3>8 DEF ShutdownDeliver
      <3>9. CASE FinalCleanup(t)
        BY <3>9 DEF FinalCleanup
      <3>10. CASE Down(t)
        BY <3>10 DEF Down
      <3>11. CASE Close(t)
        BY <3>11 DEF Close
      <3>12. CASE Delete(t)
        BY <3>12 DEF Delete
      <3>13. CASE Clear(t)
        <4>1. is_running' \in BOOLEAN
          BY <3>13, Zenon DEF Clear
        <4> QED BY <3>13, <4>1 DEF Clear
      <3>14. CASE Join(t)
        <4>1. joinable' \in BOOLEAN
          BY <3>14, Zenon DEF Join
        <4> QED BY <3>14, <4>1 DEF Join
      <3>15. CASE UseDeleted(t)
        BY <3>15 DEF UseDeleted
      <3> QED BY <2>1, <3>1, <3>2, <3>3, <3>4, <3>5, <3>6, <3>7,
                 <3>8, <3>9, <3>10, <3>11, <3>12, <3>13, <3>14, <3>15 DEF StopStep
    <2>2. CASE StartLidar \/ Destroy \/ CheckStep
      <3>1. CASE StartLidar
        <4>1. is_running' \in BOOLEAN /\ joinable' \in BOOLEAN
          BY <3>1, Zenon DEF StartLidar
        <4> QED BY <3>1, <4>1 DEF StartLidar
      <3>2. CASE Destroy
        BY <3>2 DEF Destroy
      <3>3. CASE Connect
        BY <3>3 DEF Connect
      <3>4. CASE TestStarted
        BY <3>4 DEF TestStarted
      <3>5. CASE BeforeReadStart
        BY <3>5 DEF BeforeReadStart
      <3>6. CASE Create
        BY <3>6 DEF Create
      <3>7. CASE AddJob
        BY <3>7 DEF AddJob
      <3>8. CASE Retry
        BY <3>8 DEF Retry
      <3>9. CASE StopWatching
        BY <3>9 DEF StopWatching
      <3>10. CASE Reconnect
        <4>1. fatal_error' \in BOOLEAN
          BY <3>10, Zenon DEF Reconnect
        <4> QED BY <3>10, <4>1 DEF Reconnect
      <3> QED BY <2>2, <3>1, <3>2, <3>3, <3>4, <3>5,
                 <3>6, <3>7, <3>8, <3>9, <3>10 DEF CheckStep
    <2>3. CASE ReadStep \/ CallbackBegins \/ CallbackEnds
      <3>1. CASE StartReading
        <4>1. start_flag' \in BOOLEAN
          BY <3>1, Zenon DEF StartReading
        <4> QED BY <3>1, <4>1 DEF StartReading
      <3>2. CASE ReadPacket
        BY <3>2 DEF ReadPacket
      <3>3. CASE ReadEnds
        BY <3>3 DEF ReadEnds
      <3>4. CASE ReadFails
        BY <3>4 DEF ReadFails
      <3>5. CASE MessageCallback
        BY <3>5 DEF MessageCallback
      <3>6. CASE ReadReturns
        <4>1. start_flag' \in BOOLEAN
          BY <3>6, Zenon DEF ReadReturns
        <4> QED BY <3>6, <4>1 DEF ReadReturns
      <3>7. CASE CallbackBegins
        BY <3>7 DEF CallbackBegins
      <3>8. CASE CallbackEnds
        <4>1. in_callback' \in BOOLEAN
          BY <3>8, Zenon DEF CallbackEnds
        <4> QED BY <3>8, <4>1 DEF CallbackEnds
      <3> QED BY <2>3, <3>1, <3>2, <3>3, <3>4, <3>5, <3>6, <3>7, <3>8 DEF ReadStep
    <2>4. CASE UNCHANGED vars
      BY <2>4 DEF vars
    <2> QED BY <2>1, <2>2, <2>3, <2>4 DEF Next
  <1> QED BY <1>1, <1>2, PTL DEF Spec

-----------------------------------------------------------------------------
(* The reader of UDP packets, for counters of any width and any order of   *)
(* packets, losses and damage: nothing but repeats is left out, what is    *)
(* handed on fills its buffer, the gap test is a distance on a circle, and *)
(* a reader that ends by itself has told why.                              *)

Bounds ==
  /\ max_value_ \in Nat \ {0} /\ max_delta_counter_init_ \in Nat \ {0}
  /\ kFirstPackets \in Nat \ {0} /\ kGetUdpPortIntervals \in Nat \ {0}
  /\ 2 * max_delta_counter_init_ < max_value_

LEMMA BoundsHold == UdpAssumption => Bounds
  BY DEF UdpAssumption, Bounds

-----------------------------------------------------------------------------
(* verify_counter_process, whose edges are cases of their own, against the *)
(* shorter way around the circle of max_value_ + 1 counts.                 *)
LEMMA Wraps ==
  ASSUME NEW M \in Nat \ {0}, NEW a \in 0..(M - 1)
  PROVE  a % M = a /\ (a - M) % M = a
  OBVIOUS

LEMMA Halves == ASSUME NEW M \in Nat PROVE M \div 2 \in Nat /\ 2 * (M \div 2) <= M /\ M <= 2 * (M \div 2) + 1
  OBVIOUS

LEMMA GapIsDistance ==
  ASSUME Bounds, NEW m \in Counts, NEW n \in Counts
  PROVE  verify_counter_process(m, n) <=> Distance(m, n) > max_delta_counter_init_
  <1> DEFINE M == max_value_ + 1
             d == IF m >= n THEN m - n ELSE m - n + M
             half == M \div 2
  <1>1. m \in Nat /\ n \in Nat /\ m < M /\ n < M /\ M \in Nat \ {0}
    BY DEF Bounds, Counts
  <1>2. d \in 0..(M - 1) /\ (m - n = d \/ m - n = d - M)
    BY <1>1
  <1>3. (m - n) % M = d
    <2> HIDE DEF d, M
    <2>1. d % M = d /\ (d - M) % M = d
      BY <1>1, <1>2, Wraps
    <2> QED BY <1>2, <2>1
  <1>4. half \in Nat /\ 2 * half <= M /\ M <= 2 * half + 1
    BY <1>1, Halves
  <1>5. Distance(m, n) = IF d <= half THEN d ELSE M - d
    <2> DEFINE r == (m - n) % M
    <2>1. Distance(m, n) = IF r <= half THEN r ELSE max_value_ + 1 - r
      BY Zenon DEF Distance
    <2>2. r = d /\ max_value_ \in Nat
      BY <1>3 DEF Bounds
    <2> HIDE DEF d, half, r
    <2> QED BY <1>2, <2>1, <2>2
  <1>6. Distance(m, n) > max_delta_counter_init_
          <=> d > max_delta_counter_init_ /\ M - d > max_delta_counter_init_
    <2> HIDE DEF half
    <2> QED BY <1>1, <1>2, <1>4, <1>5 DEF Bounds
  <1>7. verify_counter_process(m, n)
          <=> d > max_delta_counter_init_ /\ M - d > max_delta_counter_init_
    BY <1>1 DEF verify_counter_process, NearEdge, edge_min_value, Abs, Bounds
  <1> QED BY <1>6, <1>7

-----------------------------------------------------------------------------
(* What the counters know of the packets that came: firmware that does not *)
(* count has sent zeros only, and as long as counts are checked the last   *)
(* one is that of the packet that came last.                               *)
Remembered ==
  /\ udp_lidar \in Lidars
  /\ data \in [first : 0..kFirstPackets, last : Counts, zeros : Nat]
  /\ came \in Counts \cup {None}
  /\ gap \subseteq udp_lidar.ports
  /\ udp_lidar.version = 2 => gap = {}
  /\ ~udp_lidar.counts => data.zeros = data.first
  /\ data.first > 0 /\ ~Unchecked => came \in {data.last, None}
  /\ data.first = 0 => came = None /\ data.zeros = 0

ReaderInv == Remembered /\ ~lost /\ ~unsound

LEMMA CountedAfter ==
  ASSUME Bounds, Remembered, NEW n \in Counts, ~udp_lidar.counts => n = 0,
         data' = DataAfter(n), came' \in {n, None}, udp_lidar' = udp_lidar, gap' \subseteq udp_lidar.ports,
         udp_lidar.version = 2 => gap' = {}
  PROVE  Remembered'
  <1> USE DEF Remembered, Bounds, Counts, Unchecked
  <1>1. CASE data.first < kFirstPackets
    <2>1. data' = [first |-> data.first + 1, last |-> n,
                   zeros |-> data.zeros + IF n = 0 THEN 1 ELSE 0]
      BY <1>1 DEF DataAfter
    <2>2. /\ data'.first = data.first + 1 /\ data'.last = n
          /\ data'.zeros = data.zeros + (IF n = 0 THEN 1 ELSE 0)
          /\ data' \in [first : 0..kFirstPackets, last : Counts, zeros : Nat]
      BY <1>1, <2>1
    <2> QED BY <1>1, <2>2
  <1>2. CASE data.first = kFirstPackets /\ data.zeros >= kFirstPackets
    BY <1>2 DEF DataAfter
  <1>3. CASE data.first = kFirstPackets /\ ~(data.zeros >= kFirstPackets)
    <2>1. data' = [data EXCEPT !.last = n]
      BY <1>3 DEF DataAfter
    <2>2. /\ data'.first = data.first /\ data'.last = n /\ data'.zeros = data.zeros
          /\ data' \in [first : 0..kFirstPackets, last : Counts, zeros : Nat]
      BY <2>1
    <2> QED BY <1>3, <2>2
  <1> QED BY <1>1, <1>2, <1>3

(* Only a repeat of the packet that came last is left out.                 *)
LEMMA RepeatIsRepeat ==
  ASSUME Bounds, Remembered, NEW n \in Counts, Sends(n), IsRepeat(n)
  PROVE  udp_lidar.counts /\ n = came
  <1>1. data.first = kFirstPackets /\ data.zeros < kFirstPackets /\ n = data.last
    BY DEF IsRepeat, Unchecked, Remembered, Bounds
  <1>2. udp_lidar.counts
    BY <1>1 DEF Remembered, Bounds
  <1>3. came # None
    BY <1>1, <1>2 DEF Sends, Bounds
  <1>4. came = data.last
    BY <1>1, <1>3 DEF Remembered, Unchecked, Bounds
  <1> QED BY <1>1, <1>2, <1>4

LEMMA Uncalled ==
  ASSUME ReaderInv, UNCHANGED <<udp_lidar, gap, data, came, unsound, lost>>
  PROVE  ReaderInv'
  BY DEF ReaderInv, Remembered, Unchecked

LEMMA InvInit == Bounds /\ UdpInit => ReaderInv
  <1> SUFFICES ASSUME Bounds, UdpInit PROVE ReaderInv
    OBVIOUS
  <1>1. data = [first |-> 0, last |-> 0, zeros |-> 0] /\ came = None /\ gap = {} /\ udp_lidar \in Lidars
        /\ ~lost /\ ~unsound
    BY DEF UdpInit
  <1>2. data \in [first : 0..kFirstPackets, last : Counts, zeros : Nat] /\ data.first = 0 /\ data.zeros = 0
    BY <1>1 DEF Bounds, Counts
  <1> QED BY <1>1, <1>2 DEF ReaderInv, Remembered

LEMMA HandedOnWhole ==
  ASSUME NEW t, ~unsound, HandOn(t), udp_lidar.version = 1 <=> t \in gap
  PROVE  ~unsound'
  <1>1. CASE udp_lidar.version = 1
    <2>1. (udp_lidar.version = 1) = TRUE /\ (t \in gap) = TRUE
      BY <1>1
    <2> QED BY <2>1 DEF HandOn
  <1>2. CASE udp_lidar.version # 1
    <2>1. (udp_lidar.version = 1) = FALSE /\ (t \in gap) = FALSE
      BY <1>2
    <2> QED BY <2>1 DEF HandOn
  <1> QED BY <1>1, <1>2

LEMMA InvStep == Bounds /\ ReaderInv /\ [UdpNext]_udpVars => ReaderInv'
  <1> SUFFICES ASSUME Bounds, ReaderInv, [UdpNext]_udpVars PROVE ReaderInv'
    OBVIOUS
  <1> USE DEF readerVars, counterVars, historyVars
  <1>1. /\ Remembered /\ ~lost /\ ~unsound /\ udp_lidar.version \in {1, 2}
        /\ udp_lidar.version = 2 => gap = {}
    BY DEF ReaderInv, Remembered, Lidars
  <1>2. ASSUME NEW t \in udp_lidar.ports, NEW n \in Counts, DataPacket(t, n) PROVE ReaderInv'
    <2>1. Sends(n) /\ data' = DataAfter(n) /\ came' = n /\ udp_lidar' = udp_lidar
          /\ gap' = (IF ~IsRepeat(n) /\ MakesGap(t) THEN gap \cup {t} ELSE gap)
      BY <1>2 DEF DataPacket, Goes
    <2>2. ~udp_lidar.counts => n = 0
      BY <2>1 DEF Sends
    <2>3. gap' \subseteq udp_lidar.ports /\ (udp_lidar.version = 2 => gap' = {})
      BY <1>1, <2>1 DEF Remembered, MakesGap
    <2>4. Remembered'
      BY <1>1, <2>1, <2>2, <2>3, CountedAfter
    <2>5. CASE IsRepeat(n) \/ MakesGap(t)
      <3>1. (udp_lidar.counts /\ n = came) \/ (udp_lidar.version = 1 /\ t \notin gap)
        BY <1>1, <2>1, <2>5, RepeatIsRepeat DEF MakesGap, Converts
      <3>2. ~lost' /\ ~unsound'
        BY <1>1, <1>2, <2>5, <3>1 DEF DataPacket, LeaveOut
      <3> QED BY <2>4, <3>2 DEF ReaderInv
    <2>6. CASE ~(IsRepeat(n) \/ MakesGap(t))
      <3>1. ~lost' /\ ~unsound'
        <4>1. HandOn(t) /\ lost' = lost /\ (udp_lidar.version = 1 <=> t \in gap)
          BY <1>1, <1>2, <2>6 DEF DataPacket, MakesGap, Converts
        <4> QED BY <1>1, <4>1, HandedOnWhole
      <3> QED BY <2>4, <3>1 DEF ReaderInv
    <2> QED BY <2>5, <2>6
  <1>3. ASSUME NEW t \in udp_lidar.ports, NEW n \in Counts, BadPacket(t, n) PROVE ReaderInv'
    <2>1. data' = DataAfter(n) /\ came' = None /\ udp_lidar' = udp_lidar /\ (~udp_lidar.counts => n = 0)
          /\ UNCHANGED <<gap, unsound, lost>>
      BY <1>3 DEF BadPacket, Goes
    <2>2. Remembered'
      BY <1>1, <2>1, CountedAfter DEF Remembered
    <2> QED BY <1>1, <2>1, <2>2 DEF ReaderInv
  <1>4. ASSUME NEW t \in udp_lidar.ports, Uncounted(t) PROVE ReaderInv'
    <2>1. UNCHANGED <<data, came, lost, udp_lidar>>
          /\ gap' \subseteq udp_lidar.ports /\ (udp_lidar.version = 2 => gap' = {})
      BY <1>1, <1>4 DEF Uncounted, Goes, MakesGap, Converts, Remembered
    <2>2. CASE MakesGap(t)
      BY <1>1, <1>4, <2>1, <2>2 DEF Uncounted, ReaderInv, Remembered, Unchecked
    <2>3. CASE ~MakesGap(t)
      <3>1. HandOn(t) /\ (udp_lidar.version = 1 <=> t \in gap)
        BY <1>1, <1>4, <2>3 DEF Uncounted, MakesGap, Converts
      <3>2. ~unsound'
        BY <1>1, <3>1, HandedOnWhole
      <3> QED BY <1>1, <2>1, <3>2 DEF ReaderInv, Remembered, Unchecked
    <2> QED BY <2>2, <2>3
  <1>5. ASSUME NEW t \in udp_lidar.ports, NEW n \in Counts, StatusPacket(t, n) PROVE ReaderInv'
    <2>1. UNCHANGED <<data, came, lost, udp_lidar, gap>>
          /\ (unsound' = unsound \/ HandOn(t)) /\ udp_lidar.version = 2
      BY <1>5 DEF StatusPacket, Goes
    <2>2. ~unsound'
      BY <1>1, <2>1, HandedOnWhole
    <2> QED BY <1>1, <2>1, <2>2 DEF ReaderInv, Remembered, Unchecked
  <1>6. ASSUME NEW t \in udp_lidar.ports, Bind(t) \/ TestStart(t) \/ Ignore(t) PROVE ReaderInv'
    BY <1>6, Uncalled DEF Bind, TestStart, Ignore, Goes
  <1>7. CASE StopInput \/ Reader
    BY <1>7, Uncalled DEF StopInput, Reader, NoPorts, FirstRound, SecondRound, Joined
  <1>8. CASE Returned \/ UNCHANGED udpVars
    BY <1>8, Uncalled DEF Returned, udpVars
  <1> QED BY <1>2, <1>3, <1>4, <1>5, <1>6, <1>7, <1>8 DEF UdpNext, Thread

(* A good data packet is left out only if it repeats the one before it or  *)
(* makes the gap, what is handed on fills its buffer, and the gaps that    *)
(* are counted are gaps: for counters of any width.                        *)
THEOREM RepeatsOnly ==
  ASSUME UdpAssumption
  PROVE  UdpSpec => []OnlyRepeatsAreLeftOut
  <1>1. Bounds
    BY UdpAssumption, BoundsHold
  <1>2. UdpInit => ReaderInv
    BY <1>1, InvInit
  <1>3. ReaderInv /\ [UdpNext]_udpVars => ReaderInv'
    BY <1>1, InvStep
  <1>4. ReaderInv => OnlyRepeatsAreLeftOut
    <2>1. ReaderInv => GapsAreGaps
      BY <1>1, GapIsDistance DEF ReaderInv, Remembered, GapsAreGaps
    <2> QED BY <2>1 DEF ReaderInv, OnlyRepeatsAreLeftOut, PacketsFillTheirBuffers
  <1> QED BY <1>2, <1>3, <1>4, PTL DEF UdpSpec

-----------------------------------------------------------------------------
(* EndIsTold.  A thread ends only when the reader was told to stop, and    *)
(* one that could not bind its port stays that way.                        *)
Ends ==
  /\ DOMAIN thread = udp_lidar.ports /\ udp_lidar.ports # {}
  /\ udp_reader = "error" => fatal
  /\ udp_reader \in {"ports", "join", "returned", "error"}
  /\ udp_start_flag_ => \A t \in udp_lidar.ports : thread[t] # "ended"
  /\ udp_reader = "returned" /\ udp_start_flag_ => \E t \in udp_lidar.ports : thread[t] = "unbound"

LEMMA ErrorIsFatal ==
  ASSUME Return("error")
  PROVE  fatal' /\ udp_reader' = "error"
  BY Zenon DEF Return

LEMMA EndsStep == Ends /\ [UdpNext]_udpVars => Ends'
  <1> SUFFICES ASSUME Ends, [UdpNext]_udpVars PROVE Ends'
    OBVIOUS
  <1> USE DEF readerVars, counterVars, historyVars
  <1>1. ASSUME NEW t \in udp_lidar.ports, Thread(t) PROVE Ends'
    <2>1. PICK to : /\ thread[t] \in {"bind", "test", "recv"} /\ thread' = [thread EXCEPT ![t] = to]
                    /\ (to = "ended" => ~udp_start_flag_)
                    /\ UNCHANGED <<udp_lidar, udp_start_flag_, udp_reader, fatal>>
      BY <1>1 DEF Thread, Bind, TestStart, Ignore, Uncounted, DataPacket, StatusPacket, BadPacket, Goes
    <2> QED BY <2>1 DEF Ends
  <1>2. CASE StopInput
    BY <1>2 DEF StopInput, Ends
  <1>3. CASE NoPorts \/ FirstRound
    <2>1. \/ Return("error")
          \/ udp_reader' = "returned" /\ ~udp_start_flag_
          \/ udp_reader' = "ports"
      BY <1>3 DEF NoPorts, FirstRound, Return
    <2>2. UNCHANGED <<udp_lidar, udp_start_flag_, thread>>
      BY <1>3 DEF NoPorts, FirstRound
    <2> QED BY <2>1, <2>2, ErrorIsFatal DEF Ends
  <1>4. CASE SecondRound
    <2>1. CASE Return("error") /\ thread' = thread
      BY <1>4, <2>1, ErrorIsFatal DEF SecondRound, Ends
    <2>2. CASE udp_reader' = "join" /\ thread' = [t \in udp_lidar.ports |-> "bind"]
      BY <1>4, <2>2 DEF SecondRound, Ends
    <2> QED BY <1>4, <2>1, <2>2 DEF SecondRound
  <1>5. CASE Joined
    <2>1. udp_start_flag_ => \E t \in udp_lidar.ports : thread[t] = "unbound"
      BY <1>5 DEF Joined, Ends
    <2> QED BY <1>5, <2>1 DEF Joined, Return, Ends
  <1>6. CASE Returned \/ UNCHANGED udpVars
    BY <1>6 DEF Returned, udpVars, Ends
  <1> QED BY <1>1, <1>2, <1>3, <1>4, <1>5, <1>6 DEF UdpNext, Reader

(* A reader that returns by itself has told why, or could not bind a port. *)
THEOREM EndTold == UdpSpec => []EndIsTold
  <1>1. UdpInit => Ends
    <2>1. \A x \in Lidars : x.ports # {}
      BY DEF Lidars, Kinds
    <2> QED BY <2>1 DEF UdpInit, Ends
  <1>2. Ends => EndIsTold
    BY DEF Ends, EndIsTold
  <1> QED BY <1>1, <1>2, EndsStep, PTL DEF UdpSpec

-----------------------------------------------------------------------------
(* The recorder of raw data, for messages of any length.                   *)

(* What the saver wrote rises, stays below the id that is expected, and is *)
(* the beginning of the message until a gap is seen; the id that is about  *)
(* to be written is above all that was.                                    *)
Rises(s)      == \A i, j \in DOMAIN s : i < j => s[i] < s[j]
AllBelow(s, id) == \A i \in DOMAIN s : s[i] < id
IsBeginning(s) == \A i \in DOMAIN s : s[i] = i - 1

SaverInv ==
  /\ cache_ \subseteq Ids /\ expect_id_ \in Nat
  /\ packet \in Ids \cup {NoId} /\ (receiver \in {"add", "cache"} => packet \in Ids)
  /\ saved \in Seq(Ids) /\ Rises(saved) /\ AllBelow(saved, expect_id_)
  /\ flush = "save" => eid \in Ids /\ eid < expect_id_ /\ AllBelow(saved, eid)
  /\ ~incomplete_ => IsBeginning(saved)

FilesInv == SaverInv /\ FilesAreGapless
(* The least of a set of numbers is one of them.                           *)
LEMMA LeastNumber ==
  ASSUME NEW T, T \subseteq Nat, T # {}
  PROVE  \E n \in T : \A m \in T : n <= m
<1> DEFINE R == OpToRel(<, Nat)
<1>1. IsWellFoundedOn(R, Nat)
  BY NatLessThanWellFounded, Zenon
<1>2. \E x \in T : \A y \in T : ~ (<<y, x>> \in R)
  <2> HIDE DEF R
  <2> QED  BY <1>1, WFMin
<1>3. \A x, y \in Nat : y < x => <<y, x>> \in R
  BY DEF OpToRel
<1> HIDE DEF R
<1>4. PICK x \in T : \A y \in T : ~ (<<y, x>> \in R)
  BY <1>2
<1>5. \A y \in T : x <= y
  <2> SUFFICES ASSUME NEW y \in T PROVE x <= y
    OBVIOUS
  <2>1. x \in Nat /\ y \in Nat
    OBVIOUS
  <2>2. ~ (y < x)
    BY <2>1, <1>3, <1>4
  <2> QED  BY <2>1, <2>2
<1> QED  BY <1>5

LEMMA AppendRises ==
  ASSUME NEW s \in Seq(Int), NEW id \in Int, Rises(s), AllBelow(s, id)
  PROVE  Rises(Append(s, id)) /\ AllBelow(Append(s, id), id + 1)
  <1>1. /\ Len(s) \in Nat /\ DOMAIN s = 1..Len(s) /\ DOMAIN Append(s, id) = 1..(Len(s) + 1)
        /\ Append(s, id)[Len(s) + 1] = id
        /\ \A i \in 1..Len(s) : Append(s, id)[i] = s[i] /\ s[i] \in Int
    BY LenProperties, AppendProperties, ElementOfSeq
  <1>2. \A i \in 1..(Len(s) + 1) : i = Len(s) + 1 \/ i \in 1..Len(s)
    BY <1>1
  <1>3. ASSUME NEW i \in 1..(Len(s) + 1), NEW j \in 1..(Len(s) + 1), i < j
        PROVE  Append(s, id)[i] < Append(s, id)[j]
    <2>1. i \in 1..Len(s)
      BY <1>1, <1>3
    <2> QED BY <1>1, <1>2, <1>3, <2>1 DEF Rises, AllBelow
  <1>4. ASSUME NEW i \in 1..(Len(s) + 1) PROVE Append(s, id)[i] < id + 1
    BY <1>1, <1>2 DEF AllBelow
  <1>5. Rises(Append(s, id))
    BY <1>1, <1>3 DEF Rises
  <1> QED BY <1>1, <1>4, <1>5 DEF AllBelow

LEMMA AppendBegins ==
  ASSUME NEW s \in Seq(Int), NEW id \in Int, IsBeginning(s),
         id = IF s = <<>> THEN 0 ELSE s[Len(s)] + 1
  PROVE  IsBeginning(Append(s, id))
  <1>1. /\ Len(s) \in Nat /\ DOMAIN s = 1..Len(s) /\ DOMAIN Append(s, id) = 1..(Len(s) + 1)
        /\ Append(s, id)[Len(s) + 1] = id
        /\ \A i \in 1..Len(s) : Append(s, id)[i] = s[i]
    BY LenProperties, AppendProperties
  <1>2. \A i \in 1..(Len(s) + 1) : i = Len(s) + 1 \/ i \in 1..Len(s)
    BY <1>1
  <1>3. id = Len(s)
    <2>1. CASE s = <<>>
      BY <2>1, EmptySeq
    <2>2. CASE s # <<>>
      <3>1. Len(s) \in 1..Len(s)
        BY <1>1, <2>2, EmptySeq
      <3> QED BY <1>1, <2>2, <3>1 DEF IsBeginning
    <2> QED BY <2>1, <2>2
  <1> QED BY <1>1, <1>2, <1>3 DEF IsBeginning

(* The search for the next id goes up.                                     *)
LEMMA SkipsForward ==
  ASSUME RawAssumption, cache_ \subseteq Ids, expect_id_ \in Nat, SkipMissing
  PROVE  expect_id_' \in Nat /\ expect_id_' >= expect_id_
  <1>1. Cardinality(cache_) \in Nat
    <2>1. IsFiniteSet(Ids)
      BY FS_Interval DEF Ids, RawAssumption
    <2> QED BY <2>1, FS_Subset, FS_CardinalityType
  <1>2. CASE Reached = {}
    BY <1>1, <1>2 DEF SkipMissing
  <1>3. CASE Reached # {}
    <2>1. \A n \in Reached : n \in Nat /\ n > expect_id_
      BY DEF Reached, Ids, RawAssumption
    <2>2. \E id \in Reached : \A other \in Reached : id <= other
      BY <1>3, <2>1, LeastNumber
    <2>3. expect_id_' = CHOOSE id \in Reached : \A other \in Reached : id <= other
      BY <1>3 DEF SkipMissing
    <2>4. expect_id_' \in Reached
      BY <2>2, <2>3
    <2> QED BY <2>1, <2>4
  <1> QED BY <1>2, <1>3

LEMMA Unsaved ==
  ASSUME FilesInv, UNCHANGED <<cache_, expect_id_, eid, saved, incomplete_, files>>,
         packet' \in Ids \cup {NoId}, receiver' \in {"add", "cache"} => packet' \in Ids,
         flush' = "save" => flush = "save"
  PROVE  FilesInv'
  BY DEF FilesInv, SaverInv, FilesAreGapless, Rises, AllBelow, IsBeginning

LEMMA FilesInit == RawAssumption /\ RawInit => FilesInv
  <1> SUFFICES ASSUME RawAssumption, RawInit PROVE FilesInv
    OBVIOUS
  <1>1. saved = <<>> /\ DOMAIN saved = {}
    BY EmptySeq DEF RawInit
  <1> QED BY <1>1 DEF RawInit, FilesInv, SaverInv, FilesAreGapless, Rises, AllBelow, IsBeginning, NoId, Ids

LEMMA FilesStep == RawAssumption /\ FilesInv /\ [RawNext]_rawVars => FilesInv'
  <1> SUFFICES ASSUME RawAssumption, FilesInv, [RawNext]_rawVars PROVE FilesInv'
    OBVIOUS
  <1> USE DEF receiverVars, flushVars, savedVars
  <1>1. CASE Shutdown \/ NotifyTimer \/ CleanMap \/ ShutdownSaver \/ ReceiverEnds
    BY <1>1, Unsaved DEF Shutdown, NotifyTimer, CleanMap, ShutdownSaver, ReceiverEnds, FilesInv, SaverInv
  <1>2. CASE FirstPacket \/ NextPacket
    BY <1>2, Unsaved DEF FirstPacket, NextPacket
  <1>3. CASE CacheData
    <2>1. cache_' \subseteq Ids
      BY <1>3 DEF CacheData, FilesInv, SaverInv
    <2> QED BY <1>3, <2>1
            DEF CacheData, FilesInv, SaverInv, FilesAreGapless, Rises, AllBelow, IsBeginning
  <1>4. CASE DeleteSaver
    <2>1. /\ saved' = <<>> /\ cache_' = {} /\ expect_id_' = 0 /\ flush' = "none" /\ receiver' = "recv"
          /\ packet' = packet /\ files' = files
      BY <1>4, Zenon DEF DeleteSaver
    <2>2. DOMAIN <<>> = {} /\ <<>> \in Seq(Ids)
      BY EmptySeq
    <2>3. SaverInv'
      BY <2>1, <2>2 DEF FilesInv, SaverInv, Rises, AllBelow, IsBeginning
    <2> QED BY <2>1, <2>3 DEF FilesInv, FilesAreGapless
  <1>5. CASE FlushTest \/ FlushWait
    BY <1>5, Unsaved DEF FlushTest, FlushWait, FilesInv, SaverInv
  <1>6. CASE TakeExpected
    <2>1. /\ UNCHANGED <<cache_, saved, incomplete_, files, packet, receiver>>
          /\ eid' = expect_id_ /\ expect_id_' = expect_id_ + 1 /\ eid' \in Ids
      BY <1>6 DEF TakeExpected, FilesInv, SaverInv
    <2>2. \A i \in DOMAIN saved : saved[i] \in Int
      BY ElementOfSeq, LenProperties DEF FilesInv, SaverInv, Ids, RawAssumption
    <2>3. AllBelow(saved, eid') /\ AllBelow(saved, expect_id_') /\ eid' < expect_id_' /\ expect_id_' \in Nat
      BY <2>1, <2>2 DEF FilesInv, SaverInv, AllBelow
    <2> QED BY <2>1, <2>3
            DEF FilesInv, SaverInv, FilesAreGapless, Rises, AllBelow, IsBeginning
  <1>7. CASE SkipMissing
    <2>1. /\ UNCHANGED <<cache_, saved, incomplete_, files, packet, receiver>> /\ flush' # "save"
          /\ expect_id_' \in Nat /\ expect_id_' >= expect_id_
      BY <1>7, SkipsForward DEF SkipMissing, FilesInv, SaverInv
    <2>2. \A i \in DOMAIN saved : saved[i] \in Int
      BY ElementOfSeq, LenProperties DEF FilesInv, SaverInv, Ids, RawAssumption
    <2>3. AllBelow(saved, expect_id_')
      BY <2>1, <2>2 DEF FilesInv, SaverInv, AllBelow
    <2> QED BY <2>1, <2>3
            DEF FilesInv, SaverInv, FilesAreGapless, Rises, AllBelow, IsBeginning
  <1>8. CASE Save
    <2>1. /\ UNCHANGED <<expect_id_, files, packet, receiver>> /\ flush' # "save"
          /\ cache_' \subseteq Ids /\ (saved' = saved \/ saved' = Append(saved, eid))
          /\ incomplete_' = (incomplete_ \/ IsGap(eid))
      BY <1>8 DEF Save, FilesInv, SaverInv
    <2>2. /\ saved \in Seq(Ids) /\ saved \in Seq(Int) /\ eid \in Ids /\ eid \in Int /\ expect_id_ \in Nat
          /\ eid < expect_id_ /\ Rises(saved) /\ AllBelow(saved, eid) /\ AllBelow(saved, expect_id_)
          /\ ~incomplete_ => IsBeginning(saved)
      BY <1>8 DEF Save, FilesInv, SaverInv, Ids, RawAssumption
    <2>3. CASE saved' = saved
      BY <2>1, <2>2, <2>3 DEF FilesInv, SaverInv, FilesAreGapless, Rises, AllBelow, IsBeginning
    <2>4. CASE saved' = Append(saved, eid)
      <3>1. saved' \in Seq(Ids) /\ Rises(saved') /\ AllBelow(saved', eid + 1)
        BY <2>2, <2>4, AppendRises, AppendProperties
      <3>2. AllBelow(saved', expect_id_')
        <4>1. \A i \in DOMAIN saved' : saved'[i] \in Int
          BY <3>1, ElementOfSeq, LenProperties DEF Ids, RawAssumption
        <4> QED BY <2>1, <2>2, <3>1, <4>1 DEF AllBelow, Ids, RawAssumption
      <3>3. ~incomplete_' => IsBeginning(saved')
        BY <2>1, <2>2, <2>4, AppendBegins DEF IsGap
      <3> QED BY <2>1, <2>2, <3>1, <3>2, <3>3
              DEF FilesInv, SaverInv, FilesAreGapless, Rises, AllBelow, IsBeginning
    <2> QED BY <2>1, <2>3, <2>4
  <1>9. CASE Finish
    <2>1. /\ UNCHANGED <<cache_, expect_id_, eid, saved, incomplete_, packet, receiver>> /\ flush' # "save"
          /\ files' = files \cup {[saved |-> saved, incomplete |-> incomplete_]}
      BY <1>9 DEF Finish
    <2>2. FilesAreGapless'
      BY <2>1 DEF FilesInv, SaverInv, FilesAreGapless, Rises, IsBeginning
    <2> QED BY <2>1, <2>2 DEF FilesInv, SaverInv, Rises, AllBelow, IsBeginning
  <1>10. CASE ClearCache
    <2>1. UNCHANGED <<expect_id_, eid, saved, incomplete_, files, packet, receiver>> /\ flush' # "save" /\ cache_' = {}
      BY <1>10 DEF ClearCache
    <2> QED BY <2>1 DEF FilesInv, SaverInv, FilesAreGapless, Rises, AllBelow, IsBeginning
  <1>11. CASE Timer
    BY <1>11, Unsaved DEF Timer, TimerReads, TimerWaits, TimedOut, TimerEnds, FilesInv, SaverInv
  <1>12. CASE UNCHANGED rawVars
    BY <1>12, Unsaved DEF rawVars, FilesInv, SaverInv
  <1> QED BY <1>1, <1>2, <1>3, <1>4, <1>5, <1>6, <1>7, <1>8, <1>9, <1>10, <1>11, <1>12
          DEF RawNext, Packets, Receiver, Flush, Ended

(* A file of raw data holds each packet once and in order, and one that    *)
(* does not say it is incomplete has no gap: for messages of any length,   *)
(* whatever is lost, comes twice or cannot be written.                     *)
THEOREM FilesGapless ==
  ASSUME RawAssumption
  PROVE  RawSpec => []FilesAreGapless
  <1>1. RawInit => FilesInv
    BY RawAssumption, FilesInit
  <1>2. FilesInv /\ [RawNext]_rawVars => FilesInv'
    BY RawAssumption, FilesStep
  <1>3. FilesInv => FilesAreGapless
    BY DEF FilesInv
  <1> QED BY <1>1, <1>2, <1>3, PTL DEF RawSpec
-----------------------------------------------------------------------------
(* The reader of a file or a connection, for streams of any length, any    *)
(* number of rounds and any timestamps.                                    *)

(* While a file is played a round is left, and a reader that was not told  *)
(* to stop says nothing before it has played them all.                     *)
RoundsInv ==
  /\ settings \in Settings /\ start_flag_ \in BOOLEAN /\ play_round_ \in Nat
  /\ settings.source = "FILE" =>
       /\ play_round_ <= settings.rewind + 1
       /\ file_reader \in {"reading", "paced"} => play_round_ <= settings.rewind
       /\ start_flag_ /\ file_reader # "ended" => messages = <<>>
       /\ start_flag_ /\ file_reader = "ended"
            => play_round_ = settings.rewind + 1 /\ messages = <<"file_end">>

(* The position is in the stream or just behind it.                        *)
HandedInv ==
  /\ stream \in Streams /\ at \in 1..(Len(stream) + 1) /\ out \in Seq(Int)
  /\ EveryPacketOnce

(* The clock never runs behind a rate in bytes; with recorded times it     *)
(* stands until the first timestamp, and is then at most a jump ahead of   *)
(* the start, whatever the timestamps do.                                  *)
PaceInv ==
  /\ latest_data_us_ \in Nat /\ first_data_us_ \in Nat /\ total_received \in Nat
  /\ now \in Nat /\ start_time_us_ \in Nat
  /\ settings.pace = "bytes" => now - start_time_us_ >= total_received
  /\ settings.pace = "times" =>
       IF first_data_us_ = 0 THEN now = start_time_us_
       ELSE /\ now >= start_time_us_ /\ now - start_time_us_ <= MaxJump
            /\ file_reader = "reading"
                 => now - start_time_us_ >= latest_data_us_ - first_data_us_

LEMMA RoundsInit == FileAssumption /\ FileInit => RoundsInv
  <1> SUFFICES ASSUME FileAssumption, FileInit PROVE RoundsInv
    OBVIOUS
  <1>1. settings.rewind \in Nat
    BY DEF FileInit, Settings, FileAssumption
  <1> QED BY <1>1 DEF FileInit, RoundsInv

LEMMA RoundsStep == FileAssumption /\ RoundsInv /\ [FileNext]_fileVars => RoundsInv'
  <1> SUFFICES ASSUME FileAssumption, RoundsInv, [FileNext]_fileVars PROVE RoundsInv'
    OBVIOUS
  <1> USE DEF inputVars, paceVars
  <1>1. settings.rewind \in Nat
    BY DEF RoundsInv, Settings, FileAssumption
  <1>2. CASE StopFile
    BY <1>2 DEF StopFile, RoundsInv
  <1>3. CASE FileEnd
    <2>1. Append(<<>>, "file_end") = <<"file_end">>
      OBVIOUS
    <2>2. /\ settings.source = "FILE" /\ file_reader # "ended" /\ file_reader' = "ended"
          /\ play_round_ >= settings.rewind + 1 /\ messages' = Append(messages, "file_end")
          /\ UNCHANGED <<settings, start_flag_, play_round_>>
      BY <1>3 DEF FileEnd, PlayedOut, Tell
    <2>3. start_flag_ => messages' = <<"file_end">>
      BY <2>1, <2>2 DEF RoundsInv
    <2>4. play_round_ = settings.rewind + 1
      BY <1>1, <2>2 DEF RoundsInv
    <2> QED BY <2>2, <2>3, <2>4 DEF RoundsInv
  <1>4. CASE OpenFile
    BY <1>1, <1>4 DEF OpenFile, PlayedOut, RoundsInv
  <1>5. CASE CannotOpen
    BY <1>5 DEF CannotOpen, RoundsInv
  <1>6. CASE AfterRound
    BY <1>6 DEF AfterRound, RoundsInv
  <1>7. ASSUME NEW outcome \in {"played", "failed"}, EndRound(outcome), file_reader = "reading",
               UNCHANGED <<settings, start_flag_>>
        PROVE  RoundsInv'
    BY <1>1, <1>7 DEF EndRound, RoundsInv
  <1>8. CASE StopReading
    BY <1>7, <1>8 DEF StopReading
  <1>9. CASE EndOfStream
    BY <1>7, <1>9 DEF EndOfStream
  <1>10. CASE TakePacket \/ Pace
    <2>1. /\ file_reader \in {"reading", "paced"} /\ file_reader' \in {"reading", "paced"}
          /\ UNCHANGED <<settings, start_flag_, play_round_, messages>>
      BY <1>10 DEF TakePacket, Pace
    <2> QED BY <2>1 DEF RoundsInv
  <1>11. CASE FileReturned \/ UNCHANGED fileVars
    BY <1>11 DEF FileReturned, fileVars, RoundsInv
  <1> QED BY <1>2, <1>3, <1>4, <1>5, <1>6, <1>8, <1>9, <1>10, <1>11 DEF FileNext, FileReader

(* A stream is a sequence of packets.                                      *)
LEMMA StreamIsSequence ==
  ASSUME FileAssumption, NEW s \in Streams
  PROVE  /\ Len(s) \in Nat /\ DOMAIN s = 1..Len(s)
         /\ \A i \in 1..Len(s) : s[i] \in DataPackets \cup OtherPackets
  <1>1. PICK n \in 0..MaxLength : s \in [1..n -> DataPackets \cup OtherPackets]
    BY DEF Streams
  <1>2. n \in Nat
    BY DEF FileAssumption
  <1>3. s \in Seq(DataPackets \cup OtherPackets)
    BY <1>1, <1>2
  <1>4. Len(s) = n /\ DOMAIN s = 1..n
    BY <1>1, <1>2, <1>3, LenProperties
  <1> QED BY <1>1, <1>2, <1>4

LEMMA AppendRange ==
  ASSUME NEW s \in Seq(Int), NEW n \in Int
  PROVE  {Append(s, n)[k] : k \in DOMAIN Append(s, n)} = {s[k] : k \in DOMAIN s} \cup {n}
  <1>1. /\ Len(s) \in Nat /\ DOMAIN s = 1..Len(s) /\ DOMAIN Append(s, n) = 1..(Len(s) + 1)
        /\ Append(s, n)[Len(s) + 1] = n
        /\ \A k \in 1..Len(s) : Append(s, n)[k] = s[k]
    BY LenProperties, AppendProperties
  <1>2. 1..(Len(s) + 1) = 1..Len(s) \cup {Len(s) + 1}
    BY <1>1
  <1> QED BY <1>1, <1>2

LEMMA HandedInit == FileAssumption /\ FileInit => HandedInv
  <1> SUFFICES ASSUME FileAssumption, FileInit PROVE HandedInv
    OBVIOUS
  <1>1. Len(stream) \in Nat
    BY StreamIsSequence DEF FileInit
  <1>2. out = <<>> /\ DOMAIN out = {} /\ out \in Seq(Int)
    BY EmptySeq DEF FileInit
  <1>3. 1..(at - 1) = {}
    BY DEF FileInit
  <1> QED BY <1>1, <1>2, <1>3 DEF FileInit, HandedInv, EveryPacketOnce

(* A step that takes no packet leaves what was handed on.                  *)
LEMMA NothingTaken ==
  ASSUME HandedInv, UNCHANGED <<stream, at, out>>, file_reader' # "paced",
         buffers' = {} \/ file_reader' = "reading"
  PROVE  HandedInv'
  BY DEF HandedInv, EveryPacketOnce, Passes

(* What is handed on with a packet that is taken.                          *)
LEMMA PacketTaken ==
  ASSUME FileAssumption, HandedInv, TakePacket
  PROVE  HandedInv'
  <1> DEFINE Good(i) == stream[i].kind \in Buffered /\ Passes(stream[i])
             before  == {out[k] : k \in DOMAIN out}
  <1>1. /\ at \in Nat /\ at >= 1 /\ at <= Len(stream) /\ Len(stream) \in Nat
        /\ at' = at + 1 /\ stream' = stream /\ file_reader' = "paced"
    <2>1. Len(stream) \in Nat /\ at \in 1..(Len(stream) + 1)
      BY StreamIsSequence DEF HandedInv
    <2>2. /\ ~(at > Len(stream)) /\ at' = at + 1 /\ file_reader' = "paced"
          /\ UNCHANGED inputVars
      BY Zenon DEF TakePacket, AtEnd
    <2> QED BY <2>1, <2>2 DEF inputVars
  <1>2. /\ Len(out) \in Nat /\ DOMAIN out = 1..Len(out) /\ (out # <<>> => Len(out) \in 1..Len(out))
        /\ out \in Seq(Int)
    BY LenProperties, EmptySeq DEF HandedInv
  <1>3. before = {i \in 1..(at - 1) : Good(i)}
    BY DEF HandedInv, EveryPacketOnce
  <1>4. 1..(at' - 1) = 1..(at - 1) \cup {at}
    BY <1>1
  <1>5. AllBelow(out, at) /\ Rises(out)
    <2>1. \A k \in DOMAIN out : out[k] \in 1..(at - 1)
      <3> HIDE DEF Good
      <3> QED BY <1>3
    <2> QED BY <1>1, <2>1 DEF AllBelow, Rises, HandedInv, EveryPacketOnce
  <1>6. /\ out' = IF Good(at) THEN Append(out, at) ELSE out
        /\ Good(at) => buffers' = Buffered \ {stream[at].kind}
    BY DEF TakePacket, HandedOn
  <1>7. /\ out' \in Seq(Int) /\ Rises(out')
        /\ {out'[k] : k \in DOMAIN out'} = {i \in 1..(at' - 1) : Good(i)}
    <2> HIDE DEF Good
    <2>1. CASE Good(at)
      <3>1. out' = Append(out, at) /\ at \in Int
        BY <1>1, <1>6, <2>1
      <3>2. out' \in Seq(Int)
        BY <1>2, <3>1, AppendProperties
      <3>3. Rises(Append(out, at))
        BY <1>2, <1>5, <3>1, AppendRises
      <3>4. {Append(out, at)[k] : k \in DOMAIN Append(out, at)} = before \cup {at}
        BY <1>2, <3>1, AppendRange
      <3>5. before \cup {at} = {i \in 1..(at' - 1) : Good(i)}
        <4> HIDE DEF before
        <4> QED BY <1>3, <1>4, <2>1
      <3> QED BY <3>1, <3>2, <3>3, <3>4, <3>5
    <2>2. CASE ~Good(at)
      <3>1. before = {i \in 1..(at' - 1) : Good(i)}
        <4> HIDE DEF before
        <4> QED BY <1>3, <1>4, <2>2
      <3> QED BY <1>2, <1>5, <1>6, <2>2, <3>1
    <2> QED BY <2>1, <2>2
  <1>8. out' # <<>> /\ out'[Len(out')] = at' - 1 => stream[at' - 1].kind \notin buffers'
    <2>1. CASE Good(at)
      BY <1>1, <1>6, <2>1
    <2>2. CASE ~Good(at)
      <3>1. out' = out
        BY <1>6, <2>2
      <3>2. out # <<>> => out[Len(out)] < at
        BY <1>2, <1>5 DEF AllBelow
      <3> QED BY <1>1, <3>1, <3>2
    <2> QED BY <2>1, <2>2
  <1>9. stream \in Streams /\ at' \in 1..(Len(stream') + 1)
    BY <1>1 DEF HandedInv
  <1>10. EveryPacketOnce'
    <2>1. Rises(out') <=> \A j, k \in DOMAIN out' : j < k => out'[j] < out'[k]
      BY DEF Rises
    <2>2. {i \in 1..(at' - 1) : Good(i)}
            = {i \in 1..(at' - 1) : stream'[i].kind \in Buffered /\ Passes(stream'[i])}
      BY <1>1
    <2> HIDE DEF Good
    <2> QED BY <1>1, <1>7, <1>8, <2>1, <2>2 DEF EveryPacketOnce
  <1> QED BY <1>1, <1>7, <1>9, <1>10 DEF HandedInv

LEMMA HandedStep == FileAssumption /\ HandedInv /\ [FileNext]_fileVars => HandedInv'
  <1> SUFFICES ASSUME FileAssumption, HandedInv, [FileNext]_fileVars PROVE HandedInv'
    OBVIOUS
  <1> USE DEF inputVars, paceVars
  <1>1. CASE StopFile \/ FileReturned \/ UNCHANGED fileVars
    <2>1. UNCHANGED <<stream, at, out, file_reader, buffers>>
      BY <1>1 DEF StopFile, FileReturned, fileVars
    <2> QED BY <2>1 DEF HandedInv, EveryPacketOnce, Passes
  <1>2. CASE FileEnd \/ CannotOpen \/ AfterRound
    <2>1. /\ UNCHANGED <<stream, at, out, buffers>> /\ file_reader \notin {"reading", "paced"}
          /\ file_reader' # "paced"
      BY <1>2 DEF FileEnd, CannotOpen, AfterRound
    <2> QED BY <2>1, NothingTaken DEF HandedInv, EveryPacketOnce
  <1>3. CASE OpenFile
    <2>1. /\ stream' = stream /\ at' = 1 /\ out' = <<>> /\ file_reader' = "reading"
          /\ DOMAIN out' = {} /\ out' \in Seq(Int)
      BY <1>3, EmptySeq DEF OpenFile
    <2>2. 1..(at' - 1) = {} /\ Len(stream) \in Nat
      BY <2>1, StreamIsSequence DEF HandedInv
    <2> QED BY <2>1, <2>2 DEF HandedInv, EveryPacketOnce
  <1>4. CASE StopReading \/ EndOfStream
    <2>1. /\ UNCHANGED <<stream, at, out>> /\ buffers' = {}
          /\ file_reader' \in {"ended", "played", "failed"}
      BY <1>4 DEF StopReading, EndOfStream, EndRound
    <2> QED BY <2>1, NothingTaken
  <1>5. CASE TakePacket
    BY <1>5, PacketTaken
  <1>6. CASE Pace
    <2>1. UNCHANGED <<stream, at, out>> /\ file_reader' = "reading"
      BY <1>6 DEF Pace
    <2> QED BY <2>1, NothingTaken
  <1> QED BY <1>1, <1>2, <1>3, <1>4, <1>5, <1>6 DEF FileNext, FileReader

LEMMA PaceInit == FileInit => PaceInv
  BY DEF FileInit, PaceInv

(* A packet that is taken changes the latest timestamp at most.            *)
LEMMA TakenInTime ==
  ASSUME FileAssumption, stream \in Streams, at \in 1..(Len(stream) + 1), PaceInv, TakePacket
  PROVE  PaceInv'
  <1>1. /\ Len(stream) \in Nat
        /\ \A i \in 1..Len(stream) : stream[i] \in DataPackets \cup OtherPackets
    BY StreamIsSequence
  <1>2. at \in 1..Len(stream)
    <2>1. ~(at > Len(stream))
      BY Zenon DEF TakePacket, AtEnd
    <2> QED BY <1>1, <2>1
  <1>3. stream[at].kind = "data" => stream[at].ts \in 1..MaxTime
    <2>1. stream[at] \in DataPackets \/ stream[at].kind # "data"
      BY <1>1, <1>2 DEF OtherPackets
    <2> QED BY <2>1 DEF DataPackets
  <1>4. latest_data_us_' \in Nat
    <2>1. latest_data_us_' = latest_data_us_ \/ (stream[at].kind = "data" /\ latest_data_us_' = stream[at].ts)
      BY Zenon DEF TakePacket
    <2> QED BY <1>3, <2>1 DEF PaceInv, FileAssumption
  <1>5. /\ UNCHANGED <<settings, first_data_us_, total_received, now, start_time_us_>>
        /\ file_reader' = "paced"
    BY DEF TakePacket, inputVars
  <1> QED BY <1>4, <1>5 DEF PaceInv

LEMMA PaceStep ==
  FileAssumption /\ HandedInv /\ PaceInv /\ [FileNext]_fileVars => PaceInv'
  <1> SUFFICES ASSUME FileAssumption, HandedInv, PaceInv, [FileNext]_fileVars PROVE PaceInv'
    OBVIOUS
  <1> USE DEF inputVars, paceVars
  <1>1. CASE StopFile \/ FileReturned \/ UNCHANGED fileVars
    <2>1. UNCHANGED <<settings, paceVars, file_reader>>
      BY <1>1 DEF StopFile, FileReturned, fileVars
    <2> QED BY <2>1 DEF PaceInv
  <1>2. CASE FileEnd \/ CannotOpen \/ AfterRound \/ StopReading \/ EndOfStream
    <2>1. UNCHANGED <<settings, paceVars>> /\ file_reader' # "reading"
      BY <1>2 DEF FileEnd, CannotOpen, AfterRound, StopReading, EndOfStream, EndRound
    <2> QED BY <2>1 DEF PaceInv
  <1>3. CASE OpenFile
    BY <1>3 DEF OpenFile, PaceInv
  <1>4. CASE TakePacket
    BY <1>4, TakenInTime DEF HandedInv
  <1>5. CASE Pace
    <2>1. MaxJump \in Nat
      BY DEF FileAssumption
    <2>2. settings' = settings /\ (PaceBytes \/ PaceTimes \/ (settings.pace = "none" /\ UNCHANGED paceVars))
      BY <1>5 DEF Pace
    <2>3. CASE PaceBytes
      BY <2>2, <2>3 DEF PaceBytes, SleepUntil, Ahead, PaceInv
    <2>4. CASE PaceTimes
      <3>1. CASE first_data_us_ = 0 \/ JumpsAhead
        <4>1. /\ first_data_us_' = latest_data_us_ /\ now' = now
              /\ start_time_us_' = IF first_data_us_ = 0 THEN start_time_us_ ELSE now
              /\ UNCHANGED <<latest_data_us_, total_received>> /\ settings.pace = "times"
          BY <2>4, <3>1 DEF PaceTimes
        <4> QED BY <2>1, <2>2, <4>1 DEF PaceInv
      <3>2. CASE first_data_us_ # 0 /\ ~JumpsAhead
        <4>1. /\ UNCHANGED <<first_data_us_, start_time_us_, latest_data_us_, total_received>>
              /\ settings.pace = "times" /\ latest_data_us_ - first_data_us_ <= MaxJump
              /\ IF latest_data_us_ > first_data_us_
                 THEN now' = IF latest_data_us_ - first_data_us_ > now - start_time_us_
                             THEN start_time_us_ + (latest_data_us_ - first_data_us_) ELSE now
                 ELSE now' = now
          BY <2>1, <2>4, <3>2 DEF PaceTimes, SleepUntil, Ahead, JumpsAhead, PaceInv
        <4> QED BY <2>1, <2>2, <3>2, <4>1 DEF PaceInv
      <3> QED BY <3>1, <3>2
    <2>5. CASE settings.pace = "none" /\ UNCHANGED paceVars
      BY <2>2, <2>5 DEF PaceInv
    <2> QED BY <2>2, <2>3, <2>4, <2>5
  <1> QED BY <1>1, <1>2, <1>3, <1>4, <1>5 DEF FileNext, FileReader

(* EndsAreTold: a reader that ends by itself has told why, unless it could *)
(* not bind a port, and one of a file after all its rounds.                *)
THEOREM EndsTold ==
  ASSUME FileAssumption
  PROVE  UdpSpec /\ FileSpec => []EndsAreTold
  <1>1. FileInit => RoundsInv
    BY FileAssumption, RoundsInit
  <1>2. RoundsInv /\ [FileNext]_fileVars => RoundsInv'
    BY FileAssumption, RoundsStep
  <1>3. RoundsInv /\ EndIsTold => EndsAreTold
    BY DEF RoundsInv, EndsAreTold, PlaysAllRounds
  <1> QED BY <1>1, <1>2, <1>3, EndTold, PTL DEF FileSpec

(* EveryPacketInTime: a round of a file, however often it is played, hands *)
(* on every packet that passes its checks once, in order and in time.      *)
THEOREM PacketsInTime ==
  ASSUME FileAssumption
  PROVE  FileSpec => []EveryPacketInTime
  <1>1. FileInit => HandedInv /\ PaceInv
    BY FileAssumption, HandedInit, PaceInit
  <1>2. HandedInv /\ PaceInv /\ [FileNext]_fileVars => (HandedInv /\ PaceInv)'
    BY FileAssumption, HandedStep, PaceStep
  <1>3. HandedInv /\ PaceInv => EveryPacketInTime
    <2>1. MaxJump \in Nat
      BY DEF FileAssumption
    <2> QED BY <2>1 DEF HandedInv, PaceInv, EveryPacketInTime, KeepsPace
  <1> QED BY <1>1, <1>2, <1>3, PTL DEF FileSpec

-----------------------------------------------------------------------------
(* The configuration of the stages, for any lists of pairs of the driver   *)
(* and any number of calls.                                                *)

Held      == [value : ConfigValues \cup {"default"}, version : Nat]
FieldSets == [step : {"field", "version"}, type : StageTypes, value : Numbers,
              by : {"driver", "app", "replay"}]

(* The driver has a pair left while one of its own is applied.             *)
ConfigTypes ==
  /\ base \in [StageTypes -> Held] /\ copy_ \in [StageTypes -> Held]
  /\ configs \subseteq had /\ had \subseteq StageTypes
  /\ pairs \in Seq(PairSet) /\ (setter.by = "driver" => pairs # <<>>)
  /\ setter = NoSetter \/ setter \in FieldSets
  /\ history \in [StageTypes -> ConfigValues \cup {"none"}]
  /\ asked_for \in [StageTypes -> ConfigValues \cup {"none"}]

(* A copy is never newer than its original, and is of the values of its    *)
(* version but between the two steps of a setting.                         *)
CopyInv ==
  \A t \in StageTypes :
    /\ copy_[t].version <= base[t].version
    /\ copy_[t].version = base[t].version /\ ~(setter.type = t /\ setter.step = "version")
         => copy_[t].value = base[t].value

(* What was set last is in the history, and in the stage or on its way.    *)
SettingInv ==
  /\ \A t \in StageTypes : asked_for[t] \in Numbers => history[t] = asked_for[t]
  /\ \A t \in configs : asked_for[t] \in Numbers =>
       IF setter.type = t /\ setter.step = "field" THEN setter.value = asked_for[t]
       ELSE base[t].value = asked_for[t]

ConfigInv == ConfigTypes /\ CopyInv /\ SettingInv

LEMMA ConfigStarts == ConfigAssumption /\ ConfigInit => ConfigInv
  <1> SUFFICES ASSUME ConfigAssumption, ConfigInit PROVE ConfigInv
    OBVIOUS
  <1>1. pairs \in Seq(PairSet)
    BY DEF ConfigAssumption, ConfigInit
  <1> QED BY <1>1 DEF ConfigInit, ConfigInv, ConfigTypes, CopyInv, SettingInv, Held, DefaultConfig,
                      NoSetter, StageTypes, ConfigValues, Numbers

(* Only a number for a stage that is there, with a key it knows, is set in *)
(* steps of its own.                                                       *)
LEMMA SetInSteps ==
  ASSUME NEW p, SetResult(p) = 1
  PROVE  p.type \in had /\ p.type \in configs /\ p.value \in Numbers /\ p.known
  BY DEF SetResult

LEMMA SetAtOnce ==
  ASSUME NEW p \in PairSet, SetResult(p) # 1, p.known, p.type \in configs, p.type \in had
  PROVE  p.value \notin Numbers
  BY DEF SetResult, PairSet

(* What is left of the list of the driver.                                 *)
LEMMA RemainingPairs ==
  ASSUME pairs \in Seq(PairSet), NEW by, NEW n, by = "driver" => pairs # <<>>
  PROVE  Remaining(by, n) \in Seq(PairSet)
  <1>1. <<>> \in Seq(PairSet)
    BY EmptySeq
  <1>2. pairs # <<>> => Tail(pairs) \in Seq(PairSet)
    BY HeadTailProperties
  <1> QED BY <1>1, <1>2 DEF Remaining

(* The step of a version.                                                  *)
LEMMA VersionCounts ==
  ASSUME base \in [StageTypes -> Held], NEW t \in StageTypes,
         base' = [base EXCEPT ![t] = VersionSet(@)]
  PROVE  /\ base' \in [StageTypes -> Held]
         /\ base'[t].version = base[t].version + 1 /\ base'[t].value = base[t].value
         /\ \A u \in StageTypes : u # t => base'[u] = base[u]
  <1> DEFINE c == base[t]
  <1>1. c \in Held
    OBVIOUS
  <1>2. VersionSet(c) \in Held /\ VersionSet(c).version = c.version + 1 /\ VersionSet(c).value = c.value
    BY <1>1 DEF VersionSet, Held
  <1>3. base' = [base EXCEPT ![t] = VersionSet(c)]
    OBVIOUS
  <1> QED BY <1>2, <1>3

LEMMA ConfigIsSet ==
  ASSUME ConfigInv, NEW p \in PairSet, NEW by \in {"driver", "app"}, SetConfig(p, by),
         by = "driver" => pairs # <<>>
  PROVE  ConfigInv'
  <1>1. /\ setter = NoSetter /\ p.type \in StageTypes /\ p.value \in ConfigValues
        /\ UNCHANGED <<copy_, configs, had, copied>>
    BY DEF SetConfig, MutexIsFree, PairSet
  <1>2. /\ history' \in [StageTypes -> ConfigValues \cup {"none"}]
        /\ asked_for' \in [StageTypes -> ConfigValues \cup {"none"}]
        /\ \A t \in StageTypes : asked_for'[t] \in Numbers => history'[t] = asked_for'[t]
        /\ \A t \in StageTypes :
             asked_for'[t] = IF p.known /\ t = p.type
                             THEN IF p.value \in Numbers THEN p.value ELSE "none"
                             ELSE asked_for[t]
    BY <1>1 DEF SetConfig, Remember, ConfigInv, ConfigTypes, SettingInv, Numbers
  <1>3. CASE SetResult(p) = 1
    <2>1. p.type \in configs /\ p.value \in Numbers /\ p.known
      BY <1>3, SetInSteps
    <2>2. /\ setter' = [step |-> "field", type |-> p.type, value |-> p.value, by |-> by]
          /\ UNCHANGED <<base, pairs>>
      BY <1>3 DEF SetConfig
    <2>3. ConfigTypes'
      BY <1>1, <1>2, <2>1, <2>2 DEF ConfigInv, ConfigTypes, FieldSets
    <2>4. CopyInv'
      BY <1>1, <2>2 DEF ConfigInv, CopyInv, NoSetter
    <2>5. SettingInv'
      BY <1>1, <1>2, <2>1, <2>2 DEF ConfigInv, ConfigTypes, SettingInv, NoSetter
    <2> QED BY <2>3, <2>4, <2>5 DEF ConfigInv
  <1>4. CASE SetResult(p) # 1
    <2>1. /\ setter' = NoSetter /\ pairs' \in Seq(PairSet)
          /\ base' = base \/ base' = [base EXCEPT ![p.type] = VersionSet(@)]
      <3>1. pairs' = Remaining(by, SetResult(p)) /\ setter' = setter
        BY <1>4 DEF SetConfig
      <3>2. pairs' \in Seq(PairSet)
        BY <3>1, RemainingPairs DEF ConfigInv, ConfigTypes
      <3>3. base' = base \/ base' = [base EXCEPT ![p.type] = VersionSet(@)]
        BY <1>4 DEF SetConfig
      <3> QED BY <1>1, <3>1, <3>2, <3>3
    <2>2. /\ base' \in [StageTypes -> Held]
          /\ \A t \in StageTypes : /\ base'[t].value = base[t].value
                                   /\ base'[t] = base[t] \/ base'[t].version = base[t].version + 1
      <3>1. base \in [StageTypes -> Held]
        BY DEF ConfigInv, ConfigTypes
      <3>2. CASE base' = [base EXCEPT ![p.type] = VersionSet(@)]
        BY <1>1, <3>1, <3>2, VersionCounts
      <3> QED BY <2>1, <3>1, <3>2
    <2>3. ConfigTypes'
      BY <1>1, <1>2, <2>1, <2>2 DEF ConfigInv, ConfigTypes, NoSetter
    <2>4. CopyInv'
      BY <1>1, <2>1, <2>2 DEF ConfigInv, ConfigTypes, CopyInv, NoSetter, Held
    <2>5. SettingInv'
      <3>1. ASSUME NEW t \in configs, asked_for'[t] \in Numbers PROVE base'[t].value = asked_for'[t]
        <4>1. t \in had /\ t \in StageTypes /\ "none" \notin Numbers
          BY DEF ConfigInv, ConfigTypes, Numbers
        <4>2. ~(p.known /\ t = p.type)
          BY <1>2, <1>4, <3>1, <4>1, SetAtOnce
        <4>3. asked_for'[t] = asked_for[t]
          BY <1>2, <4>1, <4>2
        <4> QED BY <1>1, <2>2, <3>1, <4>1, <4>3 DEF ConfigInv, SettingInv, NoSetter
      <3> QED BY <1>1, <1>2, <2>1, <3>1 DEF SettingInv, NoSetter
    <2> QED BY <2>3, <2>4, <2>5 DEF ConfigInv
  <1> QED BY <1>3, <1>4

LEMMA FieldIsSet == ConfigInv /\ SetKeyValue => ConfigInv'
  <1> SUFFICES ASSUME ConfigInv, SetKeyValue PROVE ConfigInv'
    OBVIOUS
  <1>1. /\ setter \in FieldSets /\ setter.type \in StageTypes /\ setter.value \in Numbers
        /\ setter.by \in {"driver", "app", "replay"} /\ base \in [StageTypes -> Held]
        /\ UNCHANGED <<copy_, configs, had, history, copied, asked_for>>
    BY DEF SetKeyValue, MutexIsFree, ConfigInv, ConfigTypes, FieldSets
  <1>2. CASE /\ setter.step = "field" /\ base' = [base EXCEPT ![setter.type].value = setter.value]
             /\ setter' = [setter EXCEPT !.step = "version"] /\ UNCHANGED pairs
    <2>1. /\ setter' \in FieldSets /\ setter'.step = "version" /\ setter'.type = setter.type
          /\ setter'.by = setter.by
      BY <1>1, <1>2 DEF FieldSets
    <2>2. /\ base' \in [StageTypes -> Held] /\ base'[setter.type].value = setter.value
          /\ \A t \in StageTypes : base'[t].version = base[t].version
          /\ \A t \in StageTypes : t # setter.type => base'[t] = base[t]
      <3>1. base' = [base EXCEPT ![setter.type] = [base[setter.type] EXCEPT !.value = setter.value]]
        BY <1>2
      <3>2. base[setter.type] \in Held
        BY <1>1
      <3>3. /\ [base[setter.type] EXCEPT !.value = setter.value] \in Held
            /\ [base[setter.type] EXCEPT !.value = setter.value].value = setter.value
            /\ [base[setter.type] EXCEPT !.value = setter.value].version = base[setter.type].version
        BY <1>1, <3>2 DEF Held, ConfigValues
      <3> QED BY <1>1, <3>1, <3>3
    <2>3. ConfigTypes'
      BY <1>1, <1>2, <2>1, <2>2 DEF ConfigInv, ConfigTypes
    <2>4. CopyInv'
      BY <1>1, <2>1, <2>2 DEF ConfigInv, CopyInv
    <2>5. SettingInv'
      BY <1>1, <1>2, <2>1, <2>2 DEF ConfigInv, ConfigTypes, SettingInv
    <2> QED BY <2>3, <2>4, <2>5 DEF ConfigInv
  <1>3. CASE /\ setter.step = "version" /\ base' = [base EXCEPT ![setter.type] = VersionSet(@)]
             /\ setter' = NoSetter /\ pairs' = Remaining(setter.by, 0)
    <2>1. pairs' \in Seq(PairSet)
      BY <1>3, RemainingPairs DEF ConfigInv, ConfigTypes
    <2>2. /\ base' \in [StageTypes -> Held]
          /\ base'[setter.type].version = base[setter.type].version + 1
          /\ \A t \in StageTypes : base'[t].value = base[t].value
          /\ \A t \in StageTypes : t # setter.type => base'[t] = base[t]
      BY <1>1, <1>3, VersionCounts
    <2>3. ConfigTypes'
      BY <1>1, <1>3, <2>1, <2>2 DEF ConfigInv, ConfigTypes, NoSetter
    <2>4. CopyInv'
      <3>1. \A t \in StageTypes : base[t].version \in Nat /\ copy_[t].version \in Nat
        BY DEF ConfigInv, ConfigTypes, Held
      <3> QED BY <1>1, <1>3, <2>2, <3>1 DEF ConfigInv, CopyInv, NoSetter
    <2>5. SettingInv'
      BY <1>1, <1>3, <2>2 DEF ConfigInv, ConfigTypes, SettingInv, NoSetter
    <2> QED BY <2>3, <2>4, <2>5 DEF ConfigInv
  <1> QED BY <1>2, <1>3 DEF SetKeyValue

LEMMA StagesCome ==
  ASSUME ConfigInv, AddConfig \/ RemoveConfig
  PROVE  ConfigInv'
  <1>1. CASE AddConfig
    <2>1. /\ configs' = configs \cup {"deliver"} /\ had' = had \cup {"deliver"} /\ setter = NoSetter
          /\ base' = [base EXCEPT !["deliver"] = DefaultConfig]
          /\ copy_' = [copy_ EXCEPT !["deliver"] = DefaultConfig]
          /\ pairs = <<>> /\ UNCHANGED <<history, pairs, asked_for>>
      BY <1>1 DEF AddConfig, MutexIsFree
    <2>2. "deliver" \in StageTypes /\ DefaultConfig \in Held
      BY DEF StageTypes, Held, DefaultConfig
    <2>3. IF history["deliver"] \in Numbers
          THEN /\ setter' \in FieldSets /\ setter'.step = "field" /\ setter'.type = "deliver"
               /\ setter'.value = history["deliver"] /\ setter'.by = "replay"
          ELSE setter' = NoSetter
      BY <1>1, <2>2 DEF AddConfig, Replay, FieldSets
    <2>4. ConfigTypes'
      BY <2>1, <2>2, <2>3 DEF ConfigInv, ConfigTypes, NoSetter
    <2>5. CopyInv'
      BY <2>1, <2>2, <2>3 DEF ConfigInv, ConfigTypes, CopyInv, NoSetter, DefaultConfig
    <2>6. SettingInv'
      BY <2>1, <2>2, <2>3 DEF ConfigInv, ConfigTypes, SettingInv, NoSetter
    <2> QED BY <2>4, <2>5, <2>6 DEF ConfigInv
  <1>2. CASE RemoveConfig
    BY <1>2 DEF RemoveConfig, ConfigInv, ConfigTypes, CopyInv, SettingInv
  <1> QED BY <1>1, <1>2

LEMMA CopyIsTaken ==
  ASSUME ConfigInv, NEW t \in StageTypes, CopyFromSrc(t)
  PROVE  ConfigInv'
  <1>1. /\ copy_' = [copy_ EXCEPT ![t] = IF base[t].version # @.version THEN base[t] ELSE @]
        /\ UNCHANGED <<base, configs, had, history, setter, pairs, asked_for>>
    BY DEF CopyFromSrc
  <1>2. /\ copy_' \in [StageTypes -> Held]
        /\ copy_'[t] = IF base[t].version # copy_[t].version THEN base[t] ELSE copy_[t]
        /\ \A u \in StageTypes : u # t => copy_'[u] = copy_[u]
    BY <1>1 DEF ConfigInv, ConfigTypes
  <1>3. base[t].version \in Nat
    BY DEF ConfigInv, ConfigTypes, Held
  <1>4. ConfigTypes' /\ SettingInv'
    BY <1>1, <1>2 DEF ConfigInv, ConfigTypes, SettingInv
  <1>5. CopyInv'
    BY <1>1, <1>2, <1>3 DEF ConfigInv, CopyInv
  <1> QED BY <1>4, <1>5 DEF ConfigInv

LEMMA ConfigStep == ConfigInv /\ [ConfigNext]_configVars => ConfigInv'
  <1> SUFFICES ASSUME ConfigInv, [ConfigNext]_configVars PROVE ConfigInv'
    OBVIOUS
  <1>1. CASE DriverSets
    <2>1. pairs # <<>> /\ Head(pairs) \in PairSet
      BY <1>1, HeadTailProperties DEF DriverSets, ConfigInv, ConfigTypes
    <2> QED BY <1>1, <2>1, ConfigIsSet DEF DriverSets
  <1>2. CASE ApplicationSets
    BY <1>2, ConfigIsSet DEF ApplicationSets
  <1>3. CASE UNCHANGED configVars
    BY <1>3 DEF configVars, ConfigInv, ConfigTypes, CopyInv, SettingInv
  <1> QED BY <1>1, <1>2, <1>3, FieldIsSet, StagesCome, CopyIsTaken DEF ConfigNext

(* ConfigsAreSound: what was set last is what a stage has, and no copy     *)
(* stays behind its original.                                              *)
THEOREM ConfigsKept ==
  ASSUME ConfigAssumption
  PROVE  ConfigSpec => []ConfigsAreSound
  <1>1. ConfigInit => ConfigInv
    BY ConfigAssumption, ConfigStarts
  <1>2. ConfigInv => ConfigsAreSound
    <2>1. ConfigInv => CopiesFollow
      BY DEF ConfigInv, ConfigTypes, CopyInv, CopiesFollow
    <2>2. ConfigInv => SettingsAreKept
      BY DEF ConfigInv, SettingInv, SettingsAreKept, MutexIsFree, NoSetter
    <2> QED BY <2>1, <2>2 DEF ConfigsAreSound
  <1> QED BY <1>1, <1>2, ConfigStep, PTL DEF ConfigSpec

-----------------------------------------------------------------------------
(* The recorder's callback, for any threads that set one and one that      *)
(* calls it.                                                               *)

(* The context is the one of the callback but while it is set; what the    *)
(* recorder copied is what is there until it has called it.                *)
SlotInv ==
  /\ slot_lock \in {"none", recorder_callbacks_} /\ accepted \subseteq Setters
  /\ slot_lock = "none" => recorder_callbacks_context_ = recorder_callbacks_
  /\ DOMAIN slot_at = Recorders /\ DOMAIN copied_callback = Recorders
  /\ \A r \in Recorders :
       /\ slot_at[r] \in {"call", "clear"} =>
            recorder_callbacks_ # "none" /\ slot_lock = "none"
              /\ copied_callback[r] = recorder_callbacks_
       /\ slot_at[r] = "clear" => accepted = {}
  /\ CallbacksStay

LEMMA SlotStep ==
  ASSUME SlotAssumption, \A q, r \in Recorders : q = r, SlotInv, [SlotNext]_slotVars
  PROVE  SlotInv'
  <1>1. ASSUME NEW s \in Setters, SetCallback(s) PROVE SlotInv'
    <2>1. s # "none"
      BY DEF SlotAssumption
    <2>2. CASE recorder_callbacks_ = "none"
      <3>1. accepted = {}
        BY <2>2 DEF SlotAssumption, SlotInv, CallbacksStay
      <3>2. /\ recorder_callbacks_' = s /\ slot_lock' = s /\ accepted' = {s}
            /\ UNCHANGED <<recorder_callbacks_context_, slot_at, copied_callback, called>>
        BY <1>1, <2>2, <3>1 DEF SetCallback
      <3> QED BY <2>1, <2>2, <3>2 DEF SlotInv, CallbacksStay
    <2>3. CASE recorder_callbacks_ # "none"
      BY <1>1, <2>3 DEF SetCallback, SlotInv, CallbacksStay
    <2> QED BY <2>2, <2>3
  <1>2. ASSUME NEW s \in Setters, SetContext(s) PROVE SlotInv'
    <2>1. s # "none"
      BY DEF SlotAssumption
    <2> QED BY <1>2, <2>1 DEF SetContext, SlotInv, CallbacksStay
  <1>3. ASSUME NEW r \in Recorders, TestCallback(r) PROVE SlotInv'
    BY <1>3 DEF TestCallback, SlotInv, CallbacksStay
  <1>4. ASSUME NEW r \in Recorders, CopyCallback(r) PROVE SlotInv'
    BY <1>4 DEF CopyCallback, SlotInv, CallbacksStay
  <1>5. ASSUME NEW r \in Recorders, NEW fails \in BOOLEAN, CallCallback(r, fails) PROVE SlotInv'
    BY <1>5 DEF CallCallback, SlotInv, CallbacksStay
  <1>6. ASSUME NEW r \in Recorders, ClearCallback(r) PROVE SlotInv'
    BY <1>6 DEF ClearCallback, SlotInv, CallbacksStay
  <1>7. CASE UNCHANGED slotVars
    BY <1>7 DEF slotVars, SlotInv, CallbacksStay
  <1> QED BY <1>1, <1>2, <1>3, <1>4, <1>5, <1>6, <1>7 DEF SlotNext

(* SettingsReachStages: with it, a callback that was accepted is called    *)
(* with its own context until it fails, if only one thread calls it.       *)
THEOREM SettingsReach ==
  ASSUME ConfigAssumption, SlotAssumption, \A q, r \in Recorders : q = r
  PROVE  ConfigSpec /\ SlotSpec => []SettingsReachStages
  <1>1. SlotInit => SlotInv
    BY DEF SlotInit, SlotInv, CallbacksStay
  <1>2. SlotInv /\ [SlotNext]_slotVars => SlotInv'
    BY SlotAssumption, SlotStep
  <1>3. ConfigSpec => []ConfigsAreSound
    BY ConfigAssumption, ConfigsKept
  <1>4. ConfigsAreSound /\ SlotInv => SettingsReachStages
    BY DEF SlotInv, SettingsReachStages
  <1> QED BY <1>1, <1>2, <1>3, <1>4, PTL DEF SlotSpec
-----------------------------------------------------------------------------
(* The attributes, for any ports and an application that is tidy: it       *)
(* switches recording off before it stops.                                 *)

(* A recorder is there just while its thread runs, only while the client   *)
(* is up, and the lidar sends to its port.                                 *)
AttributesInv ==
  /\ it_raw_recorder_ \in {"none", "running"}
  /\ ~last_stage_is_up_ => it_raw_recorder_ = "none"
  /\ raw_recorder_ # 0 <=> it_raw_recorder_ = "running"
  /\ it_raw_recorder_ = "running" => server_raw_port = raw_recorder_
  /\ AnswerIsTrue

LEMMA RawIsRecorded ==
  ASSUME AttributesAssumption, Tidy, AttributesInv, RecordRaw
  PROVE  AttributesInv'
  <1>1. CASE NotWorking
    <2>1. /\ ~last_stage_is_up_ /\ asked'.answer = -1
          /\ UNCHANGED <<last_stage_is_up_, it_raw_recorder_, raw_recorder_, server_raw_port, client_crash>>
      BY <1>1 DEF NotWorking, Answered, recorderVars
    <2> QED BY <2>1 DEF AttributesInv, AnswerIsTrue
  <1>2. CASE AlreadyListens
    <2>1. PICK port \in Ports :
            /\ Working /\ raw_recorder_ = port /\ Answered("save_raw_data", port, 0)
            /\ UNCHANGED <<recorderVars, server_raw_port, client_crash>> /\ SameUp
      BY <1>2 DEF AlreadyListens
    <2>2. port # 0 /\ asked'.answer = 0 /\ asked'.value = port
      BY <2>1 DEF AttributesAssumption, Answered
    <2> QED BY <2>1, <2>2 DEF AttributesInv, AnswerIsTrue, SameUp, recorderVars
  <1>3. CASE CannotChange
    <2>1. /\ asked'.answer = -1 /\ it_raw_recorder_' = "none" /\ raw_recorder_' = 0
          /\ ShutThread
          /\ UNCHANGED <<last_stage_is_up_, server_raw_port>>
      BY <1>3 DEF CannotChange, Answered, SameUp
    <2> QED BY <2>1 DEF AttributesInv, AnswerIsTrue, ShutThread
  <1>4. CASE SaveRawData
    <2>1. PICK port \in Ports, reply \in Replies :
            /\ Working /\ path
            /\ it_raw_recorder_' = NewThread(reply)
            /\ raw_recorder_' = IF reply = 0 THEN port ELSE 0
            /\ client_crash' = CASE it_raw_recorder_ = "shut" -> "InnoThread"
                                  [] ~path -> "no_path" [] ~live -> "no_comm"
                                  [] OTHER -> client_crash
            /\ TellPort(port, reply) /\ Answered("save_raw_data", port, reply) /\ SameUp
      BY <1>4, Tidy DEF SaveRawData
    <2>2. live /\ last_stage_is_up_ /\ last_stage_is_up_'
      BY <2>1, Tidy DEF Working, SameUp
    <2>3. client_crash' = "none"
      BY <2>1, <2>2 DEF AttributesInv, AnswerIsTrue
    <2>4. port # 0 /\ asked'.answer = reply /\ asked'.value = port
      BY <2>1 DEF AttributesAssumption, Answered
    <2>5. CASE reply = 0
      <3>1. it_raw_recorder_' = "running" /\ raw_recorder_' = port /\ server_raw_port' = port
        BY <2>1, <2>2, <2>5 DEF NewThread, TellPort
      <3> QED BY <2>2, <2>3, <2>4, <2>5, <3>1 DEF AttributesInv, AnswerIsTrue
    <2>6. CASE reply # 0
      <3>1. it_raw_recorder_' = "none" /\ raw_recorder_' = 0
        BY <2>1, <2>6 DEF NewThread
      <3> QED BY <2>2, <2>3, <2>4, <2>6, <3>1 DEF AttributesInv, AnswerIsTrue
    <2> QED BY <2>5, <2>6
  <1>5. CASE StopRawData
    <2>1. PICK reply \in Replies :
            /\ Working
            /\ it_raw_recorder_' = "none" /\ raw_recorder_' = 0
            /\ IF live THEN ShutThread ELSE client_crash' = "no_comm"
            /\ TellPort(-1, reply) /\ Answered("save_raw_data", 0, reply) /\ SameUp
      BY <1>5 DEF StopRawData
    <2>2. live /\ client_crash' = "none"
      BY <2>1, Tidy DEF Working, ShutThread, AttributesInv, AnswerIsTrue
    <2>3. asked'.value = 0 /\ (asked'.answer = 0 => server_raw_port' = -1)
      BY <2>1, <2>2 DEF Answered, TellPort
    <2> QED BY <2>1, <2>2, <2>3 DEF AttributesInv, AnswerIsTrue
  <1>6. CASE SavePath
    <2>1. /\ asked'.attribute # "save_raw_data"
          /\ UNCHANGED <<recorderVars, last_stage_is_up_, server_raw_port, client_crash>>
      BY <1>6 DEF SavePath, Answered
    <2> QED BY <2>1 DEF AttributesInv, AnswerIsTrue, recorderVars
  <1> QED BY <1>1, <1>2, <1>3, <1>4, <1>5, <1>6 DEF RecordRaw

LEMMA AttributesStep ==
  ASSUME AttributesAssumption, Tidy, AttributesInv, [AttributesNext]_attributeVars
  PROVE  AttributesInv'
  <1>1. CASE Start
    BY <1>1 DEF Start, AttributesInv, AnswerIsTrue, Nothing, recorderVars
  <1>2. CASE Stop
    BY <1>2 DEF Stop, StoppedThread, AttributesInv, AnswerIsTrue, Nothing
  <1>3. CASE DeleteClient
    BY <1>3 DEF DeleteClient, Answered, AttributesInv, AnswerIsTrue
  <1>4. CASE UseRingId \/ GetAngleTable \/ SetAngleTable \/ Ask \/ ForceXyz \/ FaultsSaveRaw
                       \/ SetAttribute
    <2> DEFINE Apart == /\ UNCHANGED <<recorderVars, last_stage_is_up_, server_raw_port, client_crash>>
                        /\ asked'.attribute # "save_raw_data"
    <2>2. UseRingId => Apart
      BY DEF UseRingId, Answered, recorderVars
    <2>3. GetAngleTable \/ SetAngleTable \/ FaultsSaveRaw => Apart
      BY DEF GetAngleTable, SetAngleTable, FaultsSaveRaw, SameButTables, Answered, recorderVars
    <2>4. ForceXyz \/ SetAttribute => Apart
      BY DEF ForceXyz, SetAttribute, SameButTables, Answered, recorderVars
    <2>5. Ask => Apart
      BY DEF Ask, SameButTables, Answered, recorderVars, Attributes
    <2>1. Apart
      BY <1>4, <2>2, <2>3, <2>4, <2>5
    <2> QED BY <2>1 DEF AttributesInv, AnswerIsTrue, recorderVars
  <1>5. CASE UNCHANGED attributeVars
    BY <1>5 DEF attributeVars, recorderVars, AttributesInv, AnswerIsTrue
  <1> QED BY <1>1, <1>2, <1>3, <1>4, <1>5, RawIsRecorded DEF AttributesNext, ClientEnded

-----------------------------------------------------------------------------
(* A request to the lidar, for any content, any buffer of the caller and   *)
(* any number of refused connections.                                      *)

(* Where a call is, which of the calls it can be.                          *)
PlaceOfCall ==
  /\ call \in Calls /\ answer \in LidarAnswers /\ request \in Requests /\ cursor \in Nat
  /\ at_call \in Waits \cup {"connect", "connecting", "send", "returned", "told"}
  /\ at_call \in {"recv_header", "recv_rest", "told"} => call = "http_get"
  /\ at_call \in {"recv_length", "recv_content", "recv_md5"} =>
       call \in {"recv_length_buffer", "recv_file"}
  /\ at_call \in {"send_content", "recv_ack"} => call = "send_file"
  /\ at_call = "recv_reply" => call = "send_command"
  /\ ret # "none" <=> at_call \in {"returned", "told"}

(* How often the lidar has been asked, and which connections are there.    *)
TriesInv ==
  /\ tries \in 1..Tries /\ executed \in 0..tries /\ (call # "send_command" => tries = 1)
  /\ at_call \in {"connect", "connecting", "send"} => executed < tries
  /\ at_call \in Waits \/ ret = "ok" => executed >= 1
  /\ open \in {0, 1} /\ (at_call \in {"connect", "returned"} => open = 0) /\ leaked \in Nat
  /\ leaked > 0 => ~address_ok \/ (call = "http_get" /\ ret = "not_sent")

(* What has come so far: a file is as it was received, if no write took    *)
(* less than it was given, and what was sent is the content or its front.  *)
ContentInv ==
  /\ content = Units(MaxContent)
  /\ at_call = "recv_md5" /\ call = "recv_file" /\ ~short => file = got
  /\ at_call = "recv_ack" => got \in {content, Front(content)}
  /\ ret = "ok" =>
       /\ call \in {"http_get", "recv_length_buffer", "recv_file"} => got = Units(answer.length)
       /\ call = "recv_file" /\ ~short => file = got
       /\ call = "send_file" => got = content
       /\ at_call = "told" /\ request.what # "set" => Len(got) <= request.size

NetInv == PlaceOfCall /\ TriesInv /\ ContentInv

LEMMA UnitsAre ==
  ASSUME NEW n \in Nat
  PROVE  Units(n) \in Seq(Nat) /\ Len(Units(n)) = n /\ \A i \in 1..n : Units(n)[i] = i
  BY DEF Units

(* A content that is damaged, if there is any, does not pass the CRC.      *)
LEMMA DamageIsSeen ==
  ASSUME answer \in LidarAnswers, NEW n \in Nat
  PROVE  /\ Damaged(Units(n)) \in Seq(Nat) /\ Len(Damaged(Units(n))) = n
         /\ ~CrcFails(Damaged(Units(n))) => Damaged(Units(n)) = Units(n)
  <1> DEFINE s == Units(n)
  <1>1. s \in Seq(Nat) /\ Len(s) = n /\ DOMAIN s = 1..n
    BY UnitsAre, LenProperties
  <1>2. CASE answer.damaged /\ s # <<>>
    <2>1. Damaged(s) = [s EXCEPT ![Len(s)] = 0]
      BY <1>2 DEF Damaged
    <2>2. n \in 1..n
      BY <1>1, <1>2, EmptySeq
    <2>6. Damaged(s) \in [1..n -> Nat]
      <3>1. s \in [1..n -> Nat]
        BY DEF Units
      <3>2. ASSUME NEW f \in [1..n -> Nat] PROVE [f EXCEPT ![n] = 0] \in [1..n -> Nat]
        OBVIOUS
      <3> QED BY <1>1, <2>1, <3>1, <3>2
    <2>7. Damaged(s) \in Seq(Nat)
      BY <2>6, IsASeq
    <2>8. Len(Damaged(s)) = n
      BY <2>6, <2>7
    <2>3. Damaged(s) \in Seq(Nat) /\ Len(Damaged(s)) = n /\ DOMAIN Damaged(s) = 1..n
      BY <2>6, <2>7, <2>8
    <2>4. Damaged(s)[n] = 0
      BY <1>1, <2>1, <2>2
    <2>5. 0 \in ToSet(Damaged(s))
      BY <2>2, <2>3, <2>4 DEF ToSet
    <2> QED BY <2>3, <2>5 DEF CrcFails
  <1>3. CASE ~(answer.damaged /\ s # <<>>)
    BY <1>1, <1>3 DEF Damaged
  <1> QED BY <1>2, <1>3

LEMMA WrittenWhole ==
  ASSUME NEW s \in Seq(Nat)
  PROVE  Written(s, Len(s)) = s
  <1>1. SubSeq(s, 1, Len(s)) = s
    BY SubSeqFull
  <1>2. Len(s) \in Nat /\ Len(s) - Len(s) = 0
    BY LenProperties
  <1>3. SubSeq(s, 1, Len(s) - Len(s)) = <<>>
    BY <1>2, SubSeqEmpty
  <1> QED BY <1>1, <1>3, ConcatEmptySeq DEF Written

LEMMA NetStarts == NetAssumption /\ NetInit => NetInv
  BY DEF NetAssumption, NetInit, NetInv, PlaceOfCall, TriesInv, ContentInv, Tries, LidarAnswers, Waits

(* A call or a try that fails.                                             *)
LEMMA CallEnds ==
  ASSUME NetAssumption, NetInv, at_call \notin {"returned", "told"},
         NEW outcome, outcome \notin {"none", "ok"}, ReturnsWith(outcome),
         UNCHANGED <<callVars, executed>>, open' = 0, leaked' \in Nat,
         leaked' > 0 => ~address_ok \/ (call = "http_get" /\ outcome = "not_sent")
  PROVE  NetInv'
  <1>1. CASE call = "send_command" /\ tries < Tries
    <2>1. /\ at_call' = "connect" /\ tries' = tries + 1 /\ cursor' = 0 /\ ret' = ret
      BY <1>1 DEF ReturnsWith
    <2>2. ret = "none"
      BY DEF NetInv, PlaceOfCall
    <2> QED BY <1>1, <2>1, <2>2 DEF NetInv, PlaceOfCall, TriesInv, ContentInv, callVars, Tries, Waits
  <1>2. CASE ~(call = "send_command" /\ tries < Tries)
    <2>1. /\ at_call' = "returned" /\ ret' = outcome /\ UNCHANGED <<tries, cursor>>
      BY <1>2 DEF ReturnsWith
    <2> QED BY <2>1 DEF NetInv, PlaceOfCall, TriesInv, ContentInv, callVars, Waits
  <1> QED BY <1>1, <1>2

LEMMA CallBroken ==
  ASSUME NetAssumption, NetInv, at_call \notin {"returned", "told"},
         NEW outcome, outcome \notin {"none", "ok"}, CallFails(outcome),
         UNCHANGED <<callVars, executed>>
  PROVE  NetInv'
  <1>1. leaked \in Nat /\ (leaked > 0 => ~address_ok)
    BY DEF NetInv, TriesInv, PlaceOfCall
  <1>2. ReturnsWith(outcome) /\ open' = 0 /\ leaked' = leaked
    BY DEF CallFails, CloseConnection
  <1> QED BY <1>1, <1>2, CallEnds

(* A call that succeeds.                                                   *)
LEMMA CallSucceeds ==
  ASSUME NetAssumption, NetInv, at_call \in Waits, at_call' = "returned", ret' = "ok",
         UNCHANGED <<callVars, executed, tries, leaked>>, open' = 0, cursor' \in Nat,
         call \in {"http_get", "recv_length_buffer", "recv_file"} => got' = Units(answer.length),
         call = "recv_file" /\ ~short' => file' = got',
         call = "send_file" => got' = content
  PROVE  NetInv'
  <1>1. PlaceOfCall'
    BY DEF NetInv, PlaceOfCall, callVars, Waits
  <1>2. TriesInv'
    BY DEF NetInv, PlaceOfCall, TriesInv, callVars, Waits
  <1>3. ContentInv'
    BY DEF NetInv, ContentInv, callVars
  <1> QED BY <1>1, <1>2, <1>3 DEF NetInv

LEMMA ConnectionStep == NetAssumption /\ NetInv /\ GetConnection => NetInv'
  <1> SUFFICES ASSUME NetAssumption, NetInv, GetConnection PROVE NetInv'
    OBVIOUS
  <1>1. CASE NoSocket
    BY <1>1, CallBroken DEF NoSocket
  <1>2. CASE MakeSocket
    BY <1>2 DEF MakeSocket, NetInv, PlaceOfCall, TriesInv, ContentInv, callVars, Waits
  <1>3. CASE BadAddress
    <2>1. open \in {0, 1} /\ leaked \in Nat
      BY DEF NetInv, TriesInv
    <2>2. /\ at_call = "connecting" /\ ~address_ok /\ ReturnsWith("no_connection")
          /\ open' = 0 /\ leaked' \in Nat /\ UNCHANGED <<callVars, executed>>
      BY <1>3, <2>1 DEF BadAddress, Leave
    <2> QED BY <2>2, CallEnds
  <1>4. CASE CannotConnect
    BY <1>4, CallBroken DEF CannotConnect
  <1>5. CASE Refused
    <2>1. CASE LeftAfterRefusal <= 0
      BY <1>5, <2>1, CallBroken DEF Refused
    <2>2. CASE ~(LeftAfterRefusal <= 0)
      BY <1>5, <2>2 DEF Refused, NetInv, PlaceOfCall, TriesInv, ContentInv, callVars, Waits
    <2> QED BY <2>1, <2>2
  <1>6. CASE Connected
    BY <1>6 DEF Connected, NetInv, PlaceOfCall, TriesInv, ContentInv, callVars, Waits
  <1> QED BY <1>1, <1>2, <1>3, <1>4, <1>5, <1>6 DEF GetConnection

LEMMA SendingStep ==
  NetAssumption /\ NetInv /\ (SendRequest \/ CannotSend \/ SendContent \/ RecvAck) => NetInv'
  <1> SUFFICES ASSUME NetAssumption, NetInv, SendRequest \/ CannotSend \/ SendContent \/ RecvAck
               PROVE  NetInv'
    OBVIOUS
  <1>1. CASE SendRequest
    <2>1. /\ at_call = "send" /\ at_call' \in {"send_content", "recv_header", "recv_reply", "recv_length"}
          /\ at_call' = "send_content" => call = "send_file"
          /\ at_call' = "recv_header" => call = "http_get"
          /\ at_call' = "recv_reply" => call = "send_command"
          /\ at_call' = "recv_length" => call \in {"recv_length_buffer", "recv_file"}
          /\ executed' = executed + 1
          /\ UNCHANGED <<callVars, tries, left, open, leaked, cursor, got, file, short, ret>>
      BY <1>1 DEF SendRequest, NetInv, PlaceOfCall, Calls
    <2> QED BY <2>1 DEF NetInv, PlaceOfCall, TriesInv, ContentInv, callVars, Waits
  <1>2. CASE CannotSend
    <2>1. CASE call = "http_get"
      <3>1. open \in {0, 1} /\ leaked \in Nat
        BY DEF NetInv, TriesInv
      <3>2. /\ at_call = "send" /\ ReturnsWith("not_sent") /\ open' = 0 /\ leaked' \in Nat
            /\ UNCHANGED <<callVars, executed>>
        BY <1>2, <2>1, <3>1 DEF CannotSend, Leave
      <3> QED BY <2>1, <3>2, CallEnds
    <2>2. CASE call # "http_get"
      BY <1>2, <2>2, CallBroken DEF CannotSend, CallFails
    <2> QED BY <2>1, <2>2
  <1>3. CASE SendContent
    BY <1>3 DEF SendContent, NetInv, PlaceOfCall, TriesInv, ContentInv, callVars, Waits
  <1>4. CASE RecvAck
    <2>1. /\ at_call = "recv_ack" /\ call = "send_file" /\ got \in {content, Front(content)}
          /\ UNCHANGED <<callVars, executed, got, file, short>>
      BY <1>4 DEF RecvAck, NetInv, PlaceOfCall, ContentInv
    <2>2. CASE Len(got) = Len(content)
      <3>1. MaxContent \in Nat \ {0} /\ content = Units(MaxContent)
        BY DEF NetAssumption, NetInv, ContentInv
      <3>2. /\ content \in Seq(Nat) /\ Len(content) = MaxContent
            /\ \A i \in 1..MaxContent : content[i] = i
        BY <3>1, UnitsAre
      <3>3. Len(Front(content)) = MaxContent - 1
        BY <3>1, <3>2, SubSeqProperties DEF Front
      <3>4. got = content
        BY <2>1, <2>2, <3>1, <3>2, <3>3
      <3>5. /\ at_call' = "returned" /\ ret' = "ok" /\ open' = 0
            /\ UNCHANGED <<leaked, tries, cursor>>
        BY <1>4, <2>1, <2>2 DEF RecvAck, CallFails, CloseConnection, ReturnsWith
      <3>6. cursor' \in Nat
        BY <3>5 DEF NetInv, PlaceOfCall
      <3> QED BY <2>1, <3>4, <3>5, <3>6, CallSucceeds DEF Waits
    <2>3. CASE Len(got) # Len(content)
      BY <1>4, <2>1, <2>3, CallBroken DEF RecvAck
    <2> QED BY <2>2, <2>3
  <1> QED BY <1>1, <1>2, <1>3, <1>4

LEMMA HttpIsDone ==
  ASSUME NetAssumption, NetInv, NEW n \in Nat, n = answer.length,
         at_call \in {"recv_header", "recv_rest"}, HttpDone(n),
         UNCHANGED <<callVars, executed, file, short>>
  PROVE  NetInv'
  <1> DEFINE s == Damaged(Units(n))
  <1>1. /\ got' = s /\ cursor' = kHeader + n /\ at_call' = "returned"
        /\ ret' = (IF CrcFails(s) THEN "crc" ELSE "ok")
        /\ open' = 0 /\ UNCHANGED <<leaked, tries, left>>
    BY DEF HttpDone, CloseConnection
  <1>2. ~CrcFails(s) => s = Units(n)
    BY DamageIsSeen DEF NetInv, PlaceOfCall
  <1>3. call = "http_get" /\ cursor' \in Nat
    BY <1>1 DEF NetInv, PlaceOfCall, kHeader
  <1> HIDE DEF s
  <1>4. CASE CrcFails(s)
    <2>1. ret' = "crc"
      BY <1>1, <1>4
    <2> QED BY <1>1, <1>3, <2>1 DEF NetInv, PlaceOfCall, TriesInv, ContentInv, callVars, Waits
  <1>5. CASE ~CrcFails(s)
    <2>1. ret' = "ok" /\ got' = Units(answer.length)
      BY <1>1, <1>2, <1>5
    <2> QED BY <1>1, <1>3, <2>1, CallSucceeds DEF Waits
  <1> QED BY <1>4, <1>5

(* One read of an HTTP answer: it goes on, is done, or the call fails.     *)
LEMMA HttpIsRead ==
  ASSUME NetAssumption, NetInv, ReadHttp
  PROVE  /\ at_call = "recv_header" /\ UNCHANGED <<callVars, executed, file, short>>
         /\ \/ /\ at_call' \in {"recv_header", "recv_rest"} /\ cursor' \in Nat
               /\ UNCHANGED <<tries, left, open, leaked, got, ret>>
            \/ HttpDone(answer.length)
            \/ \E outcome \in {"version", "no_room", "bad_response", "no_length", "too_much"} :
                 CallFails(outcome)
  <1>1. PICK n \in 1..(kHeader + MaxContent + 1) :
     LET after == cursor + n
         more  == after - kHeader
     IN  /\ at_call = "recv_header"
         /\ IF after < kHeader
            THEN /\ IF answer.header = "version" THEN CallFails("version")
                    ELSE IF after >= BufferSize - 1 THEN CallFails("no_room")
                    ELSE cursor' = after /\ UNCHANGED <<at_call, tries, left, open, leaked, ret>>
                 /\ UNCHANGED got
            ELSE IF answer.header = "good" /\ Complete(more) THEN HttpDone(more)
            ELSE /\ UNCHANGED got
                 /\ CASE answer.header = "version" -> CallFails("version")
                      [] answer.header = "garbage" -> CallFails("bad_response")
                      [] answer.header = "no_length" -> CallFails("no_length")
                      [] answer.header = "bad_length" ->
                           IF after >= BufferSize - 1 THEN CallFails("no_room")
                           ELSE cursor' = after /\ UNCHANGED <<at_call, tries, left, open, leaked, ret>>
                      [] answer.header = "good" /\ answer.length - more > Room - n ->
                           CallFails("no_room")
                      [] answer.header = "good" /\ answer.length < more -> CallFails("too_much")
                      [] OTHER -> cursor' = after /\ at_call' = "recv_rest"
                                  /\ UNCHANGED <<tries, left, open, leaked, ret>>
    BY Zenon DEF ReadHttp
  <1>2. cursor + n \in Nat
    BY DEF NetAssumption, NetInv, PlaceOfCall, kHeader
  <1>3. UNCHANGED <<callVars, executed, file, short>>
    BY DEF ReadHttp
  <1> QED BY <1>1, <1>2, <1>3 DEF Complete

LEMMA ReceivingStep == NetAssumption /\ NetInv /\ Receive => NetInv'
  <1> SUFFICES ASSUME NetAssumption, NetInv, Receive PROVE NetInv'
    OBVIOUS
  <1>0. answer.length \in Nat
    BY DEF NetAssumption, NetInv, PlaceOfCall, LidarAnswers
  <1>1. CASE ReadHttp
    <2>1. /\ at_call = "recv_header" /\ call = "http_get"
          /\ UNCHANGED <<callVars, executed, file, short>>
      BY <1>1, HttpIsRead DEF NetInv, PlaceOfCall
    <2>2. CASE /\ at_call' \in {"recv_header", "recv_rest"} /\ cursor' \in Nat
               /\ UNCHANGED <<tries, left, open, leaked, got, ret>>
      BY <2>1, <2>2 DEF NetInv, PlaceOfCall, TriesInv, ContentInv, callVars, Waits
    <2>3. CASE HttpDone(answer.length)
      BY <1>0, <2>1, <2>3, HttpIsDone
    <2>4. ASSUME NEW outcome \in {"version", "no_room", "bad_response", "no_length", "too_much"},
                 CallFails(outcome)
          PROVE  NetInv'
      BY <2>1, <2>4, CallBroken
    <2> QED BY <1>1, <2>2, <2>3, <2>4, HttpIsRead
  <1>2. CASE ReadRest
    BY <1>0, <1>2, HttpIsDone DEF ReadRest
  <1>3. CASE RecvLength
    <2>1. CASE call = "recv_length_buffer" /\ answer.length >= BufferSize
      BY <1>3, <2>1, CallBroken DEF RecvLength
    <2>2. CASE ~(call = "recv_length_buffer" /\ answer.length >= BufferSize)
      BY <1>3, <2>2 DEF RecvLength, NetInv, PlaceOfCall, TriesInv, ContentInv, callVars, Waits
    <2> QED BY <2>1, <2>2
  <1>4. CASE RecvContent
    <2> DEFINE s == Damaged(Units(answer.length))
    <2>1. PICK took \in Takes(answer.length) :
            /\ at_call = "recv_content" /\ at_call' = "recv_md5" /\ got' = s
            /\ IF call = "recv_file"
               THEN file' = Written(got', took) /\ short' = (took < answer.length)
               ELSE UNCHANGED <<file, short>>
            /\ UNCHANGED <<callVars, tries, left, open, leaked, executed, cursor, ret>>
      BY <1>4 DEF RecvContent
    <2>2. s \in Seq(Nat) /\ Len(s) = answer.length
      BY <1>0, DamageIsSeen DEF NetInv, PlaceOfCall
    <2> HIDE DEF s
    <2>3. call = "recv_file" /\ ~short' => file' = got'
      <3> SUFFICES ASSUME call = "recv_file", ~short' PROVE file' = got'
        OBVIOUS
      <3>1. ~(took < answer.length) /\ file' = Written(s, took)
        BY <2>1
      <3>2. took = Len(s)
        BY <1>0, <2>2, <3>1 DEF Takes
      <3> QED BY <2>1, <2>2, <3>1, <3>2, WrittenWhole
    <2> QED BY <2>1, <2>3 DEF NetInv, PlaceOfCall, TriesInv, ContentInv, callVars, Waits
  <1>5. CASE CannotWrite
    BY <1>5, CallBroken DEF CannotWrite
  <1>6. CASE RecvMd5
    <2>1. /\ at_call = "recv_md5" /\ call \in {"recv_length_buffer", "recv_file"}
          /\ UNCHANGED <<callVars, executed, got, file, short>>
      BY <1>6 DEF RecvMd5, NetInv, PlaceOfCall
    <2>2. CASE got = Units(answer.length)
      <3>1. /\ at_call' = "returned" /\ ret' = "ok" /\ open' = 0
            /\ UNCHANGED <<leaked, tries, cursor>>
        BY <1>6, <2>1, <2>2 DEF RecvMd5, CallFails, CloseConnection, ReturnsWith
      <3>2. cursor' \in Nat /\ (call = "recv_file" /\ ~short' => file' = got')
        BY <2>1, <3>1 DEF NetInv, PlaceOfCall, ContentInv
      <3>3. got' = Units(answer.length) /\ call # "send_file"
        BY <2>1, <2>2
      <3> QED BY <2>1, <3>1, <3>2, <3>3, CallSucceeds DEF Waits
    <2>3. CASE got # Units(answer.length)
      BY <1>6, <2>1, <2>3, CallBroken DEF RecvMd5
    <2> QED BY <2>2, <2>3
  <1>7. CASE RecvReply
    BY <1>7 DEF RecvReply, NetInv, PlaceOfCall, TriesInv, ContentInv, callVars, Waits
  <1>8. CASE ReplyEnds
    <2>1. /\ at_call = "recv_reply" /\ call = "send_command"
          /\ UNCHANGED <<callVars, executed, got, file, short>>
      BY <1>8 DEF ReplyEnds, NetInv, PlaceOfCall
    <2>2. ASSUME CallFails("ok") PROVE NetInv'
      <3>1. /\ at_call' = "returned" /\ ret' = "ok" /\ open' = 0
            /\ UNCHANGED <<leaked, tries, cursor>>
        BY <2>2 DEF CallFails, CloseConnection, ReturnsWith
      <3>2. cursor' \in Nat
        BY <3>1 DEF NetInv, PlaceOfCall
      <3> QED BY <2>1, <3>1, <3>2, CallSucceeds DEF Waits
    <2> QED BY <1>8, <2>1, <2>2, CallBroken DEF ReplyEnds
  <1>9. CASE Breaks
    BY <1>9, CallBroken DEF Breaks, Waits
  <1> QED BY <1>1, <1>2, <1>3, <1>4, <1>5, <1>6, <1>7, <1>8, <1>9 DEF Receive

LEMMA ResultIsTold == NetAssumption /\ NetInv /\ TellResult => NetInv'
  <1> SUFFICES ASSUME NetAssumption, NetInv, TellResult PROVE NetInv'
    OBVIOUS
  <1>1. /\ at_call = "returned" /\ call = "http_get" /\ at_call' = "told" /\ ret' = Told
        /\ UNCHANGED <<callVars, tries, left, open, leaked, executed, cursor, got, file, short>>
    BY DEF TellResult
  <1>2. Told # "none" /\ (ret # "ok" => Told = ret)
        /\ (Told = "ok" => ret = "ok" /\ (request.what = "set" \/ Fits))
    BY <1>1 DEF Told, NetInv, PlaceOfCall
  <1>3. ASSUME Told = "ok", request.what # "set" PROVE Len(got) <= request.size
    <2>1. answer.length \in Nat /\ request.size \in Nat
      BY DEF NetAssumption, NetInv, PlaceOfCall, LidarAnswers, Requests
    <2>2. Len(got) = answer.length
      BY <1>1, <1>2, <1>3, <2>1, UnitsAre DEF NetInv, ContentInv
    <2> QED BY <1>2, <1>3, <2>1, <2>2 DEF Fits
  <1>4. PlaceOfCall'
    BY <1>1, <1>2 DEF NetInv, PlaceOfCall, callVars, Waits
  <1>5. TriesInv'
    <2>1. ret' = "not_sent" \/ ret # "not_sent"
      BY <1>1, <1>2
    <2> QED BY <1>1, <1>2, <2>1 DEF NetInv, TriesInv, callVars, Waits
  <1>6. ContentInv'
    BY <1>1, <1>2, <1>3 DEF NetInv, ContentInv, callVars
  <1> QED BY <1>4, <1>5, <1>6 DEF NetInv

LEMMA NetStep == NetAssumption /\ NetInv /\ [NetNext]_netVars => NetInv'
  <1> SUFFICES ASSUME NetAssumption, NetInv, [NetNext]_netVars PROVE NetInv'
    OBVIOUS
  <1>1. CASE UNCHANGED netVars
    BY <1>1 DEF netVars, callVars, NetInv, PlaceOfCall, TriesInv, ContentInv
  <1> QED BY <1>1, ConnectionStep, SendingStep, ReceivingStep, ResultIsTold
          DEF NetNext, Call, CallReturned

-----------------------------------------------------------------------------
(* Remainders, for sums that wrap around.                                  *)
LEMMA RemainderOf ==
  ASSUME NEW q \in Int, NEW W \in Nat \ {0}, NEW r \in 0..(W - 1)
  PROVE  (W*q + r) % W = r
  OBVIOUS

LEMMA HasRemainder ==
  ASSUME NEW x \in Int, NEW W \in Nat \ {0}
  PROVE  \E q \in Int : \E r \in 0..(W-1) : x = W*q + r
  <1> DEFINE T == {n \in Nat : \E q \in Int : x = W*q + n}
  <1>1. T # {}
    <2>1. CASE x >= 0
      <3>1. W*0 = 0 /\ x \in Nat
        BY <2>1
      <3>2. x = W*0 + x
        BY <3>1
      <3>3. \E q \in Int : x = W*q + x
        BY <3>2
      <3> QED BY <3>1, <3>3
    <2>2. CASE x < 0
      <3>1. x = W*x + (x - W*x) /\ x - W*x \in Int
        OBVIOUS
      <3>2. x - W*x >= 0
        <4>1. \A n \in Nat, k \in Nat \ {0} : k * n >= n
          OBVIOUS
        <4>2. W * (0-x) >= 0-x
          BY <2>2, <4>1
        <4>3. W * (0 - x) = 0 - W * x
          OBVIOUS
        <4>4. W * x \in Int
          OBVIOUS
        <4> QED BY <4>2, <4>3, <4>4
      <3>3. \E q \in Int : x = W*q + (x - W*x)
        BY <3>1
      <3>4. x - W*x \in Nat
        BY <3>1, <3>2
      <3> QED BY <3>3, <3>4
    <2> HIDE DEF T
    <2> QED BY <2>1, <2>2
  <1>2. PICK r \in T : \A m \in T : r <= m
    <2>1. T \subseteq Nat
      OBVIOUS
    <2> HIDE DEF T
    <2> QED BY <1>1, <2>1, LeastNumber
  <1>3. PICK q \in Int : x = W*q + r
    BY <1>2
  <1>4. r < W
    <2> SUFFICES ASSUME r >= W PROVE FALSE
      BY <1>2
    <2>1. W*q \in Int /\ W*(q+1) = W*q + W /\ r \in Nat
      OBVIOUS
    <2>2. x = W*(q+1) + (r - W)
      BY <1>3, <2>1
    <2>3. r - W \in T
      BY <2>1, <2>2
    <2>4. r <= r - W
      BY <1>2, <2>3
    <2> QED BY <2>1, <2>4
  <1> QED BY <1>3, <1>4

LEMMA RemaindersAdd ==
  ASSUME NEW W \in Nat \ {0}, NEW a \in Int, NEW b \in Int
  PROVE  (a + (b % W)) % W = (a + b) % W
  <1>1. PICK p \in Int, r \in 0..(W-1) : b = W*p + r
    BY HasRemainder
  <1>2. b % W = r
    BY <1>1, RemainderOf
  <1>7. a + r \in Int
    BY <1>1
  <1>3. PICK k \in Int, s \in 0..(W-1) : a + r = W*k + s
    BY <1>7, HasRemainder
  <1>4. W*p \in Int /\ W*k \in Int /\ W*(p+k) = W*p + W*k
    OBVIOUS
  <1>5. a + b = W*(p+k) + s
    BY <1>1, <1>3, <1>4
  <1>6. (a + r) % W = s
    BY <1>3, RemainderOf
  <1>8. p + k \in Int
    OBVIOUS
  <1>9. (W*(p+k) + s) % W = s
    BY <1>8, RemainderOf
  <1> QED BY <1>2, <1>5, <1>6, <1>9

LEMMA SumFollows ==
  ASSUME NEW W \in Nat \ {0}, NEW first \in Int, NEW sum \in Int, NEW last \in 0..(W - 1),
         NEW lose \in 0..(W - 1), (first + sum) % W = last
  PROVE  (first + ((sum + lose - last) % W)) % W = lose
  <1>1. PICK q \in Int, r \in 0..(W - 1) : first + sum = W*q + r
    BY HasRemainder
  <1>2. r = last
    BY <1>1, RemainderOf
  <1>3. W*q \in Int
    OBVIOUS
  <1>4. first + (sum + lose - last) = W*q + lose
    BY <1>1, <1>2, <1>3
  <1>5. (first + ((sum + lose - last) % W)) % W = (first + (sum + lose - last)) % W
    <2>1. sum + lose - last \in Int
      OBVIOUS
    <2> QED BY <2>1, RemaindersAdd
  <1> QED BY <1>4, <1>5, RemainderOf

-----------------------------------------------------------------------------
(* The commands to the lidar, for any threads that call, any number of     *)
(* calls and losses, and counters of any width.                            *)

Sections == {get_mode_section(m) : m \in Modes}

Steps       == Commands \cup Sections \cup {"none", "get_model", "get_mode", "calibration_mode_id"}
ReplySet    == Modes \cup Sections \cup {"none", "lost", "done"}

CallSet == [cmd : Commands \cup {"none"}, step : Steps, used : Nat, tries : Nat, answer : ReplySet,
            lose : 0..(CounterWrap - 1), alone : BOOLEAN, in_time : BOOLEAN, seen : SUBSET Modes]

(* A call that is alone has its own time, and is given up only when it     *)
(* took longer; a call that asks for a mode or its section has seen the    *)
(* lidar in that mode.                                                     *)
CallSound(r, time) ==
  /\ r \in CallSet /\ (r.cmd = "none" => r = Idle)
  /\ r.cmd # "none" /\ r.alone /\ SetTimeout[r.cmd] > 0 =>
       /\ time = SetTimeout[r.cmd] /\ r.used \in {0, time}
       /\ r.in_time => r.answer # "lost"
  /\ r.step \in Sections => \E m \in r.seen : r.step = get_mode_section(m)
  /\ r.step = "calibration_mode_id" => "calibration" \in r.seen
  /\ r.step = "get_mode" /\ r.answer \notin {"none", "lost"} => r.answer \in r.seen

CallsInv ==
  /\ commands \in [Callers -> CallSet] /\ timeout \in Nat \ {0}
  /\ commanded \in [mode : Modes, lastmode : Modes, lose : Nat]
  /\ \A t \in Callers : CallSound(commands[t], timeout)
  /\ \A t, u \in Callers : Busy(t) /\ commands[t].alone /\ Busy(u) => t = u
  /\ TimeoutComesBack

(* The counters of get_status.                                             *)
CountersInv ==
  /\ counters \in [first : 0..(CounterWrap - 1), last : 0..(CounterWrap - 1), called : Nat]
  /\ told \in 0..(CounterWrap - 1) /\ (counters.called = 0 => told = 0)
  /\ DifferencesAddUp

(* A stream that is closed has no descriptor.                              *)
StreamInv ==
  /\ streaming \in [step : {"closed", "opened", "started"}, fd : Nat, open : SUBSET Nat]
  /\ streaming.step = "closed" => streaming.fd = 0
  /\ StreamIsClosed

CommandInv ==
  CallsInv /\ CountersInv /\ StreamInv /\ SlowAnswersAreAwaited /\ RateIsOfAMode

LEMMA SectionsAre ==
  /\ Sections = {"galvo_framerate_motor", "galvo_framerate_calibration_mode",
                 "galvo_framerate_quiet_mode"}
  /\ \A m \in Modes : get_mode_section(m) \in Sections
  BY DEF Sections, Modes, get_mode_section

LEMMA TimesOfCommands ==
  ASSUME NEW c \in Commands
  PROVE  SetTimeout[c] \in Nat
  BY DEF SetTimeout, Commands

LEMMA IdleIsSound ==
  ASSUME CommandAssumption, NEW time
  PROVE  CallSound(Idle, time)
  <1>1. Idle \in CallSet
    <2>1. 0 \in 0..(CounterWrap - 1) /\ 0 \in Nat /\ {} \in SUBSET Modes
      BY DEF CommandAssumption
    <2>2. "none" \in Steps /\ "none" \in ReplySet
      BY Zenon DEF Steps, ReplySet
    <2>3. "none" \in Commands \cup {"none"} /\ TRUE \in BOOLEAN
      BY Zenon
    <2> QED BY <2>1, <2>2, <2>3, Zenon DEF CallSet, Idle
  <1>2. Idle.cmd = "none" /\ Idle.step = "none"
    BY DEF Idle
  <1>3. "none" \notin Sections
    BY SectionsAre
  <1> QED BY <1>1, <1>2, <1>3 DEF CallSound

LEMMA CommandStarts == CommandAssumption /\ CommandInit => CommandInv
  <1> SUFFICES ASSUME CommandAssumption, CommandInit PROVE CommandInv
    OBVIOUS
  <1>1. \A t \in Callers : commands[t] = Idle /\ ~Busy(t)
    BY DEF CommandInit, Busy, Idle
  <1>2. CallsInv
    <2>1. Idle \in CallSet
      BY IdleIsSound DEF CallSound
    <2>2. TimeoutComesBack
      BY DEF CommandInit, TimeoutComesBack
    <2> QED BY <1>1, <2>1, <2>2, IdleIsSound DEF CommandInit, CallsInv, InitialTimeout, Modes
  <1>3. CountersInv
    BY DEF CommandAssumption, CommandInit, CountersInv, DifferencesAddUp
  <1>4. StreamInv
    BY DEF CommandInit, StreamInv, StreamIsClosed, NoStream
  <1>5. SlowAnswersAreAwaited /\ RateIsOfAMode
    BY DEF CommandInit, NoResult, SlowAnswersAreAwaited, RateIsOfAMode
  <1> QED BY <1>2, <1>3, <1>4, <1>5 DEF CommandInv

(* Calls go on, or the lidar loses data, without any call that begins or   *)
(* returns.                                                                *)
LEMMA CallsGoOn ==
  ASSUME CommandInv, UNCHANGED <<timeout, lowered, counters, told, result, streaming>>,
         commanded' \in [mode : Modes, lastmode : Modes, lose : Nat],
         commands' \in [Callers -> CallSet],
         \A u \in Callers : /\ CallSound(commands'[u], timeout)
                            /\ commands'[u].cmd = commands[u].cmd
                            /\ commands'[u].alone = commands[u].alone
  PROVE  CommandInv'
  <1>1. CallsInv'
    <2>1. TimeoutComesBack'
      BY DEF CommandInv, CallsInv, TimeoutComesBack, Busy
    <2>2. \A t, u \in Callers : Busy(t)' /\ commands'[t].alone /\ Busy(u)' => t = u
      BY DEF CommandInv, CallsInv, Busy
    <2>3. timeout' = timeout /\ timeout \in Nat \ {0}
      BY DEF CommandInv, CallsInv
    <2> QED BY <2>1, <2>2, <2>3 DEF CallsInv
  <1>2. CountersInv' /\ StreamInv' /\ SlowAnswersAreAwaited' /\ RateIsOfAMode'
    BY DEF CommandInv, CountersInv, DifferencesAddUp, StreamInv, StreamIsClosed,
           SlowAnswersAreAwaited, RateIsOfAMode
  <1> QED BY <1>1, <1>2 DEF CommandInv

(* One call goes on.                                                       *)
LEMMA CallGoesOn ==
  ASSUME CommandInv, NEW t \in Callers, NEW r, CallSound(r, timeout),
         r.cmd = commands[t].cmd, r.alone = commands[t].alone,
         commands' = [commands EXCEPT ![t] = r],
         UNCHANGED <<timeout, commanded, lowered, counters, told, result, streaming>>
  PROVE  CommandInv'
  <1>1. r \in CallSet /\ commands \in [Callers -> CallSet]
    BY DEF CallSound, CommandInv, CallsInv
  <1>2. commands' \in [Callers -> CallSet]
    BY <1>1
  <1>3. \A u \in Callers : commands'[u] = IF u = t THEN r ELSE commands[u]
    BY <1>1
  <1>4. \A u \in Callers : CallSound(commands[u], timeout)
    BY DEF CommandInv, CallsInv
  <1>5. commanded' \in [mode : Modes, lastmode : Modes, lose : Nat]
    BY DEF CommandInv, CallsInv
  <1>6. \A u \in Callers : /\ CallSound(commands'[u], timeout)
                           /\ commands'[u].cmd = commands[u].cmd
                           /\ commands'[u].alone = commands[u].alone
    BY <1>3, <1>4
  <1> QED BY <1>2, <1>5, <1>6, CallsGoOn

LEMMA LosesData == CommandInv /\ Lose => CommandInv'
  <1> SUFFICES ASSUME CommandInv, Lose PROVE CommandInv'
    OBVIOUS
  <1>1. /\ commanded' = [commanded EXCEPT !.lose = @ + 1]
        /\ UNCHANGED <<timeout, lowered, counters, told, result, streaming, commands>>
    BY DEF Lose
  <1>2. commanded' \in [mode : Modes, lastmode : Modes, lose : Nat]
    BY <1>1 DEF CommandInv, CallsInv
  <1>3. commands' \in [Callers -> CallSet] /\ \A u \in Callers : CallSound(commands'[u], timeout)
    BY <1>1 DEF CommandInv, CallsInv
  <1> QED BY <1>1, <1>2, <1>3, CallsGoOn

LEMMA CommandIsSent ==
  ASSUME CommandInv, NEW t \in Callers, SendCommand(t)
  PROVE  CommandInv'
  <1> DEFINE r == [commands[t] EXCEPT !.used = timeout, !.tries = @ + 1]
  <1>1. /\ commands' = [commands EXCEPT ![t] = r]
        /\ UNCHANGED <<timeout, commanded, lowered, counters, told, result, streaming>>
    BY DEF SendCommand
  <1>2. commands[t] \in CallSet /\ CallSound(commands[t], timeout) /\ timeout \in Nat
    BY DEF CommandInv, CallsInv
  <1>3. r \in CallSet
    <2>1. \A f \in CallSet, n \in Nat : f.tries + 1 \in Nat
      BY DEF CallSet
    <2>2. \A f \in CallSet, m, n \in Nat : [f EXCEPT !.used = n, !.tries = m] \in CallSet
      BY DEF CallSet
    <2>3. commands[t] \in CallSet /\ timeout \in Nat
      BY <1>2
    <2> QED BY <2>1, <2>2, <2>3, Zenon
  <1>4. /\ r.used = timeout /\ r.cmd = commands[t].cmd /\ r.alone = commands[t].alone
        /\ r.step = commands[t].step /\ r.answer = commands[t].answer
        /\ r.in_time = commands[t].in_time /\ r.seen = commands[t].seen
    BY <1>2 DEF CallSet
  <1>5. r.cmd # "none"
    BY <1>4 DEF SendCommand, Busy
  <1> HIDE DEF r
  <1>6. CallSound(r, timeout)
    BY <1>2, <1>3, <1>4, <1>5 DEF CallSound
  <1> QED BY <1>1, <1>4, <1>6, CallGoesOn

LEMMA NextIsAsked ==
  ASSUME CommandInv, NEW t \in Callers, Busy(t), NEW step \in Steps, NextRequest(t, step),
         step \in Sections => \E m \in commands[t].seen : step = get_mode_section(m),
         step = "calibration_mode_id" => "calibration" \in commands[t].seen
  PROVE  CommandInv'
  <1> DEFINE r == [commands[t] EXCEPT !.step = step, !.used = 0, !.tries = 0, !.answer = "none"]
  <1>1. /\ commands' = [commands EXCEPT ![t] = r]
        /\ UNCHANGED <<timeout, commanded, lowered, counters, told, result, streaming>>
    BY DEF NextRequest
  <1>2. commands[t] \in CallSet /\ CallSound(commands[t], timeout) /\ timeout \in Nat
    BY DEF CommandInv, CallsInv
  <1>3. r \in CallSet
    BY <1>2 DEF CallSet, ReplySet
  <1>4. /\ r.used = 0 /\ r.cmd = commands[t].cmd /\ r.alone = commands[t].alone
        /\ r.step = step /\ r.answer = "none"
        /\ r.in_time = commands[t].in_time /\ r.seen = commands[t].seen
    BY <1>2 DEF CallSet
  <1>5. r.cmd # "none"
    BY <1>4 DEF Busy
  <1> HIDE DEF r
  <1>6. CallSound(r, timeout)
    BY <1>2, <1>3, <1>4, <1>5 DEF CallSound
  <1> QED BY <1>1, <1>4, <1>6, CallGoesOn

NewCall(f, c, step, alone, seen) ==
  [f EXCEPT !.cmd = c, !.step = step, !.alone = alone, !.seen = seen]

LEMMA NewCallIs ==
  ASSUME NEW f \in CallSet, NEW c \in Commands, NEW step \in Steps, NEW alone \in BOOLEAN,
         NEW seen \in SUBSET Modes
  PROVE  LET g == NewCall(f, c, step, alone, seen)
         IN  /\ g \in CallSet /\ g.cmd = c /\ g.step = step /\ g.used = f.used
             /\ g.answer = f.answer /\ g.in_time = f.in_time /\ g.alone = alone
  BY DEF CallSet, NewCall

LEMMA CommandBegins ==
  ASSUME CommandAssumption, CommandInv, NEW t \in Callers, NEW c \in Commands, Begin(t, c)
  PROVE  CommandInv'
  <1> DEFINE others == {u \in Callers : Busy(u)}
             first == FirstStep(c)
             modes == {commanded.mode}
             r == NewCall(Idle, c, first, others = {}, modes)
  <1>1. /\ ~Busy(t)
        /\ commands' = [u \in Callers |->
                          IF u = t THEN r
                          ELSE IF u \in others THEN [commands[u] EXCEPT !.alone = FALSE] ELSE commands[u]]
        /\ timeout' = IF SetTimeout[c] > 0 THEN SetTimeout[c] ELSE timeout
        /\ UNCHANGED <<commanded, counters, told, lowered, result, streaming>>
    BY Zenon DEF Begin, NewCall
  <1>2. /\ \A u \in Callers : commands[u] \in CallSet /\ CallSound(commands[u], timeout)
        /\ timeout \in Nat \ {0} /\ commanded.mode \in Modes
    BY DEF CommandInv, CallsInv
  <1>3. /\ r \in CallSet /\ r.cmd = c /\ r.step = FirstStep(c) /\ r.used = 0 /\ r.answer = "none"
        /\ r.in_time = TRUE /\ (r.alone => others = {})
    <2>2. Idle \in CallSet /\ Idle.used = 0 /\ Idle.answer = "none" /\ Idle.in_time = TRUE
      BY IdleIsSound DEF CallSound, Idle
    <2>3. FirstStep(c) \in Steps
      BY Zenon DEF FirstStep, Steps
    <2>4. {commanded.mode} \in SUBSET Modes
      BY <1>2
    <2>7. first \in Steps /\ modes \in SUBSET Modes
      BY <2>3, <2>4
    <2>8. ASSUME NEW d \in BOOLEAN
          PROVE  LET g == NewCall(Idle, c, first, d, modes)
                 IN  /\ g \in CallSet /\ g.cmd = c /\ g.step = first /\ g.used = 0
                     /\ g.answer = "none" /\ g.in_time = TRUE /\ g.alone = d
      <3> HIDE DEF first, modes
      <3>1. Idle \in CallSet
        BY <2>2
      <3> QED BY <2>2, <2>7, <3>1, NewCallIs
    <2> HIDE DEF others
    <2>5. CASE others = {}
      <3>1. r = NewCall(Idle, c, first, TRUE, modes)
        BY <2>5
      <3> HIDE DEF r
      <3>2. /\ r \in CallSet /\ r.cmd = c /\ r.step = first /\ r.used = 0
            /\ r.answer = "none" /\ r.in_time = TRUE
        BY <2>8, <3>1, Zenon
      <3> QED BY <2>5, <3>2
    <2>6. CASE others # {}
      <3>1. r = NewCall(Idle, c, first, FALSE, modes)
        BY <2>6
      <3> HIDE DEF r
      <3>2. /\ r \in CallSet /\ r.cmd = c /\ r.step = first /\ r.used = 0
            /\ r.answer = "none" /\ r.in_time = TRUE /\ r.alone = FALSE
        BY <2>8, <3>1, Zenon
      <3> QED BY <3>2
    <2> QED BY <2>5, <2>6
  <1>7. /\ FirstStep(c) \notin Sections \cup {"calibration_mode_id", "get_mode"} /\ c # "none"
        /\ SetTimeout[c] \in Nat
    BY SectionsAre, TimesOfCommands DEF FirstStep, Commands
  <1> HIDE DEF r
  <1>8. CallSound(r, timeout')
    <2>1. r.cmd # "none" /\ (SetTimeout[r.cmd] > 0 => timeout' = SetTimeout[r.cmd])
      BY <1>1, <1>3, <1>7
    <2>2. r.in_time => r.answer # "lost"
      BY <1>3
    <2>3. r.step \notin Sections /\ r.step # "calibration_mode_id" /\ r.step # "get_mode"
      BY <1>3, <1>7
    <2> QED BY <1>3, <2>1, <2>2, <2>3 DEF CallSound
  <1>9. ASSUME NEW u \in Callers, u # t
        PROVE  /\ commands'[u] \in CallSet /\ CallSound(commands'[u], timeout')
               /\ commands'[u].cmd = commands[u].cmd
               /\ commands[u].cmd # "none" => ~commands'[u].alone
    <2>1. CASE commands[u].cmd = "none"
      <3>1. commands[u] = Idle /\ commands'[u] = commands[u]
        BY <1>1, <1>2, <1>9, <2>1 DEF CallSound, Busy
      <3> QED BY <1>2, <2>1, <3>1, IdleIsSound
    <2>2. CASE commands[u].cmd # "none"
      <3> DEFINE f == commands[u]
                 g == [f EXCEPT !.alone = FALSE]
      <3>1. commands'[u] = g /\ f \in CallSet /\ CallSound(f, timeout)
        BY <1>1, <1>2, <1>9, <2>2 DEF Busy
      <3>2. g \in CallSet
        BY <3>1 DEF CallSet
      <3>3. /\ g.cmd = f.cmd /\ ~g.alone /\ g.step = f.step /\ g.seen = f.seen
            /\ g.answer = f.answer
        BY <3>1 DEF CallSet
      <3>4. f.cmd # "none"
        BY <2>2
      <3> HIDE DEF f, g
      <3>5. CallSound(g, timeout')
        BY <3>1, <3>2, <3>3, <3>4 DEF CallSound
      <3>6. f.cmd = commands[u].cmd
        BY DEF f
      <3> QED BY <3>1, <3>2, <3>3, <3>5, <3>6
    <2> QED BY <2>1, <2>2
  <1>10. commands'[t] = r
    BY <1>1
  <1>11. commands' \in [Callers -> CallSet]
    <2>1. \A u \in Callers : commands'[u] \in CallSet
      BY <1>3, <1>9, <1>10
    <2>2. commands' = [u \in Callers |-> commands'[u]]
      BY <1>1
    <2> QED BY <2>1, <2>2
  <1>12. \A u \in Callers : CallSound(commands'[u], timeout')
    BY <1>8, <1>9, <1>10
  <1>13. \A u, v \in Callers : Busy(u)' /\ commands'[u].alone /\ Busy(v)' => u = v
    <2> SUFFICES ASSUME NEW u \in Callers, NEW v \in Callers, Busy(u)', commands'[u].alone, Busy(v)'
                 PROVE  u = v
      OBVIOUS
    <2>1. u = t
      BY <1>9 DEF Busy
    <2>2. others = {}
      BY <1>3, <1>10, <2>1
    <2>3. v = t
      BY <1>9, <2>2 DEF Busy
    <2> QED BY <2>1, <2>3
  <1>14. TimeoutComesBack'
    <2> SUFFICES ASSUME lowered', \A u \in Callers : Busy(u)' => SetTimeout[commands'[u].cmd] = 0
                 PROVE  timeout' = kDefaultTimeoutSec
      BY DEF TimeoutComesBack
    <2>1. SetTimeout[c] = 0
      BY <1>3, <1>7, <1>10 DEF Busy
    <2>2. \A u \in Callers : Busy(u) => SetTimeout[commands[u].cmd] = 0
      BY <1>1, <1>9 DEF Busy
    <2> QED BY <1>1, <2>1, <2>2 DEF CommandInv, CallsInv, TimeoutComesBack
  <1>15. timeout' \in Nat \ {0} /\ commanded' \in [mode : Modes, lastmode : Modes, lose : Nat]
    BY <1>1, <1>7 DEF CommandInv, CallsInv
  <1>16. CallsInv'
    BY <1>11, <1>12, <1>13, <1>14, <1>15 DEF CallsInv
  <1>17. CountersInv' /\ StreamInv' /\ SlowAnswersAreAwaited' /\ RateIsOfAMode'
    BY <1>1 DEF CommandInv, CountersInv, DifferencesAddUp, StreamInv, StreamIsClosed,
                SlowAnswersAreAwaited, RateIsOfAMode
  <1> QED BY <1>16, <1>17 DEF CommandInv

LEMMA SeenGrows ==
  ASSUME NEW time, NEW f, CallSound(f, time), f.cmd # "none", NEW m \in Modes
  PROVE  LET g == [f EXCEPT !.seen = @ \cup {m}]
         IN  CallSound(g, time) /\ g.cmd = f.cmd /\ g.alone = f.alone
  <1> DEFINE g == [f EXCEPT !.seen = @ \cup {m}]
  <1>1. f \in CallSet
    BY DEF CallSound
  <1>2. g \in CallSet
    <2>1. \A h \in CallSet, S \in SUBSET Modes : [h EXCEPT !.seen = S] \in CallSet
      BY DEF CallSet
    <2>2. f.seen \cup {m} \in SUBSET Modes
      BY <1>1 DEF CallSet
    <2> QED BY <1>1, <2>1, <2>2, Zenon
  <1>3. /\ g.cmd = f.cmd /\ g.alone = f.alone /\ g.step = f.step /\ g.used = f.used
        /\ g.answer = f.answer /\ g.in_time = f.in_time /\ g.seen = f.seen \cup {m}
    BY <1>1 DEF CallSet
  <1> HIDE DEF g
  <1>4. CallSound(g, time)
    BY <1>2, <1>3 DEF CallSound
  <1>5. g.cmd = f.cmd /\ g.alone = f.alone
    BY <1>3
  <1> QED BY <1>4, <1>5 DEF g

(* The lidar answers in time, or too late.                                 *)
LEMMA AnswerIsSound ==
  ASSUME CommandAssumption, CommandInv, NEW t \in Callers, Busy(t), commands[t].answer = "none",
         NEW m \in Modes, commands[t].step # "set_mode" => m = commanded.mode
  PROVE  LET g == [commands[t] EXCEPT !.answer = ReplyContent(t),
                                      !.lose = commanded.lose % CounterWrap, !.seen = @ \cup {m}]
         IN  CallSound(g, timeout) /\ g.cmd = commands[t].cmd /\ g.alone = commands[t].alone
  <1> DEFINE f == commands[t]
             g == [f EXCEPT !.answer = ReplyContent(t),
                            !.lose = commanded.lose % CounterWrap, !.seen = @ \cup {m}]
  <1>1. f \in CallSet /\ CallSound(f, timeout) /\ f.cmd # "none" /\ commanded.mode \in Modes
        /\ commanded.lose \in Nat
    BY DEF CommandInv, CallsInv, Busy
  <1>2. /\ ReplyContent(t) \in ReplySet \ {"none", "lost"}
        /\ f.step = "get_mode" => ReplyContent(t) = commanded.mode
    BY <1>1, SectionsAre DEF ReplyContent, Reported, ReplySet, Modes
  <1>3. commanded.lose % CounterWrap \in 0..(CounterWrap - 1)
    BY <1>1 DEF CommandAssumption
  <1>4. f.seen \cup {m} \in SUBSET Modes
    BY <1>1 DEF CallSet
  <1>5. \A h \in CallSet, a \in ReplySet, n \in 0..(CounterWrap - 1), S \in SUBSET Modes :
          [h EXCEPT !.answer = a, !.lose = n, !.seen = S] \in CallSet
    BY DEF CallSet
  <1>6. g \in CallSet
    <2>1. ReplyContent(t) \in ReplySet
      BY <1>2
    <2> HIDE DEF f
    <2> QED BY <1>1, <1>3, <1>4, <1>5, <2>1, Zenon
  <1>9. /\ g.cmd = f.cmd /\ g.alone = f.alone /\ g.step = f.step
        /\ g.used = f.used /\ g.answer = ReplyContent(t) /\ g.in_time = f.in_time
        /\ g.seen = f.seen \cup {m}
    <2> HIDE DEF f
    <2> QED BY <1>1 DEF CallSet
  <1> HIDE DEF f, g
  <1>7. CallSound(g, timeout)
    <2>1. g.step = "get_mode" => g.answer \in g.seen
      BY <1>2, <1>9 DEF f
    <2>2. g.answer # "lost"
      BY <1>2, <1>9
    <2> QED BY <1>1, <1>6, <1>9, <2>1, <2>2 DEF CallSound
  <1>8. g.cmd = f.cmd /\ g.alone = f.alone
    BY <1>9
  <1> QED BY <1>7, <1>8 DEF f, g

LEMMA LateIsSound ==
  ASSUME CommandAssumption, CommandInv, NEW t \in Callers, Busy(t), commands[t].answer = "none",
         commands[t].used > 0, NEW m \in Modes, NEW duration \in Nat, ~(duration <= commands[t].used)
  PROVE  LET g == [commands[t] EXCEPT !.used = 0, !.seen = @ \cup {m},
                     !.answer = IF commands[t].tries < 2 THEN "none" ELSE "lost",
                     !.in_time = @ /\ duration <= SetTimeout[commands[t].cmd]]
         IN  CallSound(g, timeout) /\ g.cmd = commands[t].cmd /\ g.alone = commands[t].alone
  <1> DEFINE f == commands[t]
             late == f.in_time /\ duration <= SetTimeout[f.cmd]
             reply == IF f.tries < 2 THEN "none" ELSE "lost"
             g == [f EXCEPT !.used = 0, !.seen = @ \cup {m}, !.answer = reply, !.in_time = late]
  <1>1. f \in CallSet /\ CallSound(f, timeout) /\ f.cmd # "none"
    BY DEF CommandInv, CallsInv, Busy
  <1>2. f.cmd \in Commands /\ SetTimeout[f.cmd] \in Nat /\ f.used \in Nat
    BY <1>1, TimesOfCommands DEF CallSet
  <1>3. reply \in {"none", "lost"} /\ late \in BOOLEAN
    BY Zenon
  <1>4. f.seen \cup {m} \in SUBSET Modes
    BY <1>1 DEF CallSet
  <1>5. \A h \in CallSet, a \in ReplySet, b \in BOOLEAN, S \in SUBSET Modes :
          [h EXCEPT !.used = 0, !.seen = S, !.answer = a, !.in_time = b] \in CallSet
    BY DEF CallSet
  <1>6. g \in CallSet
    <2>1. reply \in ReplySet
      BY <1>3 DEF ReplySet
    <2> HIDE DEF f, late, reply
    <2> QED BY <1>1, <1>3, <1>4, <1>5, <2>1, Zenon
  <1>11. /\ g.cmd = f.cmd /\ g.alone = f.alone /\ g.step = f.step
         /\ g.used = 0 /\ g.answer = reply /\ g.in_time = late /\ g.seen = f.seen \cup {m}
    <2> HIDE DEF f, late, reply
    <2> QED BY <1>1, <1>3 DEF CallSet
  <1>7. f.alone /\ SetTimeout[f.cmd] > 0 => ~late
    <2>1. f.alone /\ SetTimeout[f.cmd] > 0 => f.used = SetTimeout[f.cmd]
      BY <1>1 DEF CallSound
    <2> QED BY <1>2, <2>1
  <1>8. f.alone /\ SetTimeout[f.cmd] > 0 => timeout = SetTimeout[f.cmd]
    BY <1>1 DEF CallSound
  <1> HIDE DEF f, g, late, reply
  <1>9. CallSound(g, timeout)
    BY <1>1, <1>3, <1>6, <1>7, <1>8, <1>11 DEF CallSound
  <1>10. g.cmd = f.cmd /\ g.alone = f.alone
    BY <1>11
  <1> QED BY <1>9, <1>10 DEF f, g, late, reply

CallAnswered(t, m) ==
  [commands[t] EXCEPT !.answer = ReplyContent(t), !.lose = commanded.lose % CounterWrap,
                      !.seen = @ \cup {m}]
CallLate(t, m, duration) ==
  [commands[t] EXCEPT !.used = 0, !.seen = @ \cup {m},
                      !.answer = IF commands[t].tries < 2 THEN "none" ELSE "lost",
                      !.in_time = @ /\ duration <= SetTimeout[commands[t].cmd]]
CallSees(t, m) == [commands[t] EXCEPT !.seen = @ \cup {m}]

LEMMA CommandIsExecuted ==
  ASSUME CommandAssumption, CommandInv, NEW t \in Callers, NEW duration \in Nat, Execute(t, duration)
  PROVE  CommandInv'
  <1>1. /\ Busy(t) /\ commands[t].used > 0 /\ commands[t].answer = "none"
        /\ \E m \in IF commands[t].step = "set_mode" THEN Modes ELSE {commanded.mode} :
             /\ commanded' = [commanded EXCEPT !.mode = m,
                                !.lastmode = IF m # commanded.mode THEN commanded.mode ELSE @]
             /\ commands' = [u \in Callers |->
                  IF u # t THEN IF Busy(u) THEN CallSees(u, m) ELSE commands[u]
                  ELSE IF duration <= commands[t].used THEN CallAnswered(t, m) ELSE CallLate(t, m, duration)]
        /\ UNCHANGED <<timeout, counters, told, lowered, result, streaming>>
    BY Zenon DEF Execute, CallAnswered, CallLate, CallSees
  <1>2. /\ commanded \in [mode : Modes, lastmode : Modes, lose : Nat]
        /\ \A u \in Callers : commands[u] \in CallSet /\ CallSound(commands[u], timeout)
    BY DEF CommandInv, CallsInv
  <1>3. PICK m \in Modes :
          /\ commands[t].step # "set_mode" => m = commanded.mode
          /\ commanded' = [commanded EXCEPT !.mode = m,
                             !.lastmode = IF m # commanded.mode THEN commanded.mode ELSE @]
          /\ commands' = [u \in Callers |->
               IF u # t THEN IF Busy(u) THEN CallSees(u, m) ELSE commands[u]
               ELSE IF duration <= commands[t].used THEN CallAnswered(t, m) ELSE CallLate(t, m, duration)]
    <2>1. commanded.mode \in Modes
      BY <1>2
    <2>2. \A m \in IF commands[t].step = "set_mode" THEN Modes ELSE {commanded.mode} :
            m \in Modes /\ (commands[t].step # "set_mode" => m = commanded.mode)
      BY <2>1, Zenon
    <2> QED BY <1>1, <2>2, Zenon
  <1>4. commanded' \in [mode : Modes, lastmode : Modes, lose : Nat]
    BY <1>2, <1>3
  <1>10. /\ Busy(t) /\ commands[t].used > 0 /\ commands[t].answer = "none"
         /\ commands[t].step # "set_mode" => m = commanded.mode
    BY <1>1, <1>3, Zenon
  <1>5. ~(duration <= commands[t].used) =>
          CallSound(CallLate(t, m, duration), timeout) /\ CallLate(t, m, duration).cmd = commands[t].cmd /\ CallLate(t, m, duration).alone = commands[t].alone
    BY <1>10, LateIsSound, Zenon DEF CallLate
  <1>6. CallSound(CallAnswered(t, m), timeout) /\ CallAnswered(t, m).cmd = commands[t].cmd
          /\ CallAnswered(t, m).alone = commands[t].alone
    BY <1>10, AnswerIsSound, Zenon DEF CallAnswered
  <1>7. \A u \in Callers : Busy(u) =>
          CallSound(CallSees(u, m), timeout) /\ CallSees(u, m).cmd = commands[u].cmd
            /\ CallSees(u, m).alone = commands[u].alone
    BY <1>2, SeenGrows DEF Busy, CallSees
  <1>8. \A u \in Callers : /\ CallSound(commands'[u], timeout)
                           /\ commands'[u].cmd = commands[u].cmd
                           /\ commands'[u].alone = commands[u].alone
    <2> TAKE u \in Callers
    <2>1. CASE u = t /\ duration <= commands[t].used
      <3>1. commands'[u] = CallAnswered(t, m)
        BY <1>3, <2>1
      <3> QED BY <1>6, <2>1, <3>1
    <2>2. CASE u = t /\ ~(duration <= commands[t].used)
      <3>1. commands'[u] = CallLate(t, m, duration)
        BY <1>3, <2>2
      <3> QED BY <1>5, <2>2, <3>1
    <2>3. CASE u # t /\ Busy(u)
      <3>1. commands'[u] = CallSees(u, m)
        BY <1>3, <2>3
      <3> QED BY <1>7, <2>3, <3>1
    <2>4. CASE u # t /\ ~Busy(u)
      <3>1. commands'[u] = commands[u]
        BY <1>3, <2>4
      <3> QED BY <1>2, <3>1
    <2> QED BY <2>1, <2>2, <2>3, <2>4
  <1>9. commands' \in [Callers -> CallSet]
    <2>1. \A u \in Callers : commands'[u] \in CallSet
      BY <1>8 DEF CallSound
    <2>2. commands' = [u \in Callers |-> commands'[u]]
      BY <1>3
    <2> QED BY <2>1, <2>2
  <1> QED BY <1>1, <1>4, <1>8, <1>9, CallsGoOn

-----------------------------------------------------------------------------
(* A call returns: a timeout that is lowered meanwhile is nobody else's.   *)
LEMMA CallIsOver ==
  ASSUME CommandAssumption, CommandInv, NEW t \in Callers, Busy(t), NEW ok \in BOOLEAN, NEW section,
         CommandReturns(t, ok, section), CountersInv',
         ok \/ commands[t].answer = "lost",
         section # "none" => \E m \in commands[t].seen : section = get_mode_section(m)
  PROVE  CommandInv'
  <1>1. /\ commands' = [commands EXCEPT ![t] = Idle]
        /\ IF LowersTimeout(commands[t].cmd, commands[t].answer # "lost")
           THEN timeout' = kDefaultTimeoutSec /\ lowered' = TRUE
           ELSE UNCHANGED <<timeout, lowered>>
        /\ UNCHANGED <<commanded, streaming>>
        /\ result' = [cmd |-> commands[t].cmd, ok |-> ok,
                      due |-> commands[t].alone /\ commands[t].in_time
                                /\ SetTimeout[commands[t].cmd] > 0,
                      section |-> section, seen |-> commands[t].seen]
    BY DEF CommandReturns
  <1>2. /\ commands \in [Callers -> CallSet] /\ timeout \in Nat \ {0}
        /\ \A u \in Callers : CallSound(commands[u], timeout)
        /\ commanded \in [mode : Modes, lastmode : Modes, lose : Nat]
    BY DEF CommandInv, CallsInv
  <1>3. Idle \in CallSet /\ Idle.cmd = "none" /\ \A time : CallSound(Idle, time)
    BY IdleIsSound DEF CallSound, Idle
  <1>4. \A u \in Callers : commands'[u] = IF u = t THEN Idle ELSE commands[u]
    BY <1>1, <1>2
  <1>5. commands' \in [Callers -> CallSet]
    BY <1>1, <1>2, <1>3
  <1>6. timeout' \in Nat \ {0}
    BY <1>1, <1>2 DEF kDefaultTimeoutSec
  <1>7. ASSUME NEW u \in Callers PROVE CallSound(commands'[u], timeout')
    <2>1. CASE u = t
      BY <1>3, <1>4, <2>1
    <2>2. CASE u # t
      <3>1. commands'[u] = commands[u] /\ CallSound(commands[u], timeout)
        BY <1>2, <1>4, <2>2
      <3>2. ~(commands[u].cmd # "none" /\ commands[u].alone)
        BY <2>2 DEF CommandInv, CallsInv, Busy
      <3> QED BY <3>1, <3>2 DEF CallSound
    <2> QED BY <2>1, <2>2
  <1>8. \A u, v \in Callers : Busy(u)' /\ commands'[u].alone /\ Busy(v)' => u = v
    BY <1>3, <1>4 DEF CommandInv, CallsInv, Busy
  <1>9. TimeoutComesBack'
    <2> SUFFICES ASSUME lowered', \A u \in Callers : Busy(u)' => SetTimeout[commands'[u].cmd] = 0
                 PROVE  timeout' = kDefaultTimeoutSec
      BY DEF TimeoutComesBack
    <2>1. CASE LowersTimeout(commands[t].cmd, commands[t].answer # "lost")
      BY <1>1, <2>1
    <2>2. CASE ~LowersTimeout(commands[t].cmd, commands[t].answer # "lost")
      <3>1. commands[t].cmd \in Commands
        BY <1>2 DEF Busy, CallSet
      <3>2. SetTimeout[commands[t].cmd] = 0
        BY <2>2, <3>1, TimesOfCommands DEF LowersTimeout
      <3>3. \A u \in Callers : Busy(u) => SetTimeout[commands[u].cmd] = 0
        BY <1>4, <3>2 DEF Busy
      <3>4. timeout' = timeout /\ lowered
        BY <1>1, <2>2
      <3> QED BY <3>3, <3>4 DEF CommandInv, CallsInv, TimeoutComesBack
    <2> QED BY <2>1, <2>2
  <1>10. CallsInv'
    BY <1>1, <1>2, <1>5, <1>6, <1>7, <1>8, <1>9 DEF CallsInv
  <1>11. SlowAnswersAreAwaited'
    <2>1. commands[t].alone /\ commands[t].in_time /\ SetTimeout[commands[t].cmd] > 0
            => commands[t].answer # "lost"
      BY <1>2 DEF CallSound, Busy
    <2> QED BY <1>1, <2>1 DEF SlowAnswersAreAwaited
  <1>12. RateIsOfAMode'
    <2>1. result'.section = section /\ result'.seen = commands[t].seen
      BY <1>1
    <2> QED BY <2>1 DEF RateIsOfAMode
  <1>13. StreamInv'
    BY <1>1 DEF CommandInv, StreamInv, StreamIsClosed
  <1> QED BY <1>10, <1>11, <1>12, <1>13 DEF CommandInv

CounterSet == [first : 0..(CounterWrap - 1), last : 0..(CounterWrap - 1), called : Nat]

LEMMA CountersAfter ==
  ASSUME NEW c \in CounterSet, NEW n \in 0..(CounterWrap - 1), NEW get_diff \in BOOLEAN
  PROVE  LET k == [RememberedCounters(c, n, get_diff) EXCEPT !.called = @ + 1]
         IN  /\ k \in CounterSet /\ k.called = c.called + 1
             /\ k.first = (IF c.called = 0 THEN n ELSE c.first)
             /\ k.last = (IF c.called = 0 \/ get_diff THEN n ELSE c.last)
  <1> DEFINE r == RememberedCounters(c, n, get_diff)
  <1>1. /\ r \in CounterSet /\ r.called = c.called
        /\ r.first = (IF c.called = 0 THEN n ELSE c.first)
        /\ r.last = (IF c.called = 0 \/ get_diff THEN n ELSE c.last)
    <2>1. CASE c.called = 0
      <3>1. r = [c EXCEPT !.first = n, !.last = n]
        BY <2>1 DEF RememberedCounters
      <3> HIDE DEF r
      <3> QED BY <2>1, <3>1 DEF CounterSet
    <2>2. CASE c.called # 0 /\ get_diff
      <3>1. r = [c EXCEPT !.last = n]
        BY <2>2 DEF RememberedCounters
      <3> HIDE DEF r
      <3> QED BY <2>2, <3>1 DEF CounterSet
    <2>3. CASE c.called # 0 /\ ~get_diff
      <3>1. r = c
        BY <2>3 DEF RememberedCounters
      <3> HIDE DEF r
      <3> QED BY <2>3, <3>1 DEF CounterSet
    <2> QED BY <2>1, <2>2, <2>3
  <1> HIDE DEF r
  <1>2. r.called + 1 \in Nat
    BY <1>1 DEF CounterSet
  <1>3. \A f \in CounterSet, m \in Nat :
          LET k == [f EXCEPT !.called = m]
          IN  k \in CounterSet /\ k.called = m /\ k.first = f.first /\ k.last = f.last
    BY DEF CounterSet
  <1>4. LET k == [r EXCEPT !.called = @ + 1]
        IN  k \in CounterSet /\ k.called = r.called + 1 /\ k.first = r.first /\ k.last = r.last
    BY <1>1, <1>2, <1>3, Zenon
  <1> QED BY <1>1, <1>4, Zenon DEF r

LEMMA StatusIsTold ==
  ASSUME CommandAssumption, CommandInv, NEW t \in Callers, NEW get_diff \in BOOLEAN,
         GotStatus(t, get_diff)
  PROVE  CommandInv'
  <1> DEFINE W == CounterWrap
             lose == commands[t].lose
             last == IF counters.called = 0 THEN lose ELSE counters.last
  <1>1. /\ counters' = [RememberedCounters(counters, lose, get_diff) EXCEPT !.called = @ + 1]
        /\ told' = IF get_diff THEN (told + lose - last) % W ELSE told
    BY Zenon DEF GotStatus
  <1>2. Busy(t) /\ CommandReturns(t, TRUE, "none")
    BY DEF GotStatus, Busy
  <1>3. /\ counters \in CounterSet
        /\ told \in 0..(W - 1) /\ W \in Nat \ {0}
        /\ counters.called = 0 => told = 0
        /\ counters.called > 0 => (counters.first + told) % W = counters.last
    BY DEF CommandAssumption, CommandInv, CountersInv, DifferencesAddUp, CounterSet
  <1>4. lose \in 0..(W - 1)
    BY DEF CommandInv, CallsInv, CallSet
  <1>5. /\ counters' \in CounterSet /\ counters'.called = counters.called + 1
        /\ counters'.first = (IF counters.called = 0 THEN lose ELSE counters.first)
        /\ counters'.last = (IF counters.called = 0 \/ get_diff THEN lose ELSE counters.last)
    <2>1. lose \in 0..(CounterWrap - 1) /\ counters \in CounterSet
      BY <1>3, <1>4
    <2>2. counters' = [RememberedCounters(counters, lose, get_diff) EXCEPT !.called = @ + 1]
      BY <1>1
    <2> HIDE DEF lose
    <2> QED BY ONLY <2>1, <2>2, get_diff \in BOOLEAN, CountersAfter, Zenon
  <1>6. /\ counters.called \in Nat /\ counters.first \in 0..(W - 1) /\ counters.last \in 0..(W - 1)
    BY <1>3 DEF CounterSet
  <1> HIDE DEF lose, W
  <1>7. /\ told' \in 0..(W - 1)
        /\ (counters'.first + told') % W = counters'.last
    <2>1. CASE counters.called = 0
      <3>1. told' = 0
        <4>1. lose \in Int /\ 0 + lose - lose = 0 /\ 0 % W = 0
          BY <1>3, <1>4
        <4> QED BY <1>1, <1>3, <2>1, <4>1
      <3>2. (lose + 0) % W = lose /\ 0 \in 0..(W - 1)
        BY <1>3, <1>4
      <3> QED BY <1>5, <2>1, <3>1, <3>2
    <2>2. CASE counters.called # 0 /\ get_diff
      <3> DEFINE first == counters.first
                 before == counters.last
      <3>1. told' = (told + lose - before) % W
        BY <1>1, <2>2
      <3>2. first \in Int /\ told \in Int /\ before \in 0..(W - 1) /\ (first + told) % W = before
        BY <1>3, <1>6, <2>2
      <3>3. counters'.first = first /\ counters'.last = lose
        BY <1>5, <2>2
      <3> HIDE DEF first, before
      <3>4. (first + ((told + lose - before) % W)) % W = lose
        <4>1. W \in Nat \ {0}
          BY <1>3
        <4>2. lose \in 0..(W - 1)
          BY <1>4
        <4>3. first \in Int
          BY <3>2
        <4>4. told \in Int
          BY <3>2
        <4>5. before \in 0..(W - 1)
          BY <3>2
        <4>6. (first + told) % W = before
          BY <3>2
        <4> QED BY ONLY <4>1, <4>2, <4>3, <4>4, <4>5, <4>6, SumFollows
      <3>5. told' \in 0..(W - 1)
        BY <1>3, <1>4, <3>1, <3>2
      <3> QED BY <3>1, <3>3, <3>4, <3>5
    <2>3. CASE counters.called # 0 /\ ~get_diff
      <3>1. told' = told /\ counters'.first = counters.first /\ counters'.last = counters.last
        BY <1>1, <1>5, <2>3
      <3> QED BY <1>3, <1>6, <2>3, <3>1
    <2> QED BY <2>1, <2>2, <2>3
  <1>8. CountersInv'
    BY <1>5, <1>6, <1>7 DEF CountersInv, DifferencesAddUp, CounterSet, W
  <1> QED BY <1>2, <1>8, CallIsOver

LEMMA RateIsAsked ==
  ASSUME CommandAssumption, CommandInv, NEW t \in Callers, FrameRate(t)
  PROVE  CommandInv'
  <1> DEFINE c == commands[t]
  <1>1. /\ c.cmd = "get_frame_rate" /\ c.answer \notin {"none", "lost"} /\ Busy(t)
    BY DEF FrameRate, Busy
  <1>2. c \in CallSet /\ CallSound(c, timeout)
    BY DEF CommandInv, CallsInv
  <1>3. \/ c.step = "get_model" /\ \E s \in {"get_frame_rate", "get_mode"} : NextRequest(t, s)
        \/ /\ c.step = "get_mode"
           /\ NextRequest(t, IF c.answer = "calibration" THEN "calibration_mode_id"
                             ELSE get_mode_section(c.answer))
        \/ c.step = "calibration_mode_id" /\ NextRequest(t, get_mode_section("calibration"))
        \/ /\ c.step \in {"get_frame_rate"} \cup Sections
           /\ CommandReturns(t, TRUE, IF c.step = "get_frame_rate" THEN "none" ELSE c.step)
           /\ UNCHANGED <<counters, told>>
    BY Zenon DEF FrameRate, Sections
  <1>4. c.seen \subseteq Modes
    BY <1>2 DEF CallSet
  <1>5. "calibration" \in Modes
    BY DEF Modes
  <1>6. ASSUME NEW s \in {"get_frame_rate", "get_mode"}, NextRequest(t, s) PROVE CommandInv'
    <2>1. s \in Steps /\ s \notin Sections /\ s # "calibration_mode_id"
      BY SectionsAre DEF Steps, Commands
    <2> QED BY <1>1, <1>6, <2>1, NextIsAsked
  <1>7. ASSUME NEW m \in c.seen, NextRequest(t, get_mode_section(m)) PROVE CommandInv'
    <2>1. m \in Modes
      BY <1>4
    <2>2. get_mode_section(m) \in Sections /\ get_mode_section(m) \in Steps
      BY <2>1, SectionsAre DEF Steps
    <2>3. get_mode_section(m) # "calibration_mode_id"
      BY <2>2, SectionsAre
    <2> QED BY <1>1, <1>7, <2>2, <2>3, NextIsAsked
  <1>8. CASE /\ c.step = "get_mode"
             /\ NextRequest(t, IF c.answer = "calibration" THEN "calibration_mode_id"
                               ELSE get_mode_section(c.answer))
    <2>1. c.answer \in c.seen
      BY <1>1, <1>2, <1>8 DEF CallSound
    <2>2. CASE c.answer = "calibration"
      <3>1. NextRequest(t, "calibration_mode_id")
        BY <1>8, <2>2
      <3>2. "calibration_mode_id" \in Steps /\ "calibration_mode_id" \notin Sections
        BY SectionsAre DEF Steps
      <3>3. "calibration" \in c.seen
        BY <2>1, <2>2
      <3> QED BY <1>1, <3>1, <3>2, <3>3, NextIsAsked
    <2>3. CASE c.answer # "calibration"
      <3>1. NextRequest(t, get_mode_section(c.answer))
        BY <1>8, <2>3
      <3> QED BY <1>7, <2>1, <3>1
    <2> QED BY <2>2, <2>3
  <1>9. CASE c.step = "calibration_mode_id" /\ NextRequest(t, get_mode_section("calibration"))
    <2>1. "calibration" \in c.seen
      BY <1>2, <1>9 DEF CallSound
    <2> QED BY <1>7, <1>9, <2>1
  <1>10. CASE /\ c.step \in {"get_frame_rate"} \cup Sections
              /\ CommandReturns(t, TRUE, IF c.step = "get_frame_rate" THEN "none" ELSE c.step)
              /\ UNCHANGED <<counters, told>>
    <2>1. CountersInv'
      BY <1>10 DEF CommandInv, CountersInv, DifferencesAddUp
    <2>2. c.step \in Sections => \E m \in c.seen : c.step = get_mode_section(m)
      BY <1>2 DEF CallSound
    <2>3. CASE c.step = "get_frame_rate"
      <3>1. CommandReturns(t, TRUE, "none")
        BY <1>10, <2>3
      <3> QED BY <1>1, <2>1, <3>1, CallIsOver
    <2>4. CASE c.step # "get_frame_rate"
      <3>1. CommandReturns(t, TRUE, c.step) /\ c.step \in Sections
        BY <1>10, <2>4
      <3> QED BY <1>1, <2>1, <2>2, <3>1, CallIsOver
    <2> QED BY <2>3, <2>4
  <1> QED BY <1>3, <1>6, <1>8, <1>9, <1>10

LEMMA StreamMoves ==
  CommandInv /\ (open_streaming \/ start_streaming \/ close_streaming) => CommandInv'
  <1> SUFFICES ASSUME CommandInv, open_streaming \/ start_streaming \/ close_streaming
               PROVE  CommandInv'
    OBVIOUS
  <1>1. UNCHANGED <<timeout, commanded, counters, told, commands, calls, lowered, result>>
    BY DEF open_streaming, start_streaming, close_streaming, StreamStep
  <1>2. CallsInv' /\ CountersInv' /\ SlowAnswersAreAwaited' /\ RateIsOfAMode'
    BY <1>1 DEF CommandInv, CallsInv, CallSound, CountersInv, DifferencesAddUp, TimeoutComesBack,
                Busy, SlowAnswersAreAwaited, RateIsOfAMode
  <1>3. StreamInv'
    <2>4. streaming \in [step : {"closed", "opened", "started"}, fd : Nat, open : SUBSET Nat]
      BY DEF CommandInv, StreamInv
    <2>5. streaming.open = IF streaming.fd > 0 THEN {streaming.fd} ELSE {}
      BY DEF CommandInv, StreamInv, StreamIsClosed
    <2>6. streaming.step = "closed" => streaming.fd = 0
      BY DEF CommandInv, StreamInv
    <2>1. CASE open_streaming
      <3>1. streaming.step = "closed"
        BY <2>1 DEF open_streaming, StreamStep
      <3>2. CASE streaming' = [streaming EXCEPT !.step = "opened", !.fd = 3, !.open = {3}]
        <4>1. streaming' = [step |-> "opened", fd |-> 3, open |-> {3}]
          BY <2>4, <3>2
        <4> QED BY <4>1 DEF StreamInv, StreamIsClosed
      <3>3. CASE streaming' = [streaming EXCEPT !.fd = 0]
        <4>1. streaming' = [step |-> "closed", fd |-> 0, open |-> {}]
          BY <2>4, <2>5, <2>6, <3>1, <3>3
        <4> QED BY <4>1 DEF StreamInv, StreamIsClosed
      <3> QED BY <2>1, <3>2, <3>3 DEF open_streaming, StreamStep
    <2>2. CASE start_streaming
      BY <2>2 DEF start_streaming, StreamStep, CommandInv, StreamInv, StreamIsClosed
    <2>3. CASE close_streaming
      <3>1. streaming' = Closed(streaming)
        BY <2>3 DEF close_streaming, StreamStep
      <3>2. (IF streaming.fd > 0 THEN streaming.open \ {streaming.fd} ELSE streaming.open) = {}
        BY <2>5
      <3>3. streaming' = [streaming EXCEPT !.step = "closed", !.fd = 0, !.open = {}]
        BY <3>1, <3>2 DEF Closed
      <3>4. streaming' = [step |-> "closed", fd |-> 0, open |-> {}]
        BY <2>4, <3>3
      <3> QED BY <3>4 DEF StreamInv, StreamIsClosed
    <2> QED BY <2>1, <2>2, <2>3
  <1> QED BY <1>2, <1>3 DEF CommandInv

LEMMA CommandStep ==
  ASSUME CommandAssumption, CommandInv, [CommandNext]_commandVars
  PROVE  CommandInv'
  <1>1. ASSUME NEW t \in Callers, CommandFails(t) PROVE CommandInv'
    <2>1. CountersInv'
      BY <1>1 DEF CommandFails, CommandInv, CountersInv, DifferencesAddUp
    <2>2. Busy(t)
      BY <1>1 DEF CommandFails, CommandInv, CallsInv, CallSound, Busy, Idle
    <2> QED BY <1>1, <2>1, <2>2, CallIsOver DEF CommandFails
  <1>2. ASSUME NEW t \in Callers, Succeeds(t) PROVE CommandInv'
    <2>1. CountersInv'
      BY <1>2 DEF Succeeds, CommandInv, CountersInv, DifferencesAddUp
    <2>2. Busy(t)
      BY <1>2 DEF Succeeds, Busy
    <2> QED BY <1>2, <2>1, <2>2, CallIsOver DEF Succeeds
  <1>3. CASE UNCHANGED commandVars
    BY <1>3 DEF commandVars, CommandInv, CallsInv, CallSound, CountersInv, DifferencesAddUp,
                TimeoutComesBack, Busy, SlowAnswersAreAwaited, RateIsOfAMode, StreamInv, StreamIsClosed
  <1>4. ASSUME NEW t \in Callers, NEW duration \in {1, 3, 11}, Execute(t, duration) PROVE CommandInv'
    <2>1. duration \in Nat
      OBVIOUS
    <2> QED BY <1>4, <2>1, CommandIsExecuted
  <1> QED BY <1>1, <1>2, <1>3, <1>4, LosesData, CommandBegins, CommandIsSent, StatusIsTold,
             RateIsAsked, StreamMoves DEF CommandNext

-----------------------------------------------------------------------------
(* AnswersAreTrue: the answer to save_raw_data is what is recorded, if     *)
(* recording is switched off before the client stops; a request that       *)
(* succeeds has got what the lidar sent, whole and undamaged, and leaves   *)
(* no connection behind; and the commands keep the default timeout, give   *)
(* a lidar the time a command takes, tell all that was lost, and a frame   *)
(* rate of a mode the lidar was in.                                        *)
THEOREM AnswersTrue ==
  ASSUME AttributesAssumption, NetAssumption, CommandAssumption, Tidy
  PROVE  AttributesSpec /\ NetSpec /\ CommandSpec => []AnswersAreTrue
  <1>1. AttributesInit => AttributesInv
    BY DEF AttributesInit, AttributesInv, AnswerIsTrue, Nothing
  <1>2. AttributesInv /\ [AttributesNext]_attributeVars => AttributesInv'
    BY AttributesAssumption, Tidy, AttributesStep
  <1>3. NetInit => NetInv
    BY NetAssumption, NetStarts
  <1>4. NetInv /\ [NetNext]_netVars => NetInv'
    BY NetAssumption, NetStep
  <1>5. CommandInit => CommandInv
    BY CommandAssumption, CommandStarts
  <1>6. CommandInv /\ [CommandNext]_commandVars => CommandInv'
    BY CommandAssumption, CommandStep
  <1>7. AttributesInv => AnswerIsTrue
    BY DEF AttributesInv
  <1>8. NetInv => AnswersAreWhole
    BY DEF NetInv, PlaceOfCall, TriesInv, ContentInv, AnswersAreWhole, Tries
  <1>9. CommandInv => CommandsAreSound
    BY DEF CommandInv, CallsInv, CountersInv, StreamInv, CommandsAreSound
  <1>10. AnswerIsTrue /\ AnswersAreWhole /\ CommandsAreSound => AnswersAreTrue
    BY DEF AnswersAreTrue
  <1> QED BY <1>1, <1>2, <1>3, <1>4, <1>5, <1>6, <1>7, <1>8, <1>9, <1>10, PTL
          DEF AttributesSpec, NetSpec, CommandSpec
=============================================================================
