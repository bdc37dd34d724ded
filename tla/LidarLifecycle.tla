--------------------------- MODULE LidarLifecycle ---------------------------
(***************************************************************************)
(* One lidar from its start to its destruction: the ROS driver             *)
(* (driver/driver_lidar.cc), the table of open lidars                      *)
(* (sdk_common/api_common.cpp), the client (sdk_client/lidar_client.cpp)   *)
(* and its read stage (sdk_client/stage_client_read.cpp).                  *)
(*                                                                         *)
(* Main is the thread of the ROS node: it starts the driver, and the       *)
(* driver's destructor stops it.  Check is the thread that start_lidar     *)
(* creates: it connects, and watches for a fatal error.  The worker of the *)
(* "read" pool runs the read stage, the workers of the "deliver" pools run *)
(* the callbacks; a ConsumerProducer's shutdown waits for its worker, as   *)
(* its own module shows.                                                   *)
(*                                                                         *)
(* The driver opens one lidar: its only second start_lidar comes after a   *)
(* stop_lidar in Check, and that never returns.  Setting up the lidar,     *)
(* attributes and the contents of packets are left out.                    *)
(***************************************************************************)
EXTENDS Integers

CONSTANTS
  Main, Check,
  ContinueLive,   (* continue_live_                                          *)
  StopAnyTime,    (* the node may be stopped while Check connects            *)
  MaxPackets      (* bound: packets between read and deliver                 *)

ASSUME ConstantAssumption ==
  /\ Main # Check /\ MaxPackets \in Nat \ {0}
  /\ ContinueLive \in BOOLEAN /\ StopAnyTime \in BOOLEAN

Threads == {Main, Check}
Handle  == 1              \* handles count from 1; -1 is no lidar

VARIABLES
  (* DriverLidar *)
  handle, is_running, fatal_error, joinable,
  (* InnoLidarBase: the lidar is not there, in lidars_s, taken out, deleted *)
  lidar,
  (* InnoLidarClient and its pools *)
  last_stage_is_up, packets, in_callback,
  (* StageClientRead, its input's start_flag_, and where its worker is *)
  state, start_flag, reader,
  pc,             (* where Main and Check are                                *)
  stopped,        (* an inno_lidar_stop has returned 0                       *)
  crash           (* what ended the process, "none" as long as it lives      *)

driverVars == <<handle, is_running, fatal_error, joinable>>
poolVars   == <<packets, in_callback>>
readVars   == <<state, start_flag, reader>>
clientVars == <<lidar, last_stage_is_up, poolVars, readVars>>
vars == <<driverVars, clientVars, pc, stopped, crash>>

Init ==
  /\ handle = -1 /\ is_running = FALSE /\ fatal_error = FALSE /\ joinable = FALSE
  /\ lidar = "none" /\ last_stage_is_up = FALSE /\ packets = 0 /\ in_callback = FALSE
  /\ state = "INIT" /\ start_flag = FALSE /\ reader = "none"
  /\ pc = [t \in Threads |-> IF t = Main THEN "start" ELSE "none"]
  /\ stopped = FALSE /\ crash = "none"

At(t, here) == crash = "none" /\ pc[t] = here
Goto(t, there) == pc' = [pc EXCEPT ![t] = there]
Crash(what) == crash' = what /\ UNCHANGED <<driverVars, clientVars, pc, stopped>>

InClientPlaces == {"started?", "before_read", "create", "add_job", "stop?", "print_stats",
  "input_stop", "wait_started", "wait_stopped", "shutdown_read", "shutdown_deliver",
  "final_cleanup", "down"}

(* A step of t inside the client: the client may be deleted under it.      *)
InClient(t, here) == At(t, here) /\ lidar # "deleted"
UseDeleted(t) ==
  /\ crash = "none" /\ lidar = "deleted"
  /\ pc[t] \in InClientPlaces
  /\ Crash("freed")

-----------------------------------------------------------------------------
(* start_lidar: setup_lidar opens the lidar, and the thread is created.    *)
StartLidar ==
  /\ At(Main, "start")
  /\ \/ /\ handle' = Handle /\ lidar' = "open"
        /\ is_running' = TRUE /\ joinable' = TRUE
        /\ pc' = [pc EXCEPT ![Main] = "idle", ![Check] = "connect"]
     \/ /\ Goto(Main, "idle") /\ UNCHANGED <<handle, lidar, is_running, joinable>>
     \/ /\ handle' = Handle /\ lidar' = "open"        \* its parameters are refused
        /\ Goto(Main, "idle") /\ UNCHANGED <<is_running, joinable>>
  /\ UNCHANGED <<fatal_error, last_stage_is_up, poolVars, readVars, stopped, crash>>

Connecting == pc[Check] \in {"connect", "started?", "before_read", "create", "add_job"}

(* The destructor of the driver.                                           *)
Destroy ==
  /\ At(Main, "idle") /\ (StopAnyTime \/ ~Connecting) /\ Goto(Main, "stop")
  /\ UNCHANGED <<driverVars, clientVars, stopped, crash>>

-----------------------------------------------------------------------------
(* stop_lidar, by Main or by Check: find_lidar.                            *)
FindToStop(t) ==
  /\ At(t, "stop")
  /\ Goto(t, IF handle > 0 THEN IF lidar = "open" THEN "stop?" ELSE "close" ELSE "clear")
  /\ UNCHANGED <<driverVars, clientVars, stopped, crash>>

(* InnoLidarClient::stop returns at once if the lidar is not up.           *)
TestUp(t) ==
  /\ InClient(t, "stop?")
  /\ Goto(t, IF last_stage_is_up THEN "print_stats" ELSE "close")
  /\ stopped' = (stopped \/ ~last_stage_is_up)
  /\ UNCHANGED <<driverVars, clientVars, crash>>

PrintStats(t) ==
  /\ InClient(t, "print_stats")
  /\ IF last_stage_is_up
     THEN Goto(t, "input_stop") /\ UNCHANGED <<driverVars, clientVars, stopped, crash>>
     ELSE Crash("panic")

(* StageClientRead::stop.                                                  *)
InputStop(t) ==
  /\ InClient(t, "input_stop") /\ Goto(t, "wait_started")
  /\ start_flag' = FALSE
  /\ UNCHANGED <<driverVars, lidar, last_stage_is_up, poolVars, state, reader, stopped, crash>>

(* Mutant of WaitStarted: the input is told only once, before it starts.   *)
TellOnce(t) ==
  /\ InClient(t, "wait_started") /\ state # "INIT" /\ Goto(t, "wait_stopped")
  /\ state' = IF state = "READING" THEN "STOPPING" ELSE state
  /\ UNCHANGED <<driverVars, lidar, last_stage_is_up, poolVars, start_flag, reader, stopped, crash>>

WaitStarted(t) ==
  /\ InClient(t, "wait_started") /\ state # "INIT" /\ Goto(t, "wait_stopped")
  /\ IF state = "READING" THEN state' = "STOPPING" /\ start_flag' = FALSE
                          ELSE UNCHANGED <<state, start_flag>>
  /\ UNCHANGED <<driverVars, lidar, last_stage_is_up, poolVars, reader, stopped, crash>>

WaitStopped(t) ==
  /\ InClient(t, "wait_stopped") /\ state # "STOPPING" /\ Goto(t, "shutdown_read")
  /\ UNCHANGED <<driverVars, clientVars, stopped, crash>>

(* cp_read_->shutdown waits for the job to return, cp_deliver_->shutdown   *)
(* for the packets that are queued and for the callback that runs.         *)
ShutdownRead(t) ==
  /\ InClient(t, "shutdown_read") /\ reader \in {"none", "done"}
  /\ Goto(t, "shutdown_deliver")
  /\ UNCHANGED <<driverVars, clientVars, stopped, crash>>

Delivered == packets = 0 /\ ~in_callback

ShutdownDeliver(t) ==
  /\ InClient(t, "shutdown_deliver") /\ Delivered /\ Goto(t, "final_cleanup")
  /\ UNCHANGED <<driverVars, clientVars, stopped, crash>>

(* Mutant of FinalCleanup: the stage is left in its last state.            *)
ForgetState(t) ==
  /\ InClient(t, "final_cleanup") /\ Goto(t, "down")
  /\ UNCHANGED <<driverVars, clientVars, stopped, crash>>

FinalCleanup(t) ==
  /\ InClient(t, "final_cleanup") /\ Goto(t, "down")
  /\ state' = "INIT"
  /\ UNCHANGED <<driverVars, lidar, last_stage_is_up, poolVars, start_flag, reader, stopped, crash>>

Down(t) ==
  /\ InClient(t, "down") /\ Goto(t, "close")
  /\ last_stage_is_up' = FALSE /\ reader' = "none" /\ stopped' = TRUE
  /\ UNCHANGED <<driverVars, lidar, poolVars, state, start_flag, crash>>

(* inno_lidar_close takes the lidar out of the table, then checks that it  *)
(* is stopped and deletes it.                                              *)
Close(t) ==
  /\ At(t, "close")
  /\ IF lidar = "open" THEN lidar' = "closed" /\ Goto(t, "delete")
                       ELSE UNCHANGED lidar /\ Goto(t, "clear")
  /\ UNCHANGED <<driverVars, last_stage_is_up, poolVars, readVars, stopped, crash>>

Delete(t) ==
  /\ At(t, "delete")
  /\ IF state = "INIT" /\ ~last_stage_is_up
     THEN /\ lidar' = "deleted" /\ Goto(t, "clear")
          /\ UNCHANGED <<driverVars, last_stage_is_up, poolVars, readVars, stopped, crash>>
     ELSE Crash("verify")

Clear(t) ==
  /\ At(t, "clear") /\ Goto(t, "join")
  /\ handle' = -1 /\ is_running' = FALSE
  /\ UNCHANGED <<fatal_error, joinable, clientVars, stopped, crash>>

(* Mutant of Join: the thread is detached.                                 *)
Detach(t) ==
  /\ At(t, "join") /\ Goto(t, "stopped") /\ joinable' = FALSE
  /\ UNCHANGED <<handle, is_running, fatal_error, clientVars, stopped, crash>>

(* A thread that joins itself gets a std::system_error nobody catches.     *)
Join(t) ==
  /\ At(t, "join")
  /\ \/ /\ ~joinable /\ Goto(t, "stopped") /\ UNCHANGED <<joinable, crash>>
     \/ /\ joinable /\ t = Main /\ pc[Check] = "exited"
        /\ Goto(t, "stopped") /\ joinable' = FALSE /\ UNCHANGED crash
     \/ /\ joinable /\ t = Check
        /\ crash' = "self_join" /\ UNCHANGED <<pc, joinable>>
  /\ UNCHANGED <<handle, is_running, fatal_error, clientVars, stopped>>

StopStep(t) ==
  \/ FindToStop(t) \/ TestUp(t) \/ PrintStats(t) \/ InputStop(t) \/ WaitStarted(t)
  \/ WaitStopped(t) \/ ShutdownRead(t) \/ ShutdownDeliver(t) \/ FinalCleanup(t) \/ Down(t)
  \/ Close(t) \/ Delete(t) \/ Clear(t) \/ Join(t) \/ UseDeleted(t)

-----------------------------------------------------------------------------
(* The thread of Check: inno_lidar_start, again every ten seconds while it *)
(* fails and continue_live_ is set.                                        *)
Connect ==
  /\ At(Check, "connect")
  /\ Goto(Check, IF handle > 0 /\ lidar = "open" THEN "started?" ELSE "failed")
  /\ UNCHANGED <<driverVars, clientVars, stopped, crash>>

TestStarted ==
  /\ InClient(Check, "started?")
  /\ Goto(Check, IF last_stage_is_up THEN "watch" ELSE "before_read")
  /\ UNCHANGED <<driverVars, clientVars, stopped, crash>>

(* before_read_start talks to the lidar, which may not answer.             *)
BeforeReadStart ==
  /\ InClient(Check, "before_read")
  /\ \E there \in {"create", "failed"} : Goto(Check, there)
  /\ UNCHANGED <<driverVars, clientVars, stopped, crash>>

Create ==
  /\ InClient(Check, "create") /\ Goto(Check, "add_job")
  /\ last_stage_is_up' = TRUE
  /\ UNCHANGED <<driverVars, lidar, poolVars, readVars, stopped, crash>>

AddJob ==
  /\ InClient(Check, "add_job") /\ Goto(Check, "watch")
  /\ reader' = "queued"
  /\ UNCHANGED <<driverVars, lidar, last_stage_is_up, poolVars, state, start_flag, stopped, crash>>

Retry ==
  /\ At(Check, "failed")
  /\ Goto(Check, IF ContinueLive /\ is_running THEN "connect" ELSE "watch")
  /\ UNCHANGED <<driverVars, clientVars, stopped, crash>>

(* One turn of the loop that checks whether the lidar is alive; a turn     *)
(* that finds nothing waits ten seconds at most.                           *)
StopWatching ==
  /\ At(Check, "watch") /\ ~is_running /\ Goto(Check, "exited")
  /\ UNCHANGED <<driverVars, clientVars, stopped, crash>>

Reconnect ==
  /\ At(Check, "watch") /\ is_running /\ fatal_error /\ ContinueLive
  /\ fatal_error' = FALSE /\ Goto(Check, "stop")
  /\ UNCHANGED <<handle, is_running, joinable, clientVars, stopped, crash>>

CheckStep == Connect \/ TestStarted \/ BeforeReadStart \/ Create \/ AddJob \/ Retry
             \/ StopWatching \/ Reconnect

-----------------------------------------------------------------------------
(* The read stage: start_reading_, the packets, and how it ends.           *)
Reads(where) == crash = "none" /\ reader = where /\ lidar # "deleted"

StartReading ==
  /\ Reads("queued")
  /\ IF state = "INIT"
     THEN /\ state' = "READING" /\ start_flag' = TRUE /\ reader' = "reading"
          /\ UNCHANGED <<driverVars, lidar, last_stage_is_up, poolVars, pc, stopped, crash>>
     ELSE Crash("verify")

ReadPacket ==
  /\ Reads("reading") /\ start_flag /\ packets < MaxPackets
  /\ packets' = packets + 1
  /\ UNCHANGED <<driverVars, lidar, last_stage_is_up, in_callback, readVars, pc, stopped, crash>>

(* The input returns because it was told to, or because the connection is  *)
(* lost; the second is reported to the driver from this thread.            *)
ReadEnds ==
  /\ Reads("reading") /\ ~start_flag /\ reader' = "ending"
  /\ UNCHANGED <<driverVars, lidar, last_stage_is_up, poolVars, state, start_flag, pc, stopped, crash>>

ReadFails ==
  /\ Reads("reading") /\ reader' = "message"
  /\ UNCHANGED <<driverVars, lidar, last_stage_is_up, poolVars, state, start_flag, pc, stopped, crash>>

MessageCallback ==
  /\ Reads("message") /\ reader' = "ending" /\ fatal_error' = TRUE
  /\ UNCHANGED <<handle, is_running, joinable, lidar, last_stage_is_up, poolVars, state,
                 start_flag, pc, stopped, crash>>

ReadReturns ==
  /\ Reads("ending")
  /\ IF state \in {"READING", "STOPPING"}
     THEN /\ reader' = "done" /\ state' = "STOPPED" /\ start_flag' = FALSE
          /\ UNCHANGED <<driverVars, lidar, last_stage_is_up, poolVars, pc, stopped, crash>>
     ELSE Crash("panic")

ReadStep == StartReading \/ ReadPacket \/ ReadEnds \/ ReadFails \/ MessageCallback \/ ReadReturns

(* The workers of the deliver pools call the driver back.                  *)
CallbackBegins ==
  /\ crash = "none" /\ packets > 0 /\ ~in_callback
  /\ packets' = packets - 1 /\ in_callback' = TRUE
  /\ UNCHANGED <<driverVars, lidar, last_stage_is_up, readVars, pc, stopped, crash>>

CallbackEnds ==
  /\ crash = "none" /\ in_callback /\ in_callback' = FALSE
  /\ UNCHANGED <<driverVars, lidar, last_stage_is_up, packets, readVars, pc, stopped, crash>>

Next == StartLidar \/ Destroy \/ (\E t \in Threads : StopStep(t)) \/ CheckStep \/ ReadStep
        \/ CallbackBegins \/ CallbackEnds

Spec == Init /\ [][Next]_vars

(* Every thread that can go on does: waits are woken or have a limit of    *)
(* ten seconds, reads of a socket one of half a second.  Nothing forces    *)
(* the lidar to send, the connection to break or the node to stop.         *)
Fairness ==
  /\ \A t \in Threads : WF_vars(StopStep(t))
  /\ WF_vars(CheckStep) /\ WF_vars(CallbackBegins) /\ WF_vars(CallbackEnds)
  /\ WF_vars(StartReading) /\ WF_vars(ReadEnds) /\ WF_vars(MessageCallback) /\ WF_vars(ReadReturns)

FairSpec == Spec /\ Fairness

-----------------------------------------------------------------------------
Places == InClientPlaces \cup {"none", "start", "idle", "connect", "failed", "watch", "exited",
  "stop", "close", "delete", "clear", "join", "stopped"}

TypeOK ==
  /\ handle \in {-1, Handle}
  /\ is_running \in BOOLEAN /\ fatal_error \in BOOLEAN /\ joinable \in BOOLEAN
  /\ lidar \in {"none", "open", "closed", "deleted"} /\ last_stage_is_up \in BOOLEAN
  /\ packets \in 0..MaxPackets /\ in_callback \in BOOLEAN
  /\ state \in {"INIT", "READING", "STOPPING", "STOPPED"} /\ start_flag \in BOOLEAN
  /\ reader \in {"none", "queued", "reading", "message", "ending", "done"}
  /\ stopped \in BOOLEAN /\ pc \in [Threads -> Places]
  /\ crash \in {"none", "freed", "panic", "verify", "self_join"}

(* Once inno_lidar_stop has returned no callback of the lidar runs.        *)
QuietAfterStop == stopped => ~in_callback /\ reader # "message"

(* When the destructor returns the lidar is closed and deleted, the thread *)
(* of the driver is gone, and nothing is left that could call it back.     *)
DestroyedIsClosed == At(Main, "stopped") =>
  /\ handle = -1 /\ ~joinable /\ pc[Check] \in {"none", "exited"}
  /\ lidar \in {"none", "deleted"} /\ reader = "none" /\ packets = 0 /\ ~in_callback

(* While the node runs, a lost connection does not end the process: the    *)
(* driver stops the lidar and starts it again.                             *)
SurvivesFatalError == pc[Main] = "idle" => crash = "none"
=============================================================================
