------------------------------ MODULE MCClient ------------------------------
(***************************************************************************)
(* The life of a lidar and what its client does meanwhile, in one run: one *)
(* part chosen in the initial state while the others rest.                 *)
(*                                                                         *)
(* Steady and restless: two drivers (LidarLifecycle).  Steady: as the      *)
(* configuration says, without reconnection, and stopped once connected.   *)
(* Restless: it reconnects, and is stopped at any time.  The rest are one  *)
(* module each: the inputs (UdpInput, FileInput), the recorders (Recorder, *)
(* RawRecorder), the attributes (ClientAttributes), the requests to the    *)
(* lidar (NetManager), the commands made of them (LidarCommands), the      *)
(* configuration of the stages (Configs), the table of lidars (LidarTable) *)
(* and the recorder's callback (CallbackSlot).                             *)
(***************************************************************************)
EXTENDS LidarLifecycle, ClientParts, RawRecorder

CONSTANTS
  kRecorderQueueMaxLen, kRecorderNotifyInterval, MaxRead, MaxStarts,         \* Recorder
  MaxOpened, MaxTableCalls                                                   \* LidarTable

VARIABLES
  part,
  (* Recorder                                                               *)
  life, starts, sent, reading, callback, recorder_queue_, recorder_thread_runing_,
  recorder, dequeued, lent, terminated, recorded,
  (* LidarTable                                                             *)
  asks, max_handle_s, lidars_s, mutex, table_lidar, table_callback, doing, of_handle, returned,
  deletions, table_calls, misuse

recordVars == <<life, starts, sent, reading, callback, recorder_queue_,
                recorder_thread_runing_, recorder, dequeued, lent, terminated, recorded>>
tableVars  == <<asks, max_handle_s, lidars_s, mutex, table_lidar, table_callback, doing, of_handle,
                returned, deletions, table_calls, misuse>>
mcVars     == <<part, vars, udpVars, fileVars, recordVars, rawVars, attributeVars, netVars,
                commandVars, configVars, tableVars, slotVars>>

(* What the driver may be given: nothing, a list that goes on behind a     *)
(* pair that is applied later, and one that goes on behind an unknown key. *)
Pair(type, known) == [type |-> type, known |-> known, value |-> "one"]
MCPairs == {<<>>, <<Pair("deliver", TRUE), Pair("read", TRUE)>>, <<Pair("read", FALSE), Pair("read", TRUE)>>}

Restless  == INSTANCE LidarLifecycle WITH ContinueLive <- TRUE, StopAnyTime <- TRUE
Recording == INSTANCE Recorder WITH Prompt <- TRUE, MaxPackets <- MaxRead
Table     == INSTANCE LidarTable WITH Threads <- Callers, Careful <- TRUE, lidar <- table_lidar,
                                      callback <- table_callback, at <- doing, of <- of_handle,
                                      ret <- returned

ASSUME InputAssumption     == UdpAssumption /\ FileAssumption
ASSUME RecordingAssumption == Recording!ConstantAssumption /\ RawAssumption
ASSUME ClientAssumption    == AttributesAssumption /\ NetAssumption
ASSUME CommandsAssumption  == CommandAssumption /\ ConfigAssumption
ASSUME TableAssumption     == Table!ConstantAssumption /\ SlotAssumption

-----------------------------------------------------------------------------
Unless(parts, v) == IF part \in parts THEN TRUE ELSE UNCHANGED v

Rest == /\ Unless({"steady", "restless"}, vars) /\ Unless({"udp"}, udpVars) /\ Unless({"stream"}, fileVars)
        /\ Unless({"recorder"}, recordVars) /\ Unless({"raw"}, rawVars)
        /\ Unless({"attributes"}, attributeVars) /\ Unless({"net"}, netVars)
        /\ Unless({"commands"}, commandVars) /\ Unless({"configs"}, configVars)
        /\ Unless({"table"}, tableVars) /\ Unless({"slot"}, slotVars)

In(p, A) == part = p /\ UNCHANGED part /\ A /\ Rest
OfDriver == part \in {"steady", "restless"}

(* The node is gone, or the process is, or nobody gives further commands.  *)
Terminated ==
  /\ \/ (crash # "none" \/ pc[Main] = "stopped") /\ part \in {"steady", "restless"}
     \/ part = "commands" /\ calls = MaxCalls /\ \A t \in Callers : ~Busy(t)
     \/ part = "configs" /\ sets = MaxSets
     \/ part = "table" /\ table_calls = MaxTableCalls /\ \A t \in Callers : Table!Idle(t)
     \/ part = "slot" /\ slot_sets = MaxSlotSets
  /\ UNCHANGED mcVars

(* The parts that rest have one initial state.                             *)
AtRest ==
  /\ IF part = "udp" THEN TRUE
     ELSE /\ udp_lidar = [version |-> 1, counts |-> TRUE, udp_port_ |-> FALSE, ports |-> {Kinds}]
          /\ server_udp = FALSE
  /\ IF part = "stream" THEN TRUE
     ELSE /\ settings = [source |-> "FILE", rewind |-> 0, opens |-> FALSE, pace |-> "none"]
          /\ stream = <<>>
  /\ IF part = "attributes" THEN TRUE ELSE live = TRUE
  /\ IF part = "configs" THEN TRUE ELSE pairs = <<>>
  /\ IF part = "table" THEN TRUE ELSE asks = FALSE
  /\ IF part = "net" THEN TRUE
     ELSE /\ call = "recv_file" /\ address_ok = TRUE
          /\ answer = [header |-> "good", status |-> 200, length |-> 0, damaged |-> FALSE]

MCInit ==
  /\ part \in {"steady", "restless", "udp", "stream", "recorder", "raw", "attributes", "net",
              "commands", "configs", "table", "slot"}
  /\ AtRest
  /\ Init /\ UdpInit /\ FileInit /\ Recording!Init /\ RawInit /\ AttributesInit /\ NetInit
  /\ CommandInit /\ ConfigInit /\ Table!Init /\ SlotInit

MCNext ==
  \/ In("steady", Next) \/ In("restless", Restless!Next) \/ Terminated
  \/ In("udp", UdpNext) \/ In("stream", FileNext)
  \/ In("recorder", Recording!Next) \/ In("raw", RawNext)
  \/ In("attributes", AttributesNext) \/ In("net", NetNext)
  \/ In("commands", CommandNext) \/ In("configs", ConfigNext)
  \/ In("table", Table!Next) \/ In("slot", SlotNext)

(* Each part with the fairness of its module; a part that rests has        *)
(* nothing to be fair to.                                                  *)
MCSpec ==
  /\ MCInit /\ [][MCNext]_mcVars
  /\ \A t \in Threads : WF_vars(OfDriver /\ StopStep(t))
  /\ WF_vars((part = "steady" /\ CheckStep) \/ (part = "restless" /\ Restless!CheckStep))
  /\ WF_vars(OfDriver /\ CallbackBegins) /\ WF_vars(OfDriver /\ CallbackEnds)
  /\ WF_vars(OfDriver /\ StartReading) /\ WF_vars(OfDriver /\ ReadEnds)
  /\ WF_vars(OfDriver /\ MessageCallback) /\ WF_vars(OfDriver /\ ReadReturns)
  /\ WF_udpVars(part = "udp" /\ Reader)
  /\ \A k \in Kinds : WF_udpVars(part = "udp" /\ GoesOn(k))
  /\ WF_fileVars(part = "stream" /\ FileReader)
  /\ WF_recordVars(part = "recorder" /\ ~terminated /\ (Recording!Notify \/ Recording!StartRecorder))
  /\ WF_recordVars(part = "recorder" /\ ~terminated /\ Recording!Recorder)
  /\ WF_recordVars(part = "recorder" /\ ~terminated /\ Recording!Join)
  /\ WF_rawVars(part = "raw" /\ panic = "none" /\ Receiver)
  /\ WF_rawVars(part = "raw" /\ panic = "none" /\ Flush)
  /\ WF_rawVars(part = "raw" /\ panic = "none" /\ Timer)
  /\ WF_netVars(part = "net" /\ Call)
  /\ \A t \in Callers : WF_tableVars(part = "table" /\ Table!ThreadStep(t))
  /\ WF_tableVars(part = "table" /\ Table!CallbackSteps)

-----------------------------------------------------------------------------
(* In a steady driver no verification of the SDK fails, nothing uses the   *)
(* deleted client, no exception ends the process, and no callback of the   *)
(* lidar runs once inno_lidar_stop has returned; a stop that comes while   *)
(* another thread connects does not stop it (LidarLifecycle).  Nor does an *)
(* application of several lidars and threads crash that takes care of the  *)
(* order of its calls, and its table of lidars keeps what is open and      *)
(* nothing that is closed (LidarTable).                                    *)
SteadyIsSound == (part = "steady" => crash = "none" /\ QuietAfterStop) /\ Table!TableIsSound

(* What was told to stop, or asked of the lidar, and its end.              *)
Stopping == CASE part \in {"steady", "restless"} -> pc[Main] = "stop"
              [] part = "udp" -> ~udp_start_flag_
              [] part = "stream" -> settings.opens \/ ~start_flag_
              [] part = "recorder" -> life = "deleting"
              [] part = "raw" -> shutdown_
              [] part = "net" -> TRUE
              [] part = "table" -> mutex # "free"
              [] OTHER -> FALSE

Stopped == CASE part = "steady" -> pc[Main] = "stopped"
             [] part = "restless" -> pc[Main] = "stopped" \/ crash # "none"
             [] part = "udp" -> udp_reader \in {"returned", "error"}
             [] part = "stream" -> file_reader = "ended"
             [] part = "recorder" -> life = "deleted" \/ terminated
             [] part = "raw" -> receiver = "ended" \/ panic # "none"
             [] part = "net" -> at_call \in {"returned", "told"}
             [] part = "table" -> mutex = "free"
             [] OTHER -> FALSE

(* Stopping a steady driver ends, whatever the lidar and the connection    *)
(* do; stopping a restless one ends, or ends the process.  So does every   *)
(* other stop: a UDP reader (UdpInput), a reader of a file or a stream     *)
(* (FileInput), the recorder when the read stage is deleted (Recorder) and *)
(* the receiver of raw data (RawRecorder) end once they are told to, a     *)
(* file comes to its end by itself, a request to the lidar returns         *)
(* (NetManager), and stopping or closing all lidars, with the table locked *)
(* all the while, ends (LidarTable).                                       *)
EveryStopReturns == Stopping ~> Stopped
=============================================================================
