-------------------------- MODULE ClientAttributes --------------------------
(***************************************************************************)
(* The attributes of a lidar client (sdk_client/lidar_client.cpp): what it *)
(* answers by itself, what it asks the lidar, and the recorder of raw data *)
(* that save_raw_data starts and stops, over starts and stops of the       *)
(* client.  One thread of the application calls; the recorder's threads    *)
(* are in RawRecorder.                                                     *)
(***************************************************************************)
EXTENDS Integers

CONSTANTS
  Ports,          (* bound: the ports the application records from           *)
  MaxClientStarts,      (* bound: times the client is started                      *)
  Tidy            (* the application switches recording off before it stops, *)
                  (* asks no file for raw data, and gives a path first       *)

AttributesAssumption ==
  Ports \subseteq Nat \ {0} /\ MaxClientStarts \in Nat \ {0} /\ Tidy \in BOOLEAN

VARIABLES
  live,           (* comm_ is there: the source is no file                   *)
  last_stage_is_up_, client_starts,
  raw_recorder_,  (* the port it listens to, 0 if there is none              *)
  it_raw_recorder_, (* its thread: none, running or shut down                *)
  path,           (* raw_recoder_save_path_ is set                           *)
  server_raw_port,(* where the lidar sends raw data, -1 if it does not       *)
  ring_id_converter_, anglehv_init_,
  force_xyz_pointcloud_, faults_save_raw_,
  (* History: the last attribute that was set, with its value and answer,    *)
  (* and what ended the process, "none" as long as it lives                  *)
  asked, client_crash

recorderVars == <<raw_recorder_, it_raw_recorder_>>
angleVars    == <<ring_id_converter_, anglehv_init_>>
ownVars      == <<force_xyz_pointcloud_, faults_save_raw_>>
attributeVars == <<live, last_stage_is_up_, client_starts, recorderVars, path, server_raw_port,
                   angleVars, ownVars,
          asked, client_crash>>

Nothing == [attribute |-> "none", value |-> 0, answer |-> 0]

AttributesInit ==
  /\ live \in BOOLEAN /\ last_stage_is_up_ = FALSE /\ client_starts = 0
  /\ raw_recorder_ = 0 /\ it_raw_recorder_ = "none" /\ path = FALSE /\ server_raw_port = -1
  /\ ring_id_converter_ = FALSE /\ anglehv_init_ = FALSE
  /\ force_xyz_pointcloud_ = FALSE /\ faults_save_raw_ = FALSE /\ asked = Nothing
  /\ client_crash = "none"

Answered(attribute, value, answer) ==
  asked' = [attribute |-> attribute, value |-> value, answer |-> answer]

(* A request to the lidar is answered, or it fails.                        *)
Replies == {0, -1}

-----------------------------------------------------------------------------
(* start(): before_read_start asks the lidar for its versions and ports.   *)
Start ==
  /\ ~last_stage_is_up_ /\ client_starts < MaxClientStarts
  /\ \E reply \in IF live THEN Replies ELSE {0} : last_stage_is_up_' = (reply = 0)
  /\ client_starts' = client_starts + 1 /\ asked' = Nothing
  /\ UNCHANGED <<live, recorderVars, path, server_raw_port,
                 angleVars, ownVars, client_crash>>

StoppedThread == IF it_raw_recorder_ = "running" THEN "shut" ELSE it_raw_recorder_

(* stop() shuts the recorder down and keeps it, and the lidar sends on.    *)
Stop ==
  /\ last_stage_is_up_ /\ (Tidy => it_raw_recorder_ = "none")
  /\ last_stage_is_up_' = FALSE /\ it_raw_recorder_' = StoppedThread /\ asked' = Nothing
  /\ UNCHANGED <<live, client_starts, raw_recorder_, path, server_raw_port, angleVars, ownVars,
                 client_crash>>

(* ~InnoLidarClient: the thread that is deleted must have been shut down.  *)
DeleteClient ==
  /\ ~last_stage_is_up_ /\ asked.attribute # "deleted"
  /\ Answered("deleted", 0, 0)
  /\ IF it_raw_recorder_ = "running" THEN client_crash' = "InnoThread" ELSE UNCHANGED client_crash
  /\ it_raw_recorder_' = "none" /\ raw_recorder_' = 0
  /\ UNCHANGED <<live, last_stage_is_up_, client_starts, path, server_raw_port, angleVars, ownVars>>

-----------------------------------------------------------------------------
(* attribute_save_raw_data_.                                               *)
Working == last_stage_is_up_ /\ (Tidy => live)

NotWorking == \E attribute \in {"save_raw_data", "raw_data_save_path"} :
  /\ ~last_stage_is_up_ /\ asked.attribute # "deleted" /\ Answered(attribute, 0, -1)
  /\ UNCHANGED <<live, last_stage_is_up_, client_starts, recorderVars, path, server_raw_port,
                 angleVars, ownVars, client_crash>>

(* InnoThread::shutdown verifies that nobody has called it before.         *)
ShutThread == client_crash' = IF it_raw_recorder_ = "shut" THEN "InnoThread" ELSE client_crash

(* set_server_udp_raw_port; a file has no comm_.                           *)
TellPort(port, answer) ==
  IF live THEN server_raw_port' = IF answer = 0 THEN port ELSE server_raw_port
          ELSE UNCHANGED server_raw_port

SameUp == UNCHANGED <<live, last_stage_is_up_, client_starts, path, angleVars, ownVars>>

AlreadyListens == \E port \in Ports :
  /\ Working /\ raw_recorder_ = port /\ Answered("save_raw_data", port, 0)
  /\ UNCHANGED <<recorderVars, server_raw_port, client_crash>> /\ SameUp

(* Another port: the old recorder is gone even if the lidar cannot be told *)
(* to stop sending.                                                        *)
CannotChange == \E port \in Ports :
  /\ Working /\ raw_recorder_ \notin {0, port} /\ Answered("save_raw_data", port, -1)
  /\ it_raw_recorder_' = "none" /\ raw_recorder_' = 0 /\ ShutThread
  /\ UNCHANGED server_raw_port /\ SameUp

NewThread(answer)  == IF answer = 0 THEN "running" ELSE "none"

(* The lidar is told to send, and a new recorder made; a missing path ends *)
(* the process, as does a client without comm_.                            *)
SaveRawData == \E port \in Ports, answer \in Replies :
  /\ Working /\ raw_recorder_ # port /\ (Tidy => path)
  /\ it_raw_recorder_' = NewThread(answer)
  /\ raw_recorder_' = IF answer = 0 THEN port ELSE 0
  /\ client_crash' = CASE it_raw_recorder_ = "shut" -> "InnoThread"
                [] ~path -> "no_path" [] ~live -> "no_comm" [] OTHER -> client_crash
  /\ TellPort(port, answer) /\ Answered("save_raw_data", port, answer) /\ SameUp

StopRawData == \E answer \in Replies :
  /\ Working
  /\ it_raw_recorder_' = "none" /\ raw_recorder_' = 0
  /\ IF live THEN ShutThread ELSE client_crash' = "no_comm"
  /\ TellPort(-1, answer) /\ Answered("save_raw_data", 0, answer) /\ SameUp

(* raw_data_save_path; a path that cannot be made ends the process, which  *)
(* is left out.  A recorder that runs takes the path for its next savers.  *)
SavePath ==
  /\ last_stage_is_up_ /\ ~path /\ path' = TRUE /\ Answered("raw_data_save_path", 0, 0)
  /\ UNCHANGED <<live, last_stage_is_up_, client_starts, recorderVars, server_raw_port, angleVars,
                 ownVars, client_crash>>

-----------------------------------------------------------------------------
(* use_ring_id: the converter is made before the lidar is asked for the    *)
(* table; only the Falcons have one.                                       *)
UseRingId == \E falcon \in BOOLEAN, answer \in Replies :
  /\ asked.attribute # "deleted"
  /\ CASE ~falcon -> Answered("use_ring_id", 1, 0) /\ UNCHANGED ring_id_converter_
       [] falcon /\ ~live -> Answered("use_ring_id", 1, -1) /\ UNCHANGED ring_id_converter_
       [] OTHER -> Answered("use_ring_id", 1, answer) /\ ring_id_converter_' = TRUE
  /\ UNCHANGED <<live, last_stage_is_up_, client_starts, recorderVars, path, server_raw_port,
                 anglehv_init_, ownVars, client_crash>>

(* The table of angles: the lidar is asked once, a file brings its own or  *)
(* is given one, and what is there is never replaced.                      *)
Unasked == asked.attribute # "deleted"
SameButTables == UNCHANGED <<live, last_stage_is_up_, client_starts, recorderVars, path,
                             server_raw_port, client_crash>>

GetAngleTable == \E good \in BOOLEAN :
  /\ Unasked /\ anglehv_init_' = (anglehv_init_ \/ (live /\ good))
  /\ Answered("get_anglehv_table", 0, IF anglehv_init_' THEN 0 ELSE -1)
  /\ UNCHANGED <<ring_id_converter_, ownVars>> /\ SameButTables

SetAngleTable == \E good \in BOOLEAN :
  /\ Unasked /\ anglehv_init_' = (anglehv_init_ \/ (~live /\ good))
  /\ Answered("set_anglehv_table", 0, IF anglehv_init_' # anglehv_init_ THEN 0 ELSE -1)
  /\ UNCHANGED <<ring_id_converter_, ownVars>> /\ SameButTables

-----------------------------------------------------------------------------
(* The other attributes: who answers.  A file has answers of its own for   *)
(* some, and for the name of an attribute of the lidar as a string it has  *)
(* an empty one.                                                           *)
AskLidar(otherwise) == IF live THEN Replies ELSE {otherwise}

GetAttribute(attribute) ==
  CASE attribute \in {"server_starting_log", "is_live_direct_memory"} -> {-1}
    [] attribute \in {"frame_rate", "reflectance_mode", "return_mode", "enabled"} -> AskLidar(0)
    [] OTHER -> AskLidar(-1)

GetAttributeString(attribute) ==
  CASE attribute \in {"is_live_direct_memory", "is_pc_server", "is_live_lidar"} -> {0}
    [] attribute \in {"server_any", "source_is_live_lidar"} -> AskLidar(0)
    [] OTHER -> AskLidar(-1)

(* set_roi, get_mode_status, get_sn and the like.                          *)
Query == AskLidar(0)

Attributes == {"server_starting_log", "is_live_direct_memory", "frame_rate", "is_pc_server",
               "server_any", "source_is_live_lidar", "any"}

Ask == \E attribute \in Attributes :
  /\ Unasked
  /\ \E answer \in GetAttribute(attribute) \cup GetAttributeString(attribute) \cup Query :
       Answered(attribute, 0, answer)
  /\ UNCHANGED <<angleVars, ownVars>> /\ SameButTables

(* set_attribute_string, but for what has actions of its own.              *)
ForceXyz == \E value \in {0, 1, 2} :
  /\ Unasked
  /\ force_xyz_pointcloud_' = IF value = 2 THEN force_xyz_pointcloud_ ELSE value = 1
  /\ Answered("force_xyz_pointcloud", value, IF value = 2 THEN -1 ELSE 0)
  /\ UNCHANGED <<angleVars, faults_save_raw_>> /\ SameButTables

(* Kept even if the lidar cannot be told.                                  *)
FaultsSaveRaw == \E answer \in AskLidar(-1) :
  /\ Unasked /\ faults_save_raw_' = TRUE /\ Answered("faults_save_raw", 0, answer)
  /\ UNCHANGED <<angleVars, force_xyz_pointcloud_>> /\ SameButTables

SetAttribute == \E answer \in AskLidar(-1) :
  /\ Unasked /\ Answered("set_any", 0, answer)
  /\ UNCHANGED <<angleVars, ownVars>> /\ SameButTables

(* The client is deleted, or the process has ended.                        *)
ClientEnded == (asked.attribute = "deleted" \/ client_crash # "none") /\ UNCHANGED attributeVars

RecordRaw == NotWorking \/ AlreadyListens \/ CannotChange \/ SaveRawData \/ StopRawData \/ SavePath

AttributesNext == (client_crash = "none" /\ asked.attribute # "deleted"
           /\ (Start \/ Stop \/ DeleteClient \/ RecordRaw \/ UseRingId \/ GetAngleTable
               \/ SetAngleTable \/ Ask \/ ForceXyz \/ FaultsSaveRaw \/ SetAttribute)) \/ ClientEnded

AttributesSpec == AttributesInit /\ [][AttributesNext]_attributeVars

-----------------------------------------------------------------------------
AttributesTypeOK ==
  /\ live \in BOOLEAN /\ last_stage_is_up_ \in BOOLEAN /\ client_starts \in 0..MaxClientStarts
  /\ raw_recorder_ \in Ports \cup {0} /\ it_raw_recorder_ \in {"none", "running", "shut"}
  /\ path \in BOOLEAN /\ server_raw_port \in Ports \cup {-1}
  /\ \A b \in {ring_id_converter_, anglehv_init_, force_xyz_pointcloud_, faults_save_raw_} : b \in BOOLEAN
  /\ asked.answer \in Replies /\ client_crash \in {"none", "InnoThread", "no_path", "no_comm"}

(* The answer to save_raw_data tells what is recorded: after a 0 a thread  *)
(* runs for the port that was asked for and the lidar sends to it, or none *)
(* runs and the lidar sends nothing; after -1 none runs.  A client that is *)
(* tidily used breaks no verification, and leaves no thread when it goes.  *)
AnswerIsTrue ==
  /\ client_crash = "none"
  /\ asked.attribute = "save_raw_data" =>
       IF asked.answer = 0 /\ asked.value # 0
       THEN /\ it_raw_recorder_ = "running" /\ raw_recorder_ = asked.value
            /\ server_raw_port = asked.value
       ELSE /\ it_raw_recorder_ = "none"
            /\ asked.answer = 0 => server_raw_port = -1
=============================================================================
