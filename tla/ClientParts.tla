----------------------------- MODULE ClientParts -----------------------------
(***************************************************************************)
(* What the client of a lidar does beside its life, each part on its own:  *)
(* the reader of UDP packets (UdpInput), the reader of a file or a         *)
(* connection (FileInput), the attributes (ClientAttributes), the requests *)
(* to the lidar (NetManager), the commands made of them (LidarCommands),   *)
(* the configuration of the stages (Configs) and the recorder's callback   *)
(* (CallbackSlot).                                                         *)
(***************************************************************************)
EXTENDS UdpInput, FileInput, ClientAttributes, NetManager, LidarCommands, Configs, CallbackSlot

(* A reader that ends by itself has told why (UdpInput), and after all its *)
(* rounds if it reads a file (FileInput).                                  *)
EndsAreTold == EndIsTold /\ PlaysAllRounds

(* A round of a file hands on every packet once and in its time            *)
(* (FileInput).                                                            *)
EveryPacketInTime == EveryPacketOnce /\ KeepsPace

(* The answer to save_raw_data is what is recorded (ClientAttributes),     *)
(* what a request to the lidar reports as success is one (NetManager), and *)
(* so is what the commands report of the lidar (LidarCommands).            *)
AnswersAreTrue == AnswerIsTrue /\ AnswersAreWhole /\ CommandsAreSound

(* A setting reaches its stage, also one that is created later (Configs),  *)
(* and a recorder's callback that was accepted is called, with its own     *)
(* context, until it fails (CallbackSlot).                                 *)
SettingsReachStages == ConfigsAreSound /\ CallbacksStay
=============================================================================
