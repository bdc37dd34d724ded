----------------------------- MODULE FileInput ------------------------------
(***************************************************************************)
(* FileInput and TcpInput (sdk_client/stage_client_read.cpp), with the     *)
(* loop of StageClientRead::process_job_ that plays a file again and       *)
(* again: three buffers, one for each kind of packet, are filled from the  *)
(* stream and handed on, at the rate the application asked for.            *)
(*                                                                         *)
(* A stream is a sequence of packets, some of them damaged.  Sizes are     *)
(* left out: a packet counts one unit towards a rate in bytes.             *)
(***************************************************************************)
EXTENDS Integers, Sequences, FiniteSets

CONSTANTS
  MaxLength,      (* bound: packets of a file                                *)
  MaxRewind,      (* bound: how often a file is played again                 *)
  MaxTime,        (* bound: the timestamps of data packets are 1..MaxTime    *)
  MaxJump         (* a year: the step of a timestamp that resets the pace    *)

FileAssumption == {MaxLength, MaxRewind, MaxTime, MaxJump} \subseteq Nat \ {0}

(* A packet of any kind passes its checks or not; "bad magic", "bad type"  *)
(* and "truncated" are ends of a stream that cannot be read on.            *)
DataPackets   == [kind : {"data"}, good : BOOLEAN, ts : 1..MaxTime]
OtherPackets == [kind : {"message"}, good : BOOLEAN] \cup [kind : {"status", "table", "corrupt"}]
Streams == UNION {[1..n -> DataPackets \cup OtherPackets] : n \in 0..MaxLength}

Buffered == {"data", "message", "status"}

(* play_rate_ in packets per unit of time, play_rate_x_ in timestamps per  *)
(* unit of time, or neither.                                               *)
Settings == [source : {"FILE", "TCP"}, rewind : 0..MaxRewind, opens : BOOLEAN,
             pace : {"none", "bytes", "times"}]

VARIABLES
  settings, stream,
  start_flag_,
  file_reader,    (* where process_job_ is                                   *)
  at,             (* the position in the stream                              *)
  play_round_,
  buffers,        (* the kinds that have a buffer                            *)
  latest_data_us_, first_data_us_, total_received,
  now, start_time_us_,
  out,            (* history: what was handed on since the file was opened   *)
  messages        (* the messages sent: end of file, cannot read             *)

inputVars == <<settings, stream>>
paceVars  == <<latest_data_us_, first_data_us_, total_received, now, start_time_us_>>
fileVars  == <<inputVars, start_flag_, file_reader, at, play_round_, buffers, paceVars, out,
               messages>>

FileInit ==
  /\ settings \in {s \in Settings : s.source = "TCP" => s.pace = "none" /\ s.rewind = 0}
  /\ stream \in Streams
  /\ start_flag_ = TRUE /\ file_reader = "read_data" /\ at = 1 /\ play_round_ = 0 /\ buffers = {}
  /\ latest_data_us_ = 0 /\ first_data_us_ = 0 /\ total_received = 0
  /\ now = 0 /\ start_time_us_ = 0 /\ out = <<>> /\ messages = <<>>

StopFile ==
  /\ start_flag_ /\ start_flag_' = FALSE
  /\ UNCHANGED <<inputVars, file_reader, at, play_round_, buffers, paceVars, out, messages>>

-----------------------------------------------------------------------------
(* process_job_ and read_data.                                             *)
Tell(m) == messages' = Append(messages, m)

(* Mutant of PlayedOut: one round too many.                                *)
PlayedOnceMore == play_round_ >= settings.rewind + 2
PlayedOut == play_round_ >= settings.rewind + 1

FileEnd ==
  /\ file_reader = "read_data" /\ settings.source = "FILE" /\ PlayedOut
  /\ file_reader' = "ended" /\ Tell("file_end")
  /\ UNCHANGED <<inputVars, start_flag_, at, play_round_, buffers, paceVars, out>>

(* keep_reading_ sets the pace back, but not the clock.                    *)
OpenFile ==
  /\ file_reader = "read_data" /\ settings.opens /\ (settings.source = "FILE" => ~PlayedOut)
  /\ file_reader' = "reading" /\ at' = 1 /\ out' = <<>>
  /\ start_time_us_' = now /\ first_data_us_' = 0 /\ latest_data_us_' = 0 /\ total_received' = 0
  /\ UNCHANGED <<inputVars, start_flag_, play_round_, buffers, now, messages>>

(* A file that does not open is tried again, and counts as no round; a     *)
(* connection that does not open is fatal.                                 *)
CannotOpen ==
  /\ file_reader = "read_data" /\ ~settings.opens /\ (settings.source = "FILE" => ~PlayedOut)
  /\ IF settings.source = "FILE" THEN file_reader' = "failed" /\ UNCHANGED messages
     ELSE file_reader' = "ended" /\ Tell("cannot_read")
  /\ UNCHANGED <<inputVars, start_flag_, at, play_round_, buffers, paceVars, out>>

(* stopping_or_stopped_ after a round, that ended well or not; if it did   *)
(* not, the reader that stops says so.                                     *)
AfterRound ==
  /\ file_reader \in {"played", "failed"}
  /\ file_reader' = IF start_flag_ THEN "read_data" ELSE "ended"
  /\ IF ~start_flag_ /\ file_reader = "failed" THEN Tell("cannot_read") ELSE UNCHANGED messages
  /\ UNCHANGED <<inputVars, start_flag_, at, play_round_, buffers, paceVars, out>>

-----------------------------------------------------------------------------
(* keep_reading_.  The end of a round frees the buffers.                   *)
EndRound(ret) ==
  /\ buffers' = {}
  /\ IF settings.source = "FILE"
     THEN play_round_' = play_round_ + 1 /\ file_reader' = ret /\ UNCHANGED messages
     ELSE /\ file_reader' = "ended" /\ UNCHANGED play_round_
          /\ IF ret = "failed" THEN Tell("cannot_read") ELSE UNCHANGED messages

StopReading ==
  /\ file_reader = "reading" /\ ~start_flag_ /\ EndRound("played")
  /\ UNCHANGED <<inputVars, start_flag_, at, paceVars, out>>

AtEnd == at > Len(stream)
IsCorrupt == ~AtEnd /\ stream[at].kind = "corrupt"

(* The end of a file is no error, the end of a connection is; so are a     *)
(* wrong magic number or type, and a packet that is cut off.               *)
EndOfStream ==
  /\ file_reader = "reading" /\ start_flag_ /\ (AtEnd \/ IsCorrupt)
  /\ EndRound(IF AtEnd /\ settings.source = "FILE" THEN "played" ELSE "failed")
  /\ UNCHANGED <<inputVars, start_flag_, at, paceVars, out>>

(* Mutant of HandedOn: the buffer is kept for the next packet.             *)
KeptBuffer(p) == Buffered
HandedOn(p)   == Buffered \ {p.kind}

Passes(p) == p.kind \in {"data", "message"} => p.good

(* read_packet_ and the hand-over.  A table is kept by the client.         *)
TakePacket ==
  /\ file_reader = "reading" /\ start_flag_ /\ ~AtEnd /\ ~IsCorrupt
  /\ LET p == stream[at]
     IN  IF Passes(p)
         THEN /\ out' = IF p.kind \in Buffered THEN Append(out, at) ELSE out
              /\ buffers' = HandedOn(p)
              /\ latest_data_us_' = IF p.kind = "data" THEN p.ts ELSE latest_data_us_
         ELSE buffers' = Buffered /\ UNCHANGED <<out, latest_data_us_>>
  /\ at' = at + 1 /\ file_reader' = "paced"
  /\ UNCHANGED <<inputVars, start_flag_, play_round_, first_data_us_, total_received, now,
                 start_time_us_, messages>>

-----------------------------------------------------------------------------
(* read_file_rate_control_: the reader sleeps until the packet is due.     *)
Ahead(elapsed) == elapsed > now - start_time_us_

SleepUntil(elapsed) == now' = IF Ahead(elapsed) THEN start_time_us_ + elapsed ELSE now

(* A rate in bytes.                                                        *)
PaceBytes ==
  /\ settings.pace = "bytes"
  /\ total_received' = total_received + 1 /\ SleepUntil(total_received + 1)
  /\ UNCHANGED <<latest_data_us_, first_data_us_, start_time_us_>>

JumpsAhead == latest_data_us_ > first_data_us_ + MaxJump

(* A factor of the recorded speed: the first timestamp starts the clock,   *)
(* a jump starts it anew, and packets before it do not wait.               *)
PaceTimes ==
  /\ settings.pace = "times"
  /\ IF first_data_us_ = 0 \/ JumpsAhead
     THEN /\ first_data_us_' = latest_data_us_
          /\ start_time_us_' = IF first_data_us_ = 0 THEN start_time_us_ ELSE now
          /\ UNCHANGED now
     ELSE /\ UNCHANGED <<first_data_us_, start_time_us_>>
          /\ IF latest_data_us_ > first_data_us_ THEN SleepUntil(latest_data_us_ - first_data_us_)
             ELSE UNCHANGED now
  /\ UNCHANGED <<latest_data_us_, total_received>>

Pace ==
  /\ file_reader = "paced" /\ file_reader' = "reading"
  /\ PaceBytes \/ PaceTimes \/ (settings.pace = "none" /\ UNCHANGED paceVars)
  /\ UNCHANGED <<inputVars, start_flag_, at, play_round_, buffers, out, messages>>

FileReturned == file_reader = "ended" /\ UNCHANGED fileVars

-----------------------------------------------------------------------------
FileReader == \/ FileEnd \/ OpenFile \/ CannotOpen \/ AfterRound
              \/ StopReading \/ EndOfStream \/ TakePacket \/ Pace

FileNext == StopFile \/ FileReader \/ FileReturned

FileSpec == FileInit /\ [][FileNext]_fileVars
FairFileSpec == FileSpec /\ WF_fileVars(FileReader)

-----------------------------------------------------------------------------
FileTypeOK ==
  /\ settings \in Settings /\ stream \in Streams /\ start_flag_ \in BOOLEAN
  /\ file_reader \in {"read_data", "reading", "paced", "played", "failed", "ended"}
  /\ at \in 1..(MaxLength + 1) /\ play_round_ \in 0..(MaxRewind + 1) /\ buffers \subseteq Buffered
  /\ latest_data_us_ \in 0..MaxTime /\ first_data_us_ \in 0..MaxTime
  /\ total_received \in Nat /\ now \in Nat /\ start_time_us_ \in Nat
  /\ out \in Seq(1..MaxLength) /\ messages \in Seq({"file_end", "cannot_read"})

(* What a round has handed on so far is what the stream holds up to the    *)
(* position, in order and once, without the packets that fail their        *)
(* checks; the buffer a packet was handed on in is not used for another;   *)
(* and when the reader is between rounds none is held.                     *)
EveryPacketOnce ==
  /\ {out[k] : k \in DOMAIN out} =
       {i \in 1..(at - 1) : stream[i].kind \in Buffered /\ Passes(stream[i])}
  /\ \A j, k \in DOMAIN out : j < k => out[j] < out[k]
  /\ file_reader = "paced" /\ out # <<>> /\ out[Len(out)] = at - 1
       => stream[at - 1].kind \notin buffers
  /\ file_reader \notin {"reading", "paced"} => buffers = {}

(* With a rate, a packet waits until it is due, and none of them waits     *)
(* longer than a year of the recording.                                    *)
KeepsPace ==
  LET waited == now - start_time_us_
  IN  file_reader = "reading" =>
        /\ settings.pace = "bytes" => waited >= total_received
        /\ settings.pace = "times" /\ first_data_us_ # 0
             => waited >= latest_data_us_ - first_data_us_ /\ waited <= MaxJump

(* A file that can be opened is played rewind + 1 times, damaged or not,   *)
(* and then its end is told, once and last.                                *)
PlaysAllRounds ==
  file_reader = "ended" /\ settings.source = "FILE" /\ start_flag_
    => play_round_ = settings.rewind + 1 /\ messages = <<"file_end">>

(* A file that can be opened comes to its end, and any reader that is told *)
(* to stop does.                                                           *)
ReadingEnds == settings.opens \/ ~start_flag_ ~> file_reader = "ended"
=============================================================================
