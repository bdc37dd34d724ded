------------------------------ MODULE UdpInput ------------------------------
(***************************************************************************)
(* UdpInput (sdk_client/stage_client_read.cpp): the reader asks the lidar  *)
(* for its ports, turns its UDP server on, and starts a thread for each    *)
(* port.  A thread receives packets until the reader is told to stop,      *)
(* converts those of the old protocol (inno_lidar_packet_v1_adapt.h),      *)
(* leaves out repeated ones and counts the gaps between them.              *)
(*                                                                         *)
(* A lidar speaks one version of the protocol.  first_step_, which a       *)
(* timeout sets, and the order of packets are in Misorder.                 *)
(***************************************************************************)
EXTENDS Integers, FiniteSets

CONSTANTS
  max_value_,              (* the highest value of the 16-bit counters       *)
  max_delta_counter_init_, (* the largest step that is no gap                *)
  kFirstPackets,           (* 5, the data packets that are not checked       *)
  kGetUdpPortIntervals     (* 5, the waits for the ports of the lidar        *)

UdpAssumption ==
  /\ {max_value_, max_delta_counter_init_, kFirstPackets, kGetUdpPortIntervals} \subseteq Nat \ {0}
  /\ 2 * max_delta_counter_init_ < max_value_

Kinds   == {"data", "status", "message"}
Counts  == 0..max_value_

(* What the lidar and the application are set to: the version of the       *)
(* protocol, whether the firmware counts its data packets, the kinds that  *)
(* share a port, and whether the application asks for a port of its own.   *)
Lidars == [version : {1, 2}, counts : BOOLEAN, udp_port_ : BOOLEAN,
           ports : {{Kinds}, {{"data"}, {"status", "message"}}, {{"data", "message"}, {"status"}},
                    {{k} : k \in Kinds}}]

VARIABLES
  udp_lidar,
  udp_start_flag_,
  server_udp,     (* the UDP server of the lidar is on                       *)
  udp_reader,     (* where read_data is                                      *)
  round, get_interval_count,
  thread,         (* the threads, one for each port: where they are          *)
  gap,            (* those that leave a gap before what they receive         *)
  data, status,   (* the counters of data and of status packets              *)
  fatal,          (* a fatal message was sent                                *)
  (* History: the count of the last good data packet that came; whether     *)
  (* something else than a packet of this version was handed on, and        *)
  (* whether a good packet was left out that repeats nothing                 *)
  came, unsound, lost

readerVars  == <<udp_reader, round, get_interval_count, server_udp, fatal>>
counterVars == <<data, status>>
historyVars == <<came, unsound, lost>>
udpVars == <<udp_lidar, udp_start_flag_, readerVars, thread, gap, counterVars, historyVars>>

None == -1

UdpInit ==
  /\ udp_lidar \in Lidars /\ udp_start_flag_ = TRUE /\ server_udp \in BOOLEAN
  /\ udp_reader = "ports" /\ round = 0 /\ get_interval_count = 0
  /\ thread = [t \in udp_lidar.ports |-> "none"] /\ gap = {}
  /\ data = [first |-> 0, last |-> 0, zeros |-> 0] /\ status = [first |-> TRUE, last |-> 0]
  /\ fatal = FALSE /\ came = None /\ unsound = FALSE /\ lost = FALSE

(* input_->stop().                                                         *)
StopInput ==
  /\ udp_start_flag_ /\ udp_start_flag_' = FALSE
  /\ UNCHANGED <<udp_lidar, readerVars, thread, gap, counterVars, historyVars>>

-----------------------------------------------------------------------------
(* read_data: the ports are asked for twice.                               *)
Return(ret) ==
  /\ udp_reader' = ret
  /\ fatal' = (fatal \/ ret = "error")  (* process_job_ tells of an error    *)

NoPorts ==
  /\ udp_reader = "ports"
  /\ \/ get_interval_count = kGetUdpPortIntervals /\ Return("error") /\ UNCHANGED get_interval_count
     \/ get_interval_count < kGetUdpPortIntervals /\ ~udp_start_flag_
        /\ Return("returned") /\ UNCHANGED get_interval_count
     \/ get_interval_count < kGetUdpPortIntervals /\ udp_start_flag_
        /\ get_interval_count' = get_interval_count + 1 /\ UNCHANGED <<udp_reader, fatal>>
  /\ UNCHANGED <<udp_lidar, udp_start_flag_, round, server_udp, thread, gap, counterVars, historyVars>>

(* Setting the ports may fail unnoticed; the second round sees it.         *)
FirstRound ==
  /\ udp_reader = "ports" /\ round = 0
  /\ IF ~server_udp /\ ~udp_lidar.udp_port_ THEN Return("error") /\ UNCHANGED <<round, server_udp>>
     ELSE /\ round' = 1 /\ UNCHANGED <<udp_reader, fatal>>
          /\ IF udp_lidar.udp_port_ THEN server_udp' \in {server_udp, TRUE} ELSE UNCHANGED server_udp
  /\ get_interval_count' = 0
  /\ UNCHANGED <<udp_lidar, udp_start_flag_, thread, gap, counterVars, historyVars>>

SecondRound ==
  /\ udp_reader = "ports" /\ round = 1
  /\ IF ~server_udp THEN Return("error") /\ UNCHANGED thread
     ELSE udp_reader' = "join" /\ thread' = [t \in udp_lidar.ports |-> "bind"] /\ UNCHANGED fatal
  /\ UNCHANGED <<udp_lidar, udp_start_flag_, round, get_interval_count, server_udp, gap, counterVars,
                 historyVars>>

Joined ==
  /\ udp_reader = "join" /\ \A t \in udp_lidar.ports : thread[t] \in {"ended", "unbound"}
  /\ Return("returned")
  /\ UNCHANGED <<udp_lidar, udp_start_flag_, round, get_interval_count, server_udp, thread, gap,
                 counterVars, historyVars>>

-----------------------------------------------------------------------------
(* read_udp_: the start, the test before each packet, a timeout or what is *)
(* not for us.                                                             *)
Goes(t, from, to) ==
  /\ thread[t] = from /\ thread' = [thread EXCEPT ![t] = to]
  /\ UNCHANGED <<udp_lidar, udp_start_flag_, readerVars>>

Bind(t) == /\ Goes(t, "bind", "test") \/ Goes(t, "bind", "unbound")
           /\ UNCHANGED <<gap, counterVars, historyVars>>

TestStart(t) == /\ Goes(t, "test", IF udp_start_flag_ THEN "recv" ELSE "ended")
                /\ UNCHANGED <<gap, counterVars, historyVars>>

(* Nothing comes for half a second, or a packet of another lidar, or one   *)
(* that is too small or fails its checks.                                  *)
Ignore(t) == Goes(t, "recv", "test") /\ UNCHANGED <<gap, counterVars, historyVars>>

-----------------------------------------------------------------------------
Abs(n) == IF n < 0 THEN -n ELSE n

edge_min_value == Abs(0 - max_value_ + max_delta_counter_init_)

NearEdge(n) == n >= max_value_ - max_delta_counter_init_ + 1 \/ n <= max_delta_counter_init_ - 1

verify_counter_process(current, last) ==
  ~ \/ NearEdge(last) /\ Abs(current - last) > edge_min_value
    \/ Abs(current - last) <= max_delta_counter_init_

(* verify_inno_data_packet_counter: firmware that does not count sends 0.  *)
(* Mutant of Unchecked: the first packets do not tell.                     *)
UncheckedAtFirst == data.first < kFirstPackets
Unchecked == data.first < kFirstPackets \/ data.zeros >= kFirstPackets

IsRepeat(n) == ~Unchecked /\ n = data.last

DataAfter(n) ==
  IF data.first < kFirstPackets
  THEN [first |-> data.first + 1, last |-> n, zeros |-> data.zeros + IF n = 0 THEN 1 ELSE 0]
  ELSE IF Unchecked THEN data ELSE [data EXCEPT !.last = n]

(* The conversion of the old protocol moves the header into the gap before *)
(* it; the first packet of a thread only makes the gap.                    *)
Converts(t) == t \in gap
MakesGap(t) == udp_lidar.version = 1 /\ ~Converts(t)

(* A packet is handed on: it must start where its buffer does.             *)
HandOn(t) == unsound' = (unsound \/ (udp_lidar.version = 1) # (t \in gap))

LeaveOut(wrongly) == lost' = (lost \/ wrongly)

(* A good data packet comes, with any count after any losses, but not the  *)
(* good copy of a damaged one.                                             *)
Sends(n) == IF udp_lidar.counts THEN came = None /\ data.first > 0 => n # data.last ELSE n = 0

DataPacket(t, n) ==
  /\ "data" \in t /\ Sends(n) /\ Goes(t, "recv", "test")
  /\ data' = DataAfter(n) /\ came' = n
  /\ gap' = IF ~IsRepeat(n) /\ MakesGap(t) THEN gap \cup {t} ELSE gap
  /\ IF IsRepeat(n) \/ MakesGap(t)
     THEN /\ LeaveOut(~(udp_lidar.counts /\ n = came) /\ ~(udp_lidar.version = 1 /\ t \notin gap))
          /\ UNCHANGED unsound
     ELSE HandOn(t) /\ UNCHANGED lost
  /\ UNCHANGED status

(* Messages and tables are not counted, nor is the status in the old       *)
(* protocol.                                                               *)
Uncounted(t) ==
  /\ t \cap {"data", "message"} # {} \/ udp_lidar.version = 1
  /\ Goes(t, "recv", "test")
  /\ IF MakesGap(t) THEN gap' = gap \cup {t} /\ UNCHANGED unsound
     ELSE HandOn(t) /\ UNCHANGED gap
  /\ UNCHANGED <<counterVars, came, lost>>

(* Status packets of the new protocol are counted.                         *)
StatusPacket(t, n) ==
  /\ "status" \in t /\ udp_lidar.version = 2 /\ Goes(t, "recv", "test")
  /\ IF ~status.first /\ n = status.last THEN UNCHANGED <<status, unsound>>
     ELSE status' = [first |-> FALSE, last |-> n] /\ HandOn(t)
  /\ UNCHANGED <<data, gap, came, lost>>

(* Data of the old protocol is counted before it fails its checks.         *)
BadPacket(t, n) ==
  /\ udp_lidar.version = 1 /\ "data" \in t /\ ~IsRepeat(n) /\ (~udp_lidar.counts => n = 0)
  /\ Goes(t, "recv", "test")
  /\ data' = DataAfter(n) /\ came' = None
  /\ UNCHANGED <<gap, status, unsound, lost>>

-----------------------------------------------------------------------------
Reader == NoPorts \/ FirstRound \/ SecondRound \/ Joined

Thread(t) ==
  \/ Bind(t) \/ TestStart(t) \/ Ignore(t) \/ Uncounted(t)
  \/ \E n \in Counts : DataPacket(t, n) \/ StatusPacket(t, n) \/ BadPacket(t, n)

(* What the thread does for a kind of packets though none come.            *)
GoesOn(k) == \E t \in udp_lidar.ports : k \in t /\ (Bind(t) \/ TestStart(t) \/ Ignore(t))

Returned == udp_reader \in {"returned", "error"} /\ UNCHANGED udpVars

UdpNext == StopInput \/ Reader \/ (\E t \in udp_lidar.ports : Thread(t)) \/ Returned

UdpSpec == UdpInit /\ [][UdpNext]_udpVars

(* A socket's timeout ends every wait, and so does the one of a request.   *)
FairUdpSpec ==
  /\ UdpSpec /\ WF_udpVars(Reader)
  /\ \A k \in Kinds : WF_udpVars(GoesOn(k))

-----------------------------------------------------------------------------
UdpTypeOK ==
  /\ udp_lidar \in Lidars /\ udp_start_flag_ \in BOOLEAN /\ server_udp \in BOOLEAN
  /\ udp_reader \in {"ports", "join", "returned", "error"}
  /\ round \in {0, 1} /\ get_interval_count \in 0..kGetUdpPortIntervals
  /\ thread \in [udp_lidar.ports -> {"none", "bind", "test", "recv", "unbound", "ended"}]
  /\ gap \subseteq udp_lidar.ports
  /\ data \in [first : 0..kFirstPackets, last : Counts, zeros : 0..kFirstPackets]
  /\ status \in [first : BOOLEAN, last : Counts]
  /\ fatal \in BOOLEAN /\ came \in Counts \cup {None} /\ unsound \in BOOLEAN /\ lost \in BOOLEAN

(* Every packet that is handed on is one of the new protocol at the start  *)
(* of its buffer, so that the pointer that is freed is the one that was    *)
(* allocated: a thread converts nothing before it has a gap.               *)
PacketsFillTheirBuffers == ~unsound

(* The gap test is the distance on the circle of the 16-bit counts.        *)
Distance(m, n) == LET d == (m - n) % (max_value_ + 1) IN
                  IF d <= (max_value_ + 1) \div 2 THEN d ELSE max_value_ + 1 - d
GapsAreGaps ==
  \A n \in Counts : verify_counter_process(n, data.last) <=> Distance(n, data.last) > max_delta_counter_init_

(* A good data packet is left out only if it repeats the one before it, or *)
(* makes the gap: firmware that sends no counts loses none, whatever the   *)
(* first five packets were.  What is handed on fills its buffer, and the   *)
(* gaps that are counted are gaps.                                         *)
OnlyRepeatsAreLeftOut == ~lost /\ PacketsFillTheirBuffers /\ GapsAreGaps

(* Once told to stop, the reader returns, whatever the lidar sends.        *)
StopEndsReading == ~udp_start_flag_ ~> udp_reader \in {"returned", "error"}

(* A reader that returns by itself has told why, unless a port could not   *)
(* be bound, of which nobody hears.                                        *)
EndIsTold ==
  udp_reader \in {"returned", "error"} /\ udp_start_flag_
    => fatal \/ \E t \in udp_lidar.ports : thread[t] = "unbound"
=============================================================================
