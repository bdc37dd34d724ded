------------------------------ MODULE Misorder ------------------------------
(***************************************************************************)
(* The reordering of data packets in the read stage of the lidar client:   *)
(* add_deliver_packet_after_correct_ and MisorderBufQueue                  *)
(* (sdk_client/stage_client_read.{cpp,h}).                                 *)
(*                                                                         *)
(* The read thread of the data socket receives packets in any order, with  *)
(* losses.  A packet that is not the expected one waits in a priority      *)
(* queue; when the queue holds more than max_q_len_ packets the stage      *)
(* gives up the gap before the first of them.  A jump of the frame index   *)
(* or first_step_, which a socket timeout and the end of a file set,       *)
(* empties the queue and starts over from whatever packet comes.           *)
(*                                                                         *)
(* first_step_ is a plain bool that every socket's thread may set, and the *)
(* handler reads it twice, so the two reads are two steps.  Positions      *)
(* stand for packets; the contents of a packet are left out, and so is the *)
(* filter for a packet equal to the one just before it, which is off for   *)
(* firmware that does not count its packets.                               *)
(***************************************************************************)
EXTENDS Integers, Sequences, FiniteSets

CONSTANTS
  Frames,       (* bound: the frame indices in use, a set of naturals        *)
  LastSub,      (* sub_idx of the packet of a frame with is_last_sub_frame   *)
  Copies,       (* bound: how often the network may deliver a packet, or how *)
                (* often the file is played                                  *)
  MaxQueue,     (* max_q_len_                                                *)
  MaxJump,      (* kResetMisorderQueueFrameIdxDiff                           *)
  OtherSockets, (* status and messages have sockets and threads of their own *)
  IsFile,       (* the packets come from a pcap file, played again and again *)
  MaxRestarts,  (* bound: timeouts and rewinds                               *)
  None

ASSUME ConstantAssumption ==
  /\ Frames \subseteq Nat /\ IsFiniteSet(Frames) /\ LastSub \in Nat
  /\ Copies \in Nat \ {0} /\ MaxQueue \in Nat \ {0} /\ MaxJump \in Nat
  /\ OtherSockets \in BOOLEAN /\ IsFile \in BOOLEAN /\ MaxRestarts \in Nat

Packets   == [idx : Frames, sub : 0..LastSub, copy : 1..Copies]
Positions == [idx : Nat, sub : Nat]

ASSUME NoneAssumption == None \notin Packets

VARIABLES
  pc,          (* where the handler is                                       *)
  data_packet, (* its argument                                               *)
  first_step,  (* first_step_ of the input                                   *)
  expected,    (* expected_idx_ and expected_sub_idx_                        *)
  misorder_que,
  stream,      (* what was handed to the deliver stage since the last reset  *)
  sent, freed, (* every packet handed on, every packet freed                 *)
  late,        (* those freed as unexpected since the last reset             *)
  arrived, restarts

vars == <<pc, data_packet, first_step, expected, misorder_que, stream, sent, freed,
          late, arrived, restarts>>

Init ==
  /\ pc = "idle" /\ data_packet = None
  /\ first_step = TRUE /\ expected = [idx |-> 0, sub |-> 0]
  /\ misorder_que = {} /\ stream = <<>>
  /\ sent = {} /\ freed = {} /\ late = {} /\ arrived = {} /\ restarts = 0

(* InnoDataPacketComparator: what leaves the queue first.                  *)
Before(p, q) == p.idx < q.idx \/ (p.idx = q.idx /\ p.sub < q.sub)

SamePosition(p, q) == p.idx = q.idx /\ p.sub = q.sub

NextExpected(p) == IF p.sub = LastSub THEN [idx |-> p.idx + 1, sub |-> 0]
                                      ELSE [idx |-> p.idx, sub |-> p.sub + 1]

(* The packets the priority queue may have on top: two copies of a packet  *)
(* are equal to the comparator.                                            *)
Tops == {p \in misorder_que : \A q \in misorder_que : ~Before(q, p)}

JumpsTooFar(p) == p.idx - expected.idx > MaxJump \/ expected.idx - p.idx > MaxJump

Full == Cardinality(misorder_que) > MaxQueue

(* add_deliver_packet_ followed by next_expected.                          *)
Deliver(p) ==
  /\ sent' = sent \cup {p}
  /\ stream' = Append(stream, p)
  /\ expected' = NextExpected(p)

(* Mutant of FreeCached: a reset leaves the queue as it is.                *)
KeepCached == UNCHANGED <<misorder_que, freed>>

FreeCached == /\ misorder_que' = {}
              /\ freed' = freed \cup misorder_que

-----------------------------------------------------------------------------
(* A packet comes: the reset test.                                         *)
Receive(p) ==
  /\ pc = "idle" /\ p \notin arrived /\ (IsFile => p.copy = restarts + 1)
  /\ pc' = "tested" /\ data_packet' = p /\ arrived' = arrived \cup {p}
  /\ IF first_step \/ JumpsTooFar(p)
     THEN FreeCached /\ first_step' = TRUE /\ late' = {}
     ELSE UNCHANGED <<misorder_que, freed, first_step, late>>
  /\ UNCHANGED <<expected, stream, sent, restarts>>

IsExpected(p) == first_step \/ SamePosition(p, expected)

(* The second test: the packet is the one expected, or the first one.      *)
Accept ==
  /\ pc = "tested" /\ IsExpected(data_packet)
  /\ pc' = "draining" /\ data_packet' = None
  /\ first_step' = FALSE
  /\ sent' = sent \cup {data_packet}
  /\ stream' = IF first_step THEN <<data_packet>> ELSE Append(stream, data_packet)
  /\ late' = IF first_step THEN {} ELSE late
  /\ expected' = NextExpected(data_packet)
  /\ UNCHANGED <<misorder_que, freed, arrived, restarts>>

(* Mutant of AfterKeeping: off by one.                                     *)
AfterKeepingTooEarly == IF Cardinality(misorder_que') >= MaxQueue THEN "full" ELSE "idle"

(* What follows a packet that was kept or freed: the queue may be full.    *)
AfterKeeping == IF Cardinality(misorder_que') > MaxQueue THEN "full" ELSE "idle"

Keep ==
  /\ pc = "tested" /\ ~IsExpected(data_packet) /\ Before(expected, data_packet)
  /\ misorder_que' = misorder_que \cup {data_packet}
  /\ pc' = AfterKeeping /\ data_packet' = None
  /\ UNCHANGED <<first_step, expected, stream, sent, freed, late, arrived, restarts>>

DropUnexpected ==
  /\ pc = "tested" /\ ~IsExpected(data_packet) /\ ~Before(expected, data_packet)
  /\ freed' = freed \cup {data_packet} /\ late' = late \cup {data_packet}
  /\ UNCHANGED misorder_que
  /\ pc' = AfterKeeping /\ data_packet' = None
  /\ UNCHANGED <<first_step, expected, stream, sent, arrived, restarts>>

GiveUpGap == \E p \in Tops :
  /\ pc = "full"
  /\ pc' = "draining" /\ misorder_que' = misorder_que \ {p} /\ Deliver(p)
  /\ UNCHANGED <<data_packet, first_step, freed, late, arrived, restarts>>

(* One turn of the loop that hands on the queued packets that are next.    *)
Drain == \E p \in Tops :
  /\ pc = "draining" /\ SamePosition(p, expected)
  /\ misorder_que' = misorder_que \ {p} /\ Deliver(p)
  /\ UNCHANGED <<pc, data_packet, first_step, freed, late, arrived, restarts>>

(* Mutant of DrainEnds: the loop is left while the next packet waits.      *)
DrainEndsAtOnce ==
  /\ pc = "draining" /\ pc' = "idle"
  /\ UNCHANGED <<data_packet, first_step, expected, misorder_que, stream, sent, freed,
                 late, arrived, restarts>>

DrainEnds ==
  /\ pc = "draining" /\ \A p \in Tops : ~SamePosition(p, expected)
  /\ pc' = "idle"
  /\ UNCHANGED <<data_packet, first_step, expected, misorder_que, stream, sent, freed,
                 late, arrived, restarts>>

(* A socket recovers from a timeout.  The data socket does so between two  *)
(* packets, the thread of another socket at any time.                      *)
Timeout ==
  /\ ~IsFile /\ restarts < MaxRestarts /\ (pc = "idle" \/ OtherSockets)
  /\ first_step' = TRUE /\ restarts' = restarts + 1
  /\ UNCHANGED <<pc, data_packet, expected, misorder_que, stream, sent, freed, late, arrived>>

(* The file is read to its end.  process_job_ then asks whether to stop,   *)
(* which frees what waits, and plays the file again.                       *)
Rewind ==
  /\ IsFile /\ restarts < MaxRestarts /\ pc = "idle"
  /\ first_step' = TRUE /\ restarts' = restarts + 1
  /\ FreeCached /\ late' = {}
  /\ UNCHANGED <<pc, data_packet, expected, stream, sent, arrived>>

Handle == Accept \/ Keep \/ DropUnexpected \/ GiveUpGap \/ Drain \/ DrainEnds

Next == (\E p \in Packets : Receive(p)) \/ Handle \/ Timeout \/ Rewind

Spec == Init /\ [][Next]_vars

-----------------------------------------------------------------------------
TypeOK ==
  /\ pc \in {"idle", "tested", "full", "draining"}
  /\ data_packet \in Packets \cup {None}
  /\ (pc = "tested") = (data_packet # None)
  /\ first_step \in BOOLEAN /\ expected \in Positions
  /\ misorder_que \subseteq Packets /\ Cardinality(misorder_que) <= MaxQueue + 1
  /\ stream \in Seq(Packets)
  /\ sent \subseteq Packets /\ freed \subseteq Packets
  /\ late \subseteq Packets /\ arrived \subseteq Packets
  /\ restarts \in 0..MaxRestarts

(* Between two resets packets leave the stage in the order of their frame  *)
(* and sub-frame indices, whatever order the network delivers them in.     *)
InOrder == \A i, j \in DOMAIN stream : i < j => Before(stream[i], stream[j])

(* Every buffer the stage received has exactly one fate: it is the packet  *)
(* in hand, it waits, it was handed on, or it was freed.                   *)
BuffersAccounted ==
  LET inHand == {data_packet} \ {None}
  IN /\ arrived = inHand \cup misorder_que \cup sent \cup freed
     /\ inHand \cap (misorder_que \cup sent \cup freed) = {}
     /\ misorder_que \cap (sent \cup freed) = {}
     /\ sent \cap freed = {}

(* A packet is thrown away as unexpected only if it is older than the      *)
(* packet the stage started from, or more than max_q_len_ packets that     *)
(* follow it came before it.                                               *)
LateOnlyBeyondWindow == \A p \in late :
  \/ Before(p, stream[1])
  \/ Cardinality({q \in arrived : q \in sent \cup misorder_que /\ Before(p, q)}) > MaxQueue

(* When the handler returns, every packet that waits waits for a gap: none *)
(* is expected, none is overdue, and there is room for another.            *)
WaitsOnlyForGap == pc = "idle" =>
  /\ ~Full
  /\ \A p \in misorder_que : Before(expected, p)
=============================================================================
