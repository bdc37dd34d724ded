---------------------------- MODULE PacketStats ----------------------------
(***************************************************************************)
(* InnoSummaryPackage (inno_lidar_packet_utils.cpp): what it makes of the  *)
(* numbers in the headers of packets.  Loss, in the deliver stage, is told *)
(* from a 16-bit number per packet: SeqWrap stands for 2^16.  Gaps are     *)
(* told from frames and their parts.                                       *)
(***************************************************************************)
EXTENDS Integers, FiniteSetsExt

CONSTANTS
  SeqWrap,     (* bound: values of sub_seq, 2^16 in the code                 *)
  MaxSeq,      (* bound: packets the lidar sends                             *)
  MaxFrame,    (* bound: frames, the first of them is 1                      *)
  MaxSub       (* bound: the last part of a frame                            *)

CountingAssumption ==
  /\ SeqWrap \in {2 * n : n \in 1..MaxSeq} /\ MaxSeq \in Nat
  /\ MaxFrame \in Nat \ {0} /\ MaxSub \in Nat

VARIABLES
  first,      (* where the numbers of the lidar stand as the stream begins   *)
  came,       (* the packets that came, as the lidar counts them             *)
  stats,      (* the fields of inno_data_packet_receive_stats                *)
  got,        (* the packets of frames that came: <<idx, sub_idx>>           *)
  summary     (* the fields of summary_data_package                          *)

statsVars == <<first, came, stats, got, summary>>

NoStats == [init_seq_num |-> FALSE, highest |-> 0, base |-> 0, total |-> 0,
            last_total |-> 0, last_expect |-> 0]

NoSummary == [current_frame |-> 0, expect_frame |-> 0, expect_sub_frame |-> -1,
              next_new_frame |-> FALSE, frames |-> 0, miss_frame |-> 0, miss_gap |-> 0,
              miss_last_one |-> 0, miss_except_last |-> 0]

CountingInit ==
  /\ first \in 0..(SeqWrap - 1) /\ came = {} /\ stats = NoStats
  /\ got = {} /\ summary = NoSummary

-----------------------------------------------------------------------------
(* A less-than on the numbers of the protocol.                             *)
is_newer_packet(pre_seq, seq) ==
  LET diff == seq - pre_seq
  IN  \/ diff > 0 /\ diff < SeqWrap \div 2
      \/ diff < 0 /\ diff < -(SeqWrap \div 2)

(* The difference as the code compares it: without a sign for a newer      *)
(* packet, with one for an older.                                          *)
WrappedForward(diff)  == diff < 0 \/ diff >= SeqWrap \div 2
WrappedBackward(diff) == diff >= SeqWrap \div 2

CycleOf(s, sub_seq) ==
  LET cycle == s.highest - (s.highest % SeqWrap)
      diff  == sub_seq - (s.highest % SeqWrap)
  IN  IF is_newer_packet(s.highest % SeqWrap, sub_seq)
      THEN IF WrappedForward(diff) THEN cycle + SeqWrap ELSE cycle
      ELSE IF WrappedBackward(diff) THEN cycle - SeqWrap ELSE cycle

Expected(s) == s.highest - s.base + 1

(* print_inno_data_packet_loss_rate: it prints when its interval is over   *)
(* and at least two more packets are expected.                             *)
Printed(s) == [s EXCEPT !.last_total = s.total, !.last_expect = Expected(s)]

Counted(s, sub_seq) ==
  LET s0  == IF s.init_seq_num THEN s
             ELSE [s EXCEPT !.init_seq_num = TRUE, !.highest = SeqWrap + sub_seq,
                            !.base = SeqWrap + sub_seq]
      new == CycleOf(s0, sub_seq) + sub_seq
      s1  == [s0 EXCEPT !.total = @ + 1]
  IN  IF is_newer_packet(s0.highest % SeqWrap, sub_seq)
      THEN [s1 EXCEPT !.highest = IF new > @ THEN new ELSE @]
      ELSE [s1 EXCEPT !.base = IF new < @ THEN new ELSE @]

(* A packet comes, late or early by less than half of the numbers, perhaps *)
(* once more.                                                              *)
inno_data_packet_receive_stats(i) ==
  /\ came # {} => i - Max(came) < SeqWrap \div 2 /\ Max(came) - i < SeqWrap \div 2
  /\ stats.total < MaxSeq + 1
  /\ came' = came \cup {i}
  /\ LET s == Counted(stats, (first + i) % SeqWrap)
     IN  \/ stats' = s
         \/ Expected(s) - s.last_expect > 1 /\ stats' = Printed(s)
  /\ UNCHANGED <<first, got, summary>>

-----------------------------------------------------------------------------
(* A new frame: what is missed of the one before, and frames between.      *)
NewFrame(s, idx) ==
  LET lost_end == ~s.next_new_frame /\ s.expect_frame > 0
      jumped   == s.expect_frame > 0 /\ idx > s.expect_frame
  IN  [s EXCEPT !.miss_last_one = IF lost_end THEN @ + 1 ELSE @,
                !.miss_gap = IF lost_end THEN @ + 1 ELSE @,
                !.miss_frame = IF jumped THEN @ + idx - s.expect_frame ELSE @,
                !.current_frame = idx, !.expect_frame = idx + 1,
                !.frames = @ + 1, !.next_new_frame = FALSE]

(* Is nothing told yet of this packet?  Only then its part is checked.     *)
Tells(s, idx) ==
  s.current_frame = idx \/ s.expect_frame = 0 \/ (s.next_new_frame /\ idx <= s.expect_frame)

Summed(s, idx, sub_idx, is_last) ==
  LET s1   == IF s.current_frame # idx THEN NewFrame(s, idx) ELSE s
      gap  == s1.expect_sub_frame # sub_idx /\ Tells(s, idx) /\ s1.expect_sub_frame > 0
      s2   == [s1 EXCEPT !.miss_gap = IF gap THEN @ + 1 ELSE @,
                         !.miss_except_last =
                            IF gap /\ sub_idx > s1.expect_sub_frame
                            THEN @ + sub_idx - s1.expect_sub_frame ELSE @]
  IN  [s2 EXCEPT !.expect_sub_frame = IF is_last THEN 0 ELSE sub_idx + 1,
                 !.next_new_frame = @ \/ is_last]

After(p, q) == p[1] > q[1] \/ (p[1] = q[1] /\ p[2] > q[2])

(* Packets come in order; some do not come.                                *)
summary_data_package(p) ==
  /\ \A q \in got : After(p, q)
  /\ got' = got \cup {p}
  /\ summary' = Summed(summary, p[1], p[2], p[2] = MaxSub)
  /\ UNCHANGED <<first, came, stats>>

(* One instance is given one stream: its counters of loss and of gaps do   *)
(* not depend on each other, so each is followed by itself.                *)
CountingNext ==
  \/ got = {} /\ \E i \in 0..MaxSeq : inno_data_packet_receive_stats(i)
  \/ came = {} /\ \E p \in (1..MaxFrame) \X (0..MaxSub) : summary_data_package(p)

CountingSpec == CountingInit /\ [][CountingNext]_statsVars

-----------------------------------------------------------------------------
(* The packets that are expected are those from the first to the last that *)
(* came, however the numbers wrap around and in whatever order packets     *)
(* come; what came in an interval is not counted in another.               *)
ExpectedIsTrue ==
  came # {} => /\ Expected(stats) = Max(came) - Min(came) + 1
               /\ stats.total >= Cardinality(came)
               /\ stats.last_total <= stats.total /\ stats.last_expect <= Expected(stats)

FramesCame == {p[1] : p \in got}
Parts(f) == {p[2] : p \in {q \in got : q[1] = f}}

(* What is missed: frames between two that came, the end of a frame that   *)
(* another one follows, and parts between two of the same frame.           *)
Inside(S, x) == (\E a \in S : a < x) /\ (\E b \in S : x < b)
MissedFrames == {f \in 1..MaxFrame : f \notin FramesCame /\ Inside(FramesCame, f)}
MissedEnds == {f \in FramesCame : MaxSub \notin Parts(f) /\ \E g \in FramesCame : f < g}
MissedParts ==
  {p \in FramesCame \X (0..MaxSub) : p[2] \notin Parts(p[1]) /\ Inside(Parts(p[1]), p[2])}

(* Frames that are missed, ends of frames that are missed and parts that   *)
(* are missed between others are counted once each.  Parts that are missed *)
(* before the first one that came of a frame are counted nowhere, and a    *)
(* stream that begins with frame 0 is not counted right: 0 also says that  *)
(* nothing came yet.                                                       *)
GapsAreTrue ==
  /\ summary.frames = Cardinality(FramesCame)
  /\ summary.miss_frame = Cardinality(MissedFrames)
  /\ summary.miss_last_one = Cardinality(MissedEnds)
  /\ summary.miss_except_last = Cardinality(MissedParts)
=============================================================================
