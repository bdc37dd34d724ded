--------------------------- MODULE RecorderProofs ---------------------------
(***************************************************************************)
(* The recorder of inno_pc packets, for any size of its queue, number of   *)
(* packets and of starts and stops: it keeps the order of the packets,     *)
(* loses no buffer, and leaves none behind when the read stage is deleted. *)
(* And the way back: the datagrams that are put together from a capture,   *)
(* for any of them and any cache (PcapInput); what is counted of packets   *)
(* that come and that do not (PacketStats); the frames of the old format   *)
(* that are put together from packets (FrameConverter); and the bag their  *)
(* points are written to (Rosbag).                                         *)
(***************************************************************************)
EXTENDS Recorder, PcapInput, PacketStats, FrameConverter, Rosbag, SequenceTheorems, FiniteSetTheorems, TLAPS

(* Sequences of packets.                                                   *)
Ascends(s)  == \A i, j \in 1 .. Len(s) : i < j => s[i] < s[j]
UpTo(s, n)  == \A i \in 1 .. Len(s) : s[i] <= n
Under(s, n) == \A i \in 1 .. Len(s) : s[i] < n

(* What was recorded, what is in the callback and what waits follow each   *)
(* other, up to the packet read last.                                      *)
InARow(done, held, queue, last) ==
  /\ Ascends(done) /\ Ascends(queue) /\ UpTo(done, last) /\ UpTo(queue, last) /\ held <= last
  /\ \A i \in 1 .. Len(queue) : Under(done, queue[i]) /\ held < queue[i]
  /\ held # 0 => Under(done, held)

Follows == InARow(recorded, dequeued, recorder_queue_, sent)

(* While no thread runs and none is about to be started nothing waits: a   *)
(* thread that was told to stop drains the queue, and what is queued after *)
(* that makes the reading thread start another one before it can stop.     *)
Unattended ==
  /\ dequeued # 0 <=> recorder = "callback"
  /\ life # "running" => reading = "input"
  /\ ~terminated /\ recorder \in {"none", "drain", "done"} => ~recorder_thread_runing_
  /\ ~terminated /\ recorder \in {"none", "done"} /\ reading = "input" => recorder_queue_ = <<>>
  /\ life = "deleted" => recorder = "none" /\ ~terminated

(* A buffer is lent for what waits and for what is in the callback.        *)
LentIsCounted ==
  /\ Len(recorder_queue_) <= kRecorderQueueMaxLen
  /\ lent = (IF dequeued = 0 THEN 0 ELSE 1) + Len(recorder_queue_)

RecorderInv == TypeOK /\ Follows /\ Unattended /\ LentIsCounted

Quiet == UNCHANGED <<sent, recorder_queue_, dequeued, recorded>>

LEMMA Appended ==
  ASSUME NEW S, NEW s \in Seq(S), NEW x \in S
  PROVE  /\ Append(s, x) \in Seq(S) /\ Len(Append(s, x)) = Len(s) + 1 /\ Len(s) \in Nat
         /\ Append(s, x)[Len(s) + 1] = x /\ \A i \in 1..Len(s) : Append(s, x)[i] = s[i]
  BY AppendProperties, LenProperties

(* What append, head and tail do to a sequence of packets.                 *)
LEMMA QueueIs ==
  ASSUME NEW n \in Nat, NEW s \in Seq(1..n)
  PROVE  /\ Len(s) \in Nat /\ DOMAIN s = 1 .. Len(s) /\ \A i \in 1 .. Len(s) : s[i] \in 1..n
         /\ \A x \in 1..n : /\ Append(s, x) \in Seq(1..n) /\ Len(Append(s, x)) = Len(s) + 1
                            /\ \A i \in 1 .. Len(s) : Append(s, x)[i] = s[i]
                            /\ Append(s, x)[Len(s) + 1] = x
         /\ s # <<>> => /\ Len(s) > 0 /\ Head(s) = s[1] /\ Tail(s) \in Seq(1..n)
                        /\ Len(Tail(s)) = Len(s) - 1
                        /\ \A i \in 1 .. (Len(s) - 1) : Tail(s)[i] = s[i + 1]
  <1>1. Len(s) \in Nat /\ DOMAIN s = 1 .. Len(s) /\ \A i \in 1 .. Len(s) : s[i] \in 1..n
    BY ElementOfSeq
  <1>2. ASSUME NEW x \in 1..n
        PROVE  /\ Append(s, x) \in Seq(1..n) /\ Len(Append(s, x)) = Len(s) + 1
               /\ \A i \in 1 .. Len(s) : Append(s, x)[i] = s[i]
               /\ Append(s, x)[Len(s) + 1] = x
    BY AppendProperties
  <1>3. ASSUME s # <<>>
        PROVE  /\ Len(s) > 0 /\ Head(s) = s[1] /\ Tail(s) \in Seq(1..n)
               /\ Len(Tail(s)) = Len(s) - 1
               /\ \A i \in 1 .. (Len(s) - 1) : Tail(s)[i] = s[i + 1]
    BY <1>1, <1>3, HeadTailProperties, EmptySeq
  <1> QED BY <1>1, <1>2, <1>3

(* A packet that is read comes last, whether it is queued or not.          *)
LEMMA RowAfterRead ==
  ASSUME NEW d, NEW h \in Nat, NEW q, NEW last \in Nat, InARow(d, h, q, last),
         Len(d) \in Nat, \A i \in 1 .. Len(d) : d[i] \in Nat,
         Len(q) \in Nat, \A i \in 1 .. Len(q) : q[i] \in Nat
  PROVE  /\ InARow(d, h, q, last + 1)
         /\ \A p : /\ Len(p) = Len(q) + 1 /\ p[Len(q) + 1] = last + 1
                   /\ \A i \in 1 .. Len(q) : p[i] = q[i]
                   => InARow(d, h, p, last + 1)
  <1>1. InARow(d, h, q, last + 1)
    BY DEF InARow, Ascends, UpTo, Under
  <1>2. ASSUME NEW p, Len(p) = Len(q) + 1, p[Len(q) + 1] = last + 1,
               \A i \in 1 .. Len(q) : p[i] = q[i]
        PROVE  InARow(d, h, p, last + 1)
    <2>1. \A i \in 1 .. Len(p) : i \in 1 .. Len(q) \/ i = Len(q) + 1
      BY <1>2
    <2>2. UpTo(p, last + 1)
      <3> SUFFICES ASSUME NEW i \in 1 .. Len(p) PROVE p[i] <= last + 1
        BY Zenon DEF UpTo
      <3>1. CASE i \in 1 .. Len(q)
        <4>1. p[i] = q[i] /\ q[i] <= last /\ q[i] \in Nat
          BY <1>2, <3>1, Zenon DEF InARow, UpTo
        <4> QED BY <4>1
      <3>2. CASE i = Len(q) + 1
        BY <1>2, <3>2
      <3> QED BY <2>1, <3>1, <3>2
    <2>3. Ascends(p)
      <3> SUFFICES ASSUME NEW i \in 1 .. Len(p), NEW j \in 1 .. Len(p), i < j PROVE p[i] < p[j]
        BY DEF Ascends
      <3>1. i \in 1 .. Len(q) /\ p[i] = q[i] /\ q[i] <= last /\ q[i] \in Nat
        BY <1>2 DEF InARow, UpTo
      <3>2. CASE j = Len(q) + 1
        BY <1>2, <3>1, <3>2
      <3>3. CASE j \in 1 .. Len(q)
        BY <1>2, <3>1, <3>3 DEF InARow, Ascends
      <3> QED BY <2>1, <3>2, <3>3
    <2>4. \A i \in 1 .. Len(p) : Under(d, p[i]) /\ h < p[i]
      <3>1. \A i \in 1 .. Len(q) : Under(d, p[i]) /\ h < p[i]
        BY <1>2 DEF InARow
      <3>2. Under(d, last + 1) /\ h < last + 1
        BY DEF InARow, UpTo, Under
      <3> QED BY <1>2, <2>1, <3>1, <3>2
    <2> QED BY <1>1, <2>2, <2>3, <2>4 DEF InARow
  <1> QED BY <1>1, <1>2

(* The first that waits goes between what was recorded and the rest.       *)
LEMMA RowAfterDequeue ==
  ASSUME NEW d, NEW q, NEW last \in Nat, InARow(d, 0, q, last),
         Len(q) \in Nat, Len(q) > 0, \A i \in 1 .. Len(q) : q[i] \in Nat,
         NEW p, Len(p) = Len(q) - 1, \A i \in 1 .. (Len(q) - 1) : p[i] = q[i + 1]
  PROVE  InARow(d, q[1], p, last)
  <1>1. 1 \in 1 .. Len(q) /\ \A i \in 1 .. Len(p) : i + 1 \in 1 .. Len(q) /\ p[i] = q[i + 1]
    OBVIOUS
  <1>2. UpTo(p, last) /\ \A i \in 1 .. Len(p) : Under(d, p[i])
    BY <1>1 DEF InARow, UpTo
  <1>3. Ascends(p)
    <2> SUFFICES ASSUME NEW i \in 1 .. Len(p), NEW j \in 1 .. Len(p), i < j PROVE p[i] < p[j]
      BY DEF Ascends
    <2>1. i + 1 \in 1 .. Len(q) /\ j + 1 \in 1 .. Len(q) /\ i + 1 < j + 1
      BY <1>1
    <2>2. q[i + 1] < q[j + 1]
      BY <2>1 DEF InARow, Ascends
    <2> QED BY <1>1, <2>2
  <1>5. \A i \in 1 .. Len(p) : q[1] < p[i]
    <2> SUFFICES ASSUME NEW i \in 1 .. Len(p) PROVE q[1] < p[i]
      OBVIOUS
    <2>1. i + 1 \in 1 .. Len(q) /\ 1 < i + 1
      BY <1>1
    <2>2. q[1] < q[i + 1]
      BY <1>1, <2>1 DEF InARow, Ascends
    <2> QED BY <1>1, <2>2
  <1>4. q[1] <= last /\ Under(d, q[1])
    BY <1>1 DEF InARow, UpTo, Under
  <1> QED BY <1>2, <1>3, <1>4, <1>5 DEF InARow

(* What leaves the callback is behind what was recorded, or left out.      *)
LEMMA RowAfterRecord ==
  ASSUME NEW d, NEW h \in Nat \ {0}, NEW q, NEW last \in Nat, InARow(d, h, q, last),
         Len(d) \in Nat, \A i \in 1 .. Len(d) : d[i] \in Nat,
         Len(q) \in Nat, \A i \in 1 .. Len(q) : q[i] \in Nat
  PROVE  /\ InARow(d, 0, q, last)
         /\ \A p : /\ Len(p) = Len(d) + 1 /\ p[Len(d) + 1] = h
                   /\ \A i \in 1 .. Len(d) : p[i] = d[i]
                   => InARow(p, 0, q, last)
  <1>1. InARow(d, 0, q, last)
    BY DEF InARow
  <1>2. ASSUME NEW p, Len(p) = Len(d) + 1, p[Len(d) + 1] = h, \A i \in 1 .. Len(d) : p[i] = d[i]
        PROVE  InARow(p, 0, q, last)
    <2>1. \A i \in 1 .. Len(p) : i \in 1 .. Len(d) \/ i = Len(d) + 1
      BY <1>2
    <2>2. Ascends(p)
      <3> SUFFICES ASSUME NEW i \in 1 .. Len(p), NEW j \in 1 .. Len(p), i < j PROVE p[i] < p[j]
        BY Zenon DEF Ascends
      <3>1. i \in 1 .. Len(d) /\ p[i] = d[i]
        BY <1>2
      <3>2. CASE j = Len(d) + 1
        <4>1. h # 0 /\ p[j] = h
          BY <1>2, <3>2
        <4>2. d[i] < h
          BY <3>1, <4>1, Zenon DEF InARow, Under
        <4> QED BY <3>1, <4>1, <4>2, Zenon
      <3>3. CASE j \in 1 .. Len(d)
        <4>1. p[j] = d[j] /\ d[i] < d[j]
          BY <1>2, <3>1, <3>3, Zenon DEF InARow, Ascends
        <4> QED BY <3>1, <4>1, Zenon
      <3> QED BY <2>1, <3>2, <3>3
    <2>3. UpTo(p, last)
      <3>1. p[Len(d) + 1] <= last
        BY <1>2, Zenon DEF InARow
      <3>2. \A i \in 1 .. Len(d) : p[i] <= last
        BY <1>2, Zenon DEF InARow, UpTo
      <3> QED BY <2>1, <3>1, <3>2, Zenon DEF UpTo
    <2>4. \A i \in 1 .. Len(q) : Under(p, q[i])
      BY <1>2, <2>1 DEF InARow, UpTo, Under
    <2> QED BY <1>1, <2>2, <2>3, <2>4 DEF InARow
  <1> QED BY <1>1, <1>2

(* The items of two sequences, one behind the other.                       *)
LEMMA JoinIs ==
  ASSUME NEW S, NEW a \in Seq(S), NEW b \in Seq(S)
  PROVE  /\ Len(a \o b) = Len(a) + Len(b) /\ DOMAIN (a \o b) = 1 .. (Len(a) + Len(b))
         /\ \A i \in 1 .. Len(a) : (a \o b)[i] = a[i]
         /\ \A i \in 1 .. Len(b) : (a \o b)[Len(a) + i] = b[i]
  <1>1. Len(a) \in Nat /\ Len(b) \in Nat
    OBVIOUS
  <1>2. /\ Len(a \o b) = Len(a) + Len(b)
        /\ \A i \in 1 .. (Len(a) + Len(b)) :
             (a \o b)[i] = IF i <= Len(a) THEN a[i] ELSE b[i - Len(a)]
    BY ConcatProperties
  <1>3. DOMAIN (a \o b) = 1 .. Len(a \o b)
    OBVIOUS
  <1>4. \A i \in 1 .. Len(a) : i \in 1 .. (Len(a) + Len(b)) /\ i <= Len(a)
    BY <1>1
  <1>5. \A i \in 1 .. Len(b) : /\ Len(a) + i \in 1 .. (Len(a) + Len(b)) /\ ~(Len(a) + i <= Len(a))
                               /\ (Len(a) + i) - Len(a) = i
    BY <1>1
  <1> QED BY <1>2, <1>3, <1>4, <1>5

(* One row behind another that it follows is a row.                        *)
LEMMA JoinAscends ==
  ASSUME NEW S, NEW a \in Seq(S), NEW b \in Seq(S)
  PROVE  /\ a \o b \in Seq(S)
         /\ Ascends(a) /\ Ascends(b) /\ (\A i \in 1 .. Len(b) : Under(a, b[i])) => Ascends(a \o b)
         /\ \A n : Under(a, n) /\ Under(b, n) => Under(a \o b, n)
  <1> DEFINE c == a \o b  l == Len(a)  m == Len(b)
  <1>1. /\ l \in Nat /\ m \in Nat /\ c \in Seq(S) /\ Len(c) = l + m
        /\ \A i \in 1..l : c[i] = a[i]
        /\ \A i \in 1..m : c[l + i] = b[i]
    BY JoinIs, ConcatProperties
  <1> HIDE DEF c, l, m
  <1>2. \A i \in 1 .. (l + m) : i \in 1..l \/ (i - l \in 1..m /\ i = l + (i - l))
    BY <1>1
  <1>3. \A i \in 1 .. Len(c) : i \in 1..l \/ \E k \in 1..m : i = l + k
    BY <1>1, <1>2
  <1>4. ASSUME NEW n, Under(a, n), Under(b, n) PROVE Under(c, n)
    BY <1>1, <1>3, <1>4 DEF Under, l, m
  <1>5. ASSUME Ascends(a), Ascends(b), \A i \in 1 .. Len(b) : Under(a, b[i])
        PROVE  Ascends(c)
    <2> SUFFICES ASSUME NEW i \in 1 .. Len(c), NEW j \in 1 .. Len(c), i < j PROVE c[i] < c[j]
      BY DEF Ascends
    <2>1. CASE i \in 1..l /\ j \in 1..l
      BY <1>1, <1>5, <2>1 DEF Ascends, l
    <2>2. CASE i \in 1..l /\ \E k \in 1..m : j = l + k
      BY <1>1, <1>5, <2>2 DEF Under, l, m
    <2>3. CASE (\E k \in 1..m : i = l + k) /\ \E k \in 1..m : j = l + k
      <3>1. PICK k \in 1..m, n \in 1..m : i = l + k /\ j = l + n
        BY <2>3
      <3>2. k < n
        BY <1>1, <3>1
      <3> QED BY <1>1, <1>5, <3>1, <3>2 DEF Ascends, m
    <2>4. CASE (\E k \in 1..m : i = l + k) /\ j \in 1..l
      BY <1>1, <2>4
    <2> QED BY <1>3, <2>1, <2>2, <2>3, <2>4
  <1> QED BY <1>1, <1>4, <1>5 DEF c

(* Every step of the reading thread, the recorder and those that stop,     *)
(* restart and delete the read stage.                                      *)
LEMMA RecorderStep ==
  ASSUME ConstantAssumption, RecorderInv, Next
  PROVE  RecorderInv'
  <1>1. TypeOK /\ Follows /\ Unattended /\ LentIsCounted
    BY DEF RecorderInv
  <1>2. /\ kRecorderQueueMaxLen \in Nat \ {0} /\ MaxPackets \in Nat \ {0} /\ MaxStarts \in Nat
    BY DEF ConstantAssumption
  <1>3. /\ Len(recorder_queue_) \in Nat /\ Len(recorded) \in Nat
        /\ \A i \in 1 .. Len(recorder_queue_) : recorder_queue_[i] \in 1..MaxPackets
        /\ \A i \in 1 .. Len(recorded) : recorded[i] \in 1..MaxPackets
        /\ sent \in Nat /\ dequeued \in Nat
    BY <1>1, <1>2, QueueIs DEF TypeOK
  <1>4. ASSUME Quiet PROVE Follows'
    BY <1>1, <1>4 DEF Quiet, Follows
  <1>20. /\ \A i \in 1 .. Len(recorder_queue_) : recorder_queue_[i] \in Nat
         /\ \A i \in 1 .. Len(recorded) : recorded[i] \in Nat
    <2>1. \A k \in 1..MaxPackets : k \in Nat
      BY <1>2
    <2> QED BY <1>3, <2>1, Zenon
  <1>5. CASE ReadUnrecorded
    <2> USE <1>5 DEF ReadUnrecorded, readVars, recorderVars
    <2>1. TypeOK' /\ Unattended' /\ LentIsCounted'
      BY <1>1, <1>2 DEF TypeOK, Unattended, LentIsCounted
    <2>2. Follows'
      <3>1. InARow(recorded, dequeued, recorder_queue_, sent + 1)
        BY <1>1, <1>3, <1>20, RowAfterRead, Zenon DEF Follows
      <3>2. sent' = sent + 1 /\ UNCHANGED <<recorded, dequeued, recorder_queue_>>
        OBVIOUS
      <3> QED BY <3>1, <3>2, Zenon DEF Follows
    <2> QED BY <2>1, <2>2 DEF RecorderInv
  <1>6. CASE Enqueue
    <2> USE <1>6 DEF Enqueue, readVars, recorderVars
    <2>1. CASE IsFull
      <3>1. TypeOK' /\ LentIsCounted'
        BY <1>1, <1>2, <2>1 DEF TypeOK, LentIsCounted
      <3>2. Unattended'
        BY <1>1, <2>1 DEF Unattended
      <3>3. Follows'
        BY <1>1, <1>3, <2>1, RowAfterRead DEF Follows
      <3> QED BY <3>1, <3>2, <3>3 DEF RecorderInv
    <2>2. CASE ~IsFull
      <3>1. sent + 1 \in 1..MaxPackets
        BY <1>1, <1>2, <1>3 DEF TypeOK
      <3>2. /\ recorder_queue_' \in Seq(1..MaxPackets)
            /\ Len(recorder_queue_') = Len(recorder_queue_) + 1
            /\ \A i \in 1 .. Len(recorder_queue_) : recorder_queue_'[i] = recorder_queue_[i]
            /\ recorder_queue_'[Len(recorder_queue_) + 1] = sent + 1
        <4>1. recorder_queue_ \in Seq(1..MaxPackets) /\ MaxPackets \in Nat
          BY <1>1, <1>2 DEF TypeOK
        <4>2. recorder_queue_' = Append(recorder_queue_, sent + 1)
          BY <2>2
        <4> QED BY <3>1, <4>1, <4>2, QueueIs, Zenon
      <3>3. TypeOK'
        BY <1>1, <1>2, <2>2, <3>1, <3>2 DEF TypeOK
      <3>4. LentIsCounted'
        BY <1>1, <1>2, <1>3, <2>2, <3>2 DEF LentIsCounted, IsFull
      <3>5. Unattended'
        BY <1>1, <2>2 DEF Unattended
      <3>6. Follows'
        <4>1. InARow(recorded, dequeued, recorder_queue_', sent + 1)
          <5>1. InARow(recorded, dequeued, recorder_queue_, sent)
            BY <1>1 DEF Follows
          <5>2. /\ \A i \in 1 .. Len(recorder_queue_) : recorder_queue_[i] \in Nat
                /\ \A i \in 1 .. Len(recorded) : recorded[i] \in Nat
            BY <1>3
          <5> QED BY <1>3, <3>2, <5>1, <5>2, RowAfterRead, Zenon
        <4> QED BY <2>2, <4>1 DEF Follows
      <3> QED BY <3>3, <3>4, <3>5, <3>6 DEF RecorderInv
    <2> QED BY <2>1, <2>2
  <1>7. CASE Notify
    <2> USE <1>7 DEF Notify, readVars, recorderVars
    <2>1. Follows'
      BY <1>4 DEF Quiet
    <2>2. TypeOK' /\ LentIsCounted'
      BY <1>1 DEF TypeOK, LentIsCounted, Notified
    <2>3. Unattended'
      BY <1>1 DEF Unattended, Notified
    <2> QED BY <2>1, <2>2, <2>3 DEF RecorderInv
  <1>8. CASE StartRecorder /\ ~terminated
    <2> USE <1>8 DEF StartRecorder, readVars, recorderVars
    <2>1. Follows'
      BY <1>4 DEF Quiet
    <2>2. TypeOK' /\ LentIsCounted'
      BY <1>1 DEF TypeOK, LentIsCounted, Joinable
    <2>3. Unattended'
      BY <1>1 DEF Unattended, Joinable, TypeOK
    <2> QED BY <2>1, <2>2, <2>3 DEF RecorderInv
  <1>9. CASE TestRunning \/ Wait \/ WakesUp
    <2> USE <1>9 DEF TestRunning, Wait, WakesUp, readVars, recorderVars
    <2>1. Follows'
      BY <1>4 DEF Quiet
    <2>2. TypeOK' /\ LentIsCounted'
      BY <1>1 DEF TypeOK, LentIsCounted
    <2>3. Unattended'
      BY <1>1 DEF Unattended
    <2> QED BY <2>1, <2>2, <2>3 DEF RecorderInv
  <1>10. CASE Dequeue
    <2> USE <1>10 DEF Dequeue, readVars, recorderVars
    <2>1. dequeued = 0
      BY <1>1 DEF Unattended
    <2>2. CASE recorder_queue_ = <<>>
      <3>1. Follows'
        BY <1>4, <2>2 DEF Quiet
      <3>2. TypeOK' /\ LentIsCounted'
        BY <1>1, <2>2 DEF TypeOK, LentIsCounted
      <3>3. Unattended'
        BY <1>1, <2>2 DEF Unattended
      <3> QED BY <3>1, <3>2, <3>3 DEF RecorderInv
    <2>3. CASE recorder_queue_ # <<>>
      <3>1. /\ Len(recorder_queue_) > 0 /\ dequeued' = recorder_queue_[1]
            /\ recorder_queue_' \in Seq(1..MaxPackets)
            /\ Len(recorder_queue_') = Len(recorder_queue_) - 1
            /\ \A i \in 1 .. (Len(recorder_queue_) - 1) : recorder_queue_'[i] = recorder_queue_[i + 1]
        <4>1. recorder_queue_ \in Seq(1..MaxPackets) /\ MaxPackets \in Nat
          BY <1>1, <1>2 DEF TypeOK
        <4>2. recorder_queue_' = Tail(recorder_queue_) /\ dequeued' = Head(recorder_queue_)
          BY <2>3
        <4> QED BY <2>3, <4>1, <4>2, QueueIs, Zenon
      <3>2. dequeued' \in 1..MaxPackets
        BY <1>3, <3>1
      <3>3. TypeOK'
        BY <1>1, <1>2, <2>3, <3>1, <3>2 DEF TypeOK
      <3>4. LentIsCounted'
        BY <1>1, <1>2, <1>3, <2>1, <3>1, <3>2 DEF LentIsCounted
      <3>5. Unattended'
        BY <1>1, <2>3, <3>2 DEF Unattended
      <3>6. Follows'
        <4>1. InARow(recorded, 0, recorder_queue_, sent)
          BY <1>1, <2>1 DEF Follows
        <4>2. InARow(recorded, recorder_queue_[1], recorder_queue_', sent)
          <5>1. \A i \in 1 .. Len(recorder_queue_) : recorder_queue_[i] \in Nat
            BY <1>3
          <5> QED BY <1>3, <3>1, <4>1, <5>1, RowAfterDequeue, Zenon
        <4> QED BY <2>3, <3>1, <4>2 DEF Follows
      <3> QED BY <3>3, <3>4, <3>5, <3>6 DEF RecorderInv
    <2> QED BY <2>2, <2>3
  <1>11. CASE Record
    <2> USE <1>11 DEF Record, readVars, recorderVars
    <2>1. dequeued # 0 /\ dequeued \in 1..MaxPackets /\ lent \in Nat /\ lent > 0
      BY <1>1, <1>2, <1>3 DEF TypeOK, Unattended, LentIsCounted
    <2>2. LentIsCounted'
      BY <1>1, <1>3, <2>1 DEF LentIsCounted, FreeDequeued
    <2>3. Unattended'
      BY <1>1 DEF Unattended
    <2>4. CASE callback
      <3>1. /\ recorded' \in Seq(1..MaxPackets) /\ Len(recorded') = Len(recorded) + 1
            /\ \A i \in 1 .. Len(recorded) : recorded'[i] = recorded[i]
            /\ recorded'[Len(recorded) + 1] = dequeued
        <4>1. recorded \in Seq(1..MaxPackets) /\ MaxPackets \in Nat
          BY <1>1, <1>2 DEF TypeOK
        <4>2. recorded' = Append(recorded, dequeued)
          BY <2>4
        <4> DEFINE S == 1..MaxPackets  p == Append(recorded, dequeued)
        <4>3. dequeued \in S
          BY <2>1, Zenon
        <4> HIDE DEF S
        <4>4. p \in Seq(S) /\ Len(p) = Len(recorded) + 1 /\ p[Len(recorded) + 1] = dequeued
              /\ \A i \in 1 .. Len(recorded) : p[i] = recorded[i]
          <5>1. recorded \in Seq(S)
            BY <4>1, Zenon DEF S
          <5>2. /\ Append(recorded, dequeued) \in Seq(S)
                /\ Len(Append(recorded, dequeued)) = Len(recorded) + 1
                /\ Append(recorded, dequeued)[Len(recorded) + 1] = dequeued
                /\ \A i \in 1 .. Len(recorded) : Append(recorded, dequeued)[i] = recorded[i]
            BY <4>3, <5>1, Appended
          <5> QED BY <5>2, Zenon
        <4> QED BY <4>2, <4>4, Zenon DEF S
      <3>2. TypeOK'
        BY <1>1, <1>2, <2>1, <2>4, <3>1 DEF TypeOK, FreeDequeued
      <3>3. Follows'
        <4>1. dequeued \in Nat \ {0}
          BY <1>3, <2>1, Zenon
        <4>2. InARow(recorded', 0, recorder_queue_, sent)
          BY <1>1, <1>3, <1>20, <3>1, <4>1, RowAfterRecord, Zenon DEF Follows
        <4>3. dequeued' = 0 /\ UNCHANGED <<recorder_queue_, sent>>
          OBVIOUS
        <4> QED BY <4>2, <4>3, Zenon DEF Follows
      <3> QED BY <2>2, <2>3, <3>2, <3>3 DEF RecorderInv
    <2>5. CASE ~callback
      <3>1. TypeOK'
        BY <1>1, <1>2, <2>1, <2>5 DEF TypeOK, FreeDequeued
      <3>2. Follows'
        <4>1. dequeued \in Nat \ {0}
          BY <1>3, <2>1, Zenon
        <4>2. InARow(recorded, 0, recorder_queue_, sent)
          BY <1>1, <1>3, <1>20, <4>1, RowAfterRecord, Zenon DEF Follows
        <4>3. dequeued' = 0 /\ UNCHANGED <<recorded, recorder_queue_, sent>>
          BY <2>5
        <4> QED BY <4>2, <4>3, Zenon DEF Follows
      <3> QED BY <2>2, <2>3, <3>1, <3>2 DEF RecorderInv
    <2> QED BY <2>4, <2>5
  <1>12. CASE Drain
    <2> USE <1>12 DEF Drain, readVars, recorderVars
    <2>1. dequeued = 0 /\ lent - Len(recorder_queue_) = 0
      BY <1>1, <1>3 DEF Unattended, LentIsCounted
    <2>2. recorder_queue_' = <<>> /\ Len(recorder_queue_') = 0 /\ <<>> \in Seq(1..MaxPackets)
      BY EmptySeq
    <2>3. TypeOK' /\ LentIsCounted'
      BY <1>1, <1>2, <2>1, <2>2 DEF TypeOK, LentIsCounted
    <2>4. Unattended'
      BY <1>1 DEF Unattended
    <2>5. Follows'
      BY <1>1, <1>3, <2>2 DEF Follows, InARow, Ascends, UpTo, Under
    <2> QED BY <2>3, <2>4, <2>5 DEF RecorderInv
  <1>13. CASE Stop \/ Restart \/ Delete
    <2> USE <1>13 DEF Stop, Restart, Delete, readVars, recorderVars
    <2>1. Follows'
      BY <1>4 DEF Quiet
    <2>2. LentIsCounted'
      BY <1>1 DEF LentIsCounted
    <2>4. Notified \in {"none", "loop", "test", "empty", "waits", "callback", "drain", "done"}
      BY <1>1 DEF TypeOK, Notified
    <2>5. starts' \in 1..MaxStarts
      BY <1>1, <1>2 DEF TypeOK
    <2>6. TypeOK'
      BY <1>1, <2>4, <2>5 DEF TypeOK, NotifiedByDestructor
    <2>3. Unattended'
      BY <1>1 DEF Unattended, Notified, NotifiedByDestructor
    <2> QED BY <2>1, <2>2, <2>3, <2>6 DEF RecorderInv
  <1>14. CASE Join /\ ~terminated
    <2> USE <1>14 DEF Join, readVars, recorderVars
    <2>1. Follows'
      BY <1>4 DEF Quiet
    <2>2. TypeOK' /\ LentIsCounted'
      BY <1>1, <1>2 DEF TypeOK, LentIsCounted
    <2>3. Unattended'
      BY <1>1 DEF Unattended
    <2> QED BY <2>1, <2>2, <2>3 DEF RecorderInv
  <1>15. CASE Ended
    BY <1>1, <1>4, <1>15 DEF Ended, vars, readVars, recorderVars, RecorderInv, TypeOK, Unattended,
                            LentIsCounted, Quiet
  <1> QED BY <1>5, <1>6, <1>7, <1>8, <1>9, <1>10, <1>11, <1>12, <1>13, <1>14, <1>15
          DEF Next, Reader, Recorder

(* The invariant is what the property says, of the three parts of the row  *)
(* put together.                                                           *)
LEMMA RecorderSafe ==
  ASSUME ConstantAssumption, RecorderInv
  PROVE  BuffersReturn
  <1> DEFINE ahead == recorded \o Held \o recorder_queue_
  <1>1. /\ TypeOK /\ Follows /\ Unattended /\ LentIsCounted /\ MaxPackets \in Nat
    BY DEF RecorderInv, ConstantAssumption
  <1>2. /\ recorded \in Seq(1..MaxPackets) /\ recorder_queue_ \in Seq(1..MaxPackets)
        /\ dequeued \in 0..MaxPackets
    BY <1>1 DEF TypeOK
  <1>3. /\ Len(recorder_queue_) \in Nat /\ Len(recorded) \in Nat
        /\ \A i \in 1 .. Len(recorder_queue_) : recorder_queue_[i] \in 1..MaxPackets
        /\ \A i \in 1 .. Len(recorded) : recorded[i] \in 1..MaxPackets
    BY <1>1, <1>2, QueueIs
  <1>4. /\ Held \in Seq(1..MaxPackets) /\ Len(Held) = IF dequeued = 0 THEN 0 ELSE 1
        /\ dequeued # 0 => Held[1] = dequeued
    <2>1. CASE dequeued = 0
      BY <2>1, EmptySeq DEF Held
    <2>2. CASE dequeued # 0
      BY <1>1, <1>2, <2>2 DEF Held
    <2> QED BY <2>1, <2>2
  <1>5. \A i, j \in DOMAIN ahead : i < j => ahead[i] < ahead[j]
    <2>1. /\ Ascends(recorded) /\ Ascends(recorder_queue_)
          /\ \A n \in 1 .. Len(recorder_queue_) :
               Under(recorded, recorder_queue_[n]) /\ dequeued < recorder_queue_[n]
          /\ dequeued # 0 => Under(recorded, dequeued)
      BY <1>1 DEF Follows, InARow
    <2>2. \A n \in 1 .. Len(Held) : dequeued # 0 /\ n = 1 /\ Held[n] = dequeued
      BY <1>4
    <2>3. Ascends(Held) /\ \A n \in 1 .. Len(Held) : Under(recorded, Held[n])
      BY <2>1, <2>2 DEF Ascends
    <2>4. \A n \in 1 .. Len(recorder_queue_) : Under(Held, recorder_queue_[n])
      BY <2>1, <2>2 DEF Under
    <2>5. Ascends(recorded \o Held) /\ recorded \o Held \in Seq(1..MaxPackets)
      BY <1>2, <1>4, <2>1, <2>3, JoinAscends
    <2>6. \A n \in 1 .. Len(recorder_queue_) : Under(recorded \o Held, recorder_queue_[n])
      BY <1>2, <1>4, <2>1, <2>4, JoinAscends
    <2>7. Ascends(ahead) /\ ahead \in Seq(1..MaxPackets)
      BY <1>2, <2>1, <2>5, <2>6, JoinAscends
    <2>8. DOMAIN ahead = 1 .. Len(ahead)
      <3> HIDE DEF ahead
      <3> QED BY <2>7
    <2> QED BY <2>7, <2>8 DEF Ascends
  <1>6. lent = Len(Held) + Len(recorder_queue_)
    BY <1>1, <1>4 DEF LentIsCounted
  <1>7. life = "deleted" => lent = 0
    BY <1>1, EmptySeq DEF Unattended, LentIsCounted
  <1> QED BY <1>1, <1>5, <1>6, <1>7 DEF BuffersReturn, LentIsCounted

(* The recorder records packets in order and each once, its queue stays    *)
(* within its array, every buffer lent is that of a packet that waits or   *)
(* is in the callback, and a read stage that is deleted leaves none, for   *)
(* any callback, and any moments of stops and restarts.                    *)
THEOREM RecordingReturnsBuffers ==
  ASSUME ConstantAssumption PROVE Spec => [](TypeOK /\ BuffersReturn)
  <1>1. Init => RecorderInv
    <2> SUFFICES ASSUME Init PROVE RecorderInv
      OBVIOUS
    <2>1. Len(recorder_queue_) = 0 /\ Len(recorded) = 0
      BY EmptySeq DEF Init
    <2>2. TypeOK
      <3>1. <<>> \in Seq(1..MaxPackets) /\ 1 \in 1..MaxStarts /\ 0 \in 0..MaxPackets
        BY EmptySeq DEF ConstantAssumption
      <3> QED BY <3>1 DEF Init, TypeOK
    <2>3. Unattended /\ LentIsCounted
      BY <2>1 DEF Init, Unattended, LentIsCounted, ConstantAssumption
    <2>4. Follows
      BY <2>1 DEF Init, Follows, InARow, Ascends, UpTo, Under
    <2> QED BY <2>2, <2>3, <2>4 DEF RecorderInv
  <1>2. RecorderInv /\ [Next]_vars => RecorderInv'
    <2>1. CASE Next
      BY <2>1, RecorderStep
    <2>2. CASE UNCHANGED vars
      BY <2>2 DEF vars, readVars, recorderVars, RecorderInv, TypeOK, Follows, Unattended, LentIsCounted
    <2> QED BY <2>1, <2>2
  <1>3. RecorderInv => TypeOK /\ BuffersReturn
    BY RecorderSafe DEF RecorderInv
  <1> QED BY <1>1, <1>2, <1>3, PTL DEF Spec

-----------------------------------------------------------------------------
(* The fragments of a capture.  FirstOf are the first k fragments of d.    *)
FirstOf(d, k) == [i \in 1..k |-> [of |-> d, offset |-> i - 1]]

Ours == {d \in Datagrams : d.ours}

Caches == [0..(PCAP_CACHE_LENGTH - 1) -> [id : Nat, buf : Seq(Fragments)]]

(* A place of the cache has the first fragments of one datagram of ours,   *)
(* not all of them.                                                        *)
PlaceSound(c, s) ==
  c[s].buf # <<>> => \E d \in Ours, k \in 1..MaxParts :
    c[s] = [id |-> d.id, buf |-> FirstOf(d, k)] /\ k < d.parts /\ d.id % PCAP_CACHE_LENGTH = s

(* And it has what came last in turn.                                      *)
PlaceKeeps(c, d) ==
  \A k \in 1..(d.parts - 1) : \A at \in [1..k -> DOMAIN captured] :
    InTurn(d, k, at) => c[d.id % PCAP_CACHE_LENGTH] = [id |-> d.id, buf |-> FirstOf(d, k)]

ItsPlaceKeeps(f) ==
  \A d \in Ours : d.parts \in 2..MaxParts /\ AtPlace(f, d) => PlaceKeeps(cache_, d)

PcapInv ==
  /\ cache_ \in Caches /\ captured \in Seq(Fragments) /\ packets \in Seq({AllOf(d) : d \in Ours})
  /\ \A s \in 0..(PCAP_CACHE_LENGTH - 1) : PlaceSound(cache_, s)
  /\ \A d \in Ours : d.parts \in 2..MaxParts => PlaceKeeps(cache_, d)

LastBecomesPacket ==
  captured # <<>> =>
    LET d == captured[Len(captured)].of
    IN  /\ d.ours /\ d.parts \in 2..MaxParts
        /\ \E at \in [1..d.parts -> DOMAIN captured] :
             InTurn(d, d.parts, at) /\ at[d.parts] = Len(captured)
        => packets # <<>> /\ packets[Len(packets)] = AllOf(d)

(* What a fragment is.                                                     *)
LEMMA FragmentIs ==
  ASSUME PcapAssumption, NEW f \in Fragments
  PROVE  /\ f.of \in Datagrams /\ f.of.id \in Nat /\ f.of.parts \in Nat \ {0} /\ f.of.ours \in BOOLEAN
         /\ f.offset \in 0..(f.of.parts - 1) /\ f = [of |-> f.of, offset |-> f.offset]
         /\ Slot(f) \in 0..(PCAP_CACHE_LENGTH - 1) /\ Slot(f) = f.of.id % PCAP_CACHE_LENGTH
  <1>1. PICK d \in Datagrams : f \in {[of |-> d, offset |-> i] : i \in 0..(d.parts - 1)}
    BY DEF Fragments
  <1>2. PICK i \in 0..(d.parts - 1) : f = [of |-> d, offset |-> i]
    BY <1>1
  <1>3. d.id \in Nat /\ d.parts \in Nat \ {0} /\ d.ours \in BOOLEAN /\ PCAP_CACHE_LENGTH \in Nat \ {0}
    BY DEF PcapAssumption
  <1>4. f.of = d /\ f.offset = i
    BY <1>2
  <1>5. Slot(f) = d.id % PCAP_CACHE_LENGTH /\ Slot(f) \in 0..(PCAP_CACHE_LENGTH - 1)
    BY <1>3, <1>4 DEF Slot
  <1> QED BY <1>2, <1>3, <1>4, <1>5

LEMMA FirstOfIs ==
  ASSUME PcapAssumption, NEW d \in Datagrams, NEW k \in 1..d.parts
  PROVE  /\ FirstOf(d, k) \in Seq(Fragments) /\ Len(FirstOf(d, k)) = k /\ FirstOf(d, k) # <<>>
         /\ \A i \in 1..k : FirstOf(d, k)[i] = [of |-> d, offset |-> i - 1]
         /\ DOMAIN FirstOf(d, k) = 1..k
         /\ k = d.parts => FirstOf(d, k) = AllOf(d)
  <1>1. d.parts \in Nat \ {0} /\ k \in Nat \ {0} /\ k <= d.parts
    BY DEF PcapAssumption
  <1>2. \A i \in 1..k : [of |-> d, offset |-> i - 1] \in Fragments
    <2> SUFFICES ASSUME NEW i \in 1..k PROVE [of |-> d, offset |-> i - 1] \in Fragments
      OBVIOUS
    <2>1. i - 1 \in 0..(d.parts - 1)
      BY <1>1
    <2>2. [of |-> d, offset |-> i - 1] \in {[of |-> d, offset |-> n] : n \in 0..(d.parts - 1)}
      BY <2>1
    <2> QED BY <2>2 DEF Fragments
  <1>3. FirstOf(d, k) \in [1..k -> Fragments]
    BY <1>2 DEF FirstOf
  <1>4. FirstOf(d, k) \in Seq(Fragments) /\ Len(FirstOf(d, k)) = k
    BY <1>1, <1>3
  <1>5. FirstOf(d, k) # <<>>
    BY <1>1, <1>4
  <1> QED BY <1>1, <1>3, <1>4, <1>5 DEF FirstOf, AllOf

LEMMA OneMoreOf ==
  ASSUME PcapAssumption, NEW d \in Datagrams, NEW k \in 1..(d.parts - 1)
  PROVE  Append(FirstOf(d, k), [of |-> d, offset |-> k]) = FirstOf(d, k + 1)
  <1> DEFINE f == [of |-> d, offset |-> k]
             s == FirstOf(d, k)
  <1>1. d.parts \in Nat /\ k \in Nat /\ k \in 1..d.parts /\ k + 1 \in 1..d.parts
    BY DEF PcapAssumption
  <1>2. s \in Seq(Fragments) /\ Len(s) = k /\ \A i \in 1..k : s[i] = [of |-> d, offset |-> i - 1]
    BY <1>1, FirstOfIs
  <1>3. f \in Fragments
    <2>1. k \in 0..(d.parts - 1)
      BY <1>1
    <2> QED BY <2>1 DEF Fragments
  <1> HIDE DEF s
  <1>4. /\ Append(s, f) = [i \in 1..(k + 1) |-> IF i \in 1..k THEN s[i] ELSE f]
    BY <1>1, <1>2, <1>3
  <1>5. \A i \in 1..(k + 1) : (IF i \in 1..k THEN s[i] ELSE f) = [of |-> d, offset |-> i - 1]
    BY <1>1, <1>2
  <1> QED BY <1>4, <1>5 DEF FirstOf, s

LEMMA OneOf ==
  ASSUME NEW d
  PROVE  Append(<<>>, [of |-> d, offset |-> 0]) = FirstOf(d, 1)
  BY DEF FirstOf

(* A fragment that a place does not see leaves what came in turn; one that *)
(* it sees is the next in turn, or the first.                              *)
LEMMA TurnGoesOn ==
  ASSUME PcapAssumption, captured \in Seq(Fragments), NEW f \in Fragments, captured' = Append(captured, f),
         NEW d \in Ours, d.parts \in 2..MaxParts, NEW k \in 1..d.parts,
         NEW at \in [1..k -> DOMAIN captured'], InTurn(d, k, at)'
  PROVE  IF AtPlace(f, d)
         THEN /\ f = [of |-> d, offset |-> k - 1] /\ at[k] = Len(captured')
              /\ k > 1 => \E old \in [1..(k - 1) -> DOMAIN captured] : InTurn(d, k - 1, old)
         ELSE at \in [1..k -> DOMAIN captured] /\ InTurn(d, k, at)
  <1> DEFINE n == Len(captured)
  <1>1. /\ n \in Nat /\ DOMAIN captured = 1..n /\ DOMAIN captured' = 1..(n + 1) /\ Len(captured') = n + 1
        /\ \A i \in 1..n : captured'[i] = captured[i]
        /\ captured'[n + 1] = f
    <2>1. DOMAIN Append(captured, f) = 1..Len(Append(captured, f))
      <3>1. Append(captured, f) \in Seq(Fragments)
        BY AppendProperties
      <3> QED BY <3>1, ElementOfSeq
    <2> QED BY <2>1, AppendProperties, ElementOfSeq
  <1>2. d \in Datagrams /\ d.ours /\ d.parts \in Nat /\ k \in Nat \ {0} /\ k \in 1..k /\ 1 \in 1..k /\ d.parts # 1
    BY DEF Ours, PcapAssumption
  <1>3. /\ \A j \in 1..k : captured'[at[j]] = [of |-> d, offset |-> j - 1]
        /\ \A i, j \in 1..k : i < j => at[i] < at[j]
        /\ \A i \in at[1]..Len(captured') : AtPlace(captured'[i], d) => \E j \in 1..k : at[j] = i
    BY DEF InTurn
  <1>4. \A j \in 1..k : AtPlace([of |-> d, offset |-> j - 1], d)
    BY <1>2 DEF AtPlace, Slot, Whole, NotOurs
  <1>5. \A j \in 1..k : at[j] \in 1..(n + 1)
    BY <1>1
  <1> HIDE DEF n
  <1>6. CASE AtPlace(f, d)
    <2>1. n + 1 \in at[1]..Len(captured')
      BY <1>1, <1>2, <1>5
    <2>2. PICK j \in 1..k : at[j] = n + 1
      BY <1>1, <1>3, <1>6, <2>1
    <2>3. j = k
      <3> SUFFICES ASSUME j # k PROVE FALSE
        OBVIOUS
      <3>1. j < k
        BY <1>2
      <3>2. at[j] < at[k] /\ at[k] \in 1..(n + 1)
        BY <1>2, <1>3, <1>5, <3>1
      <3> QED BY <1>1, <2>2, <3>2
    <2>4. f = [of |-> d, offset |-> k - 1] /\ at[k] = Len(captured')
      BY <1>1, <1>3, <2>2, <2>3
    <2>5. ASSUME k > 1 PROVE \E old \in [1..(k - 1) -> DOMAIN captured] : InTurn(d, k - 1, old)
      <3> DEFINE old == [j2 \in 1..(k - 1) |-> at[j2]]
      <3>1. \A i \in 1..(k - 1) : i \in 1..k /\ at[i] < at[k] /\ at[i] \in 1..n
        <4> SUFFICES ASSUME NEW i \in 1..(k - 1) PROVE i \in 1..k /\ at[i] < at[k] /\ at[i] \in 1..n
          OBVIOUS
        <4>1. i \in 1..k /\ i < k
          BY <1>2
        <4>2. at[i] < at[k]
          BY <1>2, <1>3, <4>1
        <4> QED BY <1>1, <1>5, <2>2, <2>3, <4>1, <4>2
      <3>2. old \in [1..(k - 1) -> DOMAIN captured] /\ \A i \in 1..(k - 1) : old[i] = at[i]
        BY <1>1, <3>1
      <3>3. 1 \in 1..(k - 1)
        BY <1>2, <2>5
      <3> HIDE DEF old
      <3>4. \A i \in 1..(k - 1) : captured[old[i]] = [of |-> d, offset |-> i - 1]
        BY <1>1, <1>3, <3>1, <3>2
      <3>5. \A i, m \in 1..(k - 1) : i < m => old[i] < old[m]
        BY <1>3, <3>1, <3>2
      <3>6. ASSUME NEW i \in old[1]..Len(captured), AtPlace(captured[i], d) PROVE \E m \in 1..(k - 1) : old[m] = i
        <4>1. old[1] = at[1] /\ at[1] \in 1..n /\ i \in 1..n /\ i \in at[1]..Len(captured')
          BY <1>1, <3>1, <3>2, <3>3 DEF n
        <4>2. PICK m \in 1..k : at[m] = i
          BY <1>1, <1>3, <3>6, <4>1
        <4>3. m # k
          BY <1>1, <2>2, <2>3, <4>1, <4>2
        <4>4. m \in 1..(k - 1)
          BY <1>2, <4>3
        <4> QED BY <3>2, <4>2, <4>4
      <3>7. InTurn(d, k - 1, old)
        BY <3>4, <3>5, <3>6 DEF InTurn
      <3> QED BY <3>2, <3>7
    <2> QED BY <1>6, <2>4, <2>5
  <1>7. CASE ~AtPlace(f, d)
    <2>1. \A j \in 1..k : at[j] \in 1..n
      <3> SUFFICES ASSUME NEW j \in 1..k, at[j] = n + 1 PROVE FALSE
        BY <1>1, <1>5
      <3>1. f = [of |-> d, offset |-> j - 1]
        BY <1>1, <1>3
      <3> QED BY <1>4, <1>7, <3>1
    <2>2. at \in [1..k -> DOMAIN captured]
      BY <1>1, <2>1
    <2>3. \A j \in 1..k : captured[at[j]] = [of |-> d, offset |-> j - 1]
      BY <1>1, <1>3, <2>1
    <2>4. ASSUME NEW i \in at[1]..Len(captured), AtPlace(captured[i], d) PROVE \E j \in 1..k : at[j] = i
      <3>1. at[1] \in 1..n /\ i \in 1..n /\ i \in at[1]..Len(captured')
        BY <1>1, <1>2, <2>1 DEF n
      <3> QED BY <1>1, <1>3, <2>4, <3>1
    <2>5. InTurn(d, k, at)
      BY <1>3, <2>3, <2>4 DEF InTurn
    <2> QED BY <1>7, <2>2, <2>5
  <1> QED BY <1>6, <1>7

(* What a place has of a datagram is continued by its next fragment.       *)
LEMMA BufferGoesOn ==
  ASSUME PcapAssumption, PcapInv, NEW f \in Fragments, ~NotOurs(f), ~Whole(f),
         f.offset = 0 \/ f.offset = Len(Claimed(f).buf)
  PROVE  Append(StartsOver(f), f) = FirstOf(f.of, f.offset + 1) /\ f.of \in Ours
  <1>1. /\ f.of \in Datagrams /\ f.of.id \in Nat /\ f.of.parts \in Nat \ {0} /\ f.of.ours \in BOOLEAN
        /\ f.offset \in 0..(f.of.parts - 1) /\ f = [of |-> f.of, offset |-> f.offset]
        /\ Slot(f) \in 0..(PCAP_CACHE_LENGTH - 1)
    BY FragmentIs
  <1>2. CASE f.offset = 0
    <2>1. StartsOver(f) = <<>> /\ f.of \in Ours
      BY <1>1, <1>2 DEF StartsOver, NotOurs, Ours
    <2>2. f = [of |-> f.of, offset |-> 0] /\ f.offset + 1 = 1
      BY <1>1, <1>2
    <2>3. Append(<<>>, [of |-> f.of, offset |-> 0]) = FirstOf(f.of, 1)
      BY OneOf
    <2> QED BY <2>1, <2>2, <2>3
  <1>3. CASE f.offset # 0
    <2>1. f.offset = Len(Claimed(f).buf) /\ StartsOver(f) = Claimed(f).buf
      BY <1>3 DEF StartsOver
    <2>2. Claimed(f).buf # <<>>
      <3>1. Len(<<>>) = 0
        OBVIOUS
      <3> QED BY <1>3, <2>1, <3>1
    <2>3. cache_[Slot(f)].id = f.of.id /\ Claimed(f) = cache_[Slot(f)]
      BY <2>2 DEF Claimed, Empty
    <2>4. PlaceSound(cache_, Slot(f))
      BY <1>1 DEF PcapInv
    <2>5. PICK d \in Ours, k \in 1..MaxParts :
            cache_[Slot(f)] = [id |-> d.id, buf |-> FirstOf(d, k)] /\ k < d.parts
      BY <2>2, <2>3, <2>4 DEF PlaceSound
    <2>6. d \in Datagrams /\ d.id = f.of.id
      BY <2>3, <2>5 DEF Ours
    <2>7. d = f.of
      BY <1>1, <2>6 DEF PcapAssumption
    <2>8. d.parts \in Nat /\ k \in 1..(d.parts - 1) /\ k \in 1..d.parts
      BY <2>5, <2>6 DEF PcapAssumption
    <2>9. Claimed(f).buf = FirstOf(d, k) /\ Len(FirstOf(d, k)) = k
      BY <2>3, <2>5, <2>6, <2>8, FirstOfIs
    <2>10. f.offset = k /\ StartsOver(f) = FirstOf(f.of, k)
      BY <2>1, <2>7, <2>9
    <2>11. Append(FirstOf(f.of, k), [of |-> f.of, offset |-> k]) = FirstOf(f.of, k + 1)
      BY <1>1, <2>7, <2>8, OneMoreOf
    <2>12. f = [of |-> f.of, offset |-> k]
      BY <1>1, <2>10
    <2> QED BY <2>5, <2>7, <2>10, <2>11, <2>12
  <1> QED BY <1>2, <1>3

(* A fragment that comes in turn is the one its place waits for.           *)
LEMMA NextInTurn ==
  ASSUME PcapAssumption, PcapInv, NEW f \in Fragments, captured' = Append(captured, f),
         NEW d \in Ours, d.parts \in 2..MaxParts, NEW k \in 1..d.parts,
         NEW at \in [1..k -> DOMAIN captured'], InTurn(d, k, at)', AtPlace(f, d)
  PROVE  /\ f.of = d /\ f.offset = k - 1 /\ k \in Nat /\ d.parts \in Nat
         /\ f.offset = 0 \/ f.offset = Len(Claimed(f).buf)
         /\ Append(StartsOver(f), f) = FirstOf(d, k)
  <1>1. d \in Datagrams /\ d.ours /\ d.parts \in Nat /\ k \in Nat \ {0}
    BY DEF Ours, PcapAssumption
  <1>2. captured \in Seq(Fragments)
    BY DEF PcapInv
  <1>3. /\ f = [of |-> d, offset |-> k - 1]
        /\ k > 1 => \E old \in [1..(k - 1) -> DOMAIN captured] : InTurn(d, k - 1, old)
    BY <1>2, TurnGoesOn
  <1>4. f.of = d /\ f.offset = k - 1
    BY <1>3
  <1>5. Slot(f) = d.id % PCAP_CACHE_LENGTH
    BY DEF AtPlace
  <1>6. ASSUME k > 1 PROVE f.offset = Len(Claimed(f).buf)
    <2>1. k - 1 \in 1..(d.parts - 1) /\ k - 1 \in 1..d.parts
      BY <1>1, <1>6
    <2>2. PICK old \in [1..(k - 1) -> DOMAIN captured] : InTurn(d, k - 1, old)
      BY <1>3, <1>6
    <2>3. PlaceKeeps(cache_, d)
      BY DEF PcapInv
    <2>4. cache_[d.id % PCAP_CACHE_LENGTH] = [id |-> d.id, buf |-> FirstOf(d, k - 1)]
      BY <2>1, <2>2, <2>3 DEF PlaceKeeps
    <2>5. Claimed(f).buf = FirstOf(d, k - 1)
      BY <1>4, <1>5, <2>4 DEF Claimed
    <2>6. Len(FirstOf(d, k - 1)) = k - 1
      BY <1>1, <2>1, FirstOfIs
    <2> QED BY <1>4, <2>5, <2>6
  <1>7. f.offset = 0 \/ f.offset = Len(Claimed(f).buf)
    <2>1. k = 1 \/ k > 1
      BY <1>1
    <2> QED BY <1>1, <1>4, <1>6, <2>1
  <1>8. Append(StartsOver(f), f) = FirstOf(f.of, f.offset + 1)
    BY <1>7, BufferGoesOn DEF AtPlace
  <1>9. f.offset + 1 = k
    BY <1>1, <1>4
  <1> QED BY <1>1, <1>4, <1>7, <1>8, <1>9

(* Places that a fragment does not reach keep what came in turn.           *)
LEMMA OthersKeep ==
  ASSUME PcapAssumption, PcapInv, NEW f \in Fragments, captured' = Append(captured, f),
         NEW d \in Ours, d.parts \in 2..MaxParts, ~AtPlace(f, d),
         cache_'[d.id % PCAP_CACHE_LENGTH] = cache_[d.id % PCAP_CACHE_LENGTH]
  PROVE  PlaceKeeps(cache_, d)'
  <1> SUFFICES ASSUME NEW k \in 1..(d.parts - 1), NEW at \in [1..k -> DOMAIN captured'], InTurn(d, k, at)'
               PROVE  cache_'[d.id % PCAP_CACHE_LENGTH] = [id |-> d.id, buf |-> FirstOf(d, k)]
    BY DEF PlaceKeeps
  <1>1. d.parts \in Nat /\ k \in 1..d.parts
    BY DEF Ours, PcapAssumption
  <1>2. captured \in Seq(Fragments) /\ PlaceKeeps(cache_, d)
    BY DEF PcapInv
  <1>3. at \in [1..k -> DOMAIN captured] /\ InTurn(d, k, at)
    BY <1>1, <1>2, TurnGoesOn
  <1> QED BY <1>2, <1>3 DEF PlaceKeeps

(* The last fragment in turn is kept of no other place than its own.       *)
LEMMA LastIsAtPlace ==
  ASSUME PcapAssumption, captured \in Seq(Fragments), NEW f \in Fragments, captured' = Append(captured, f)
  PROVE  LET d == captured'[Len(captured')].of
         IN  d = f.of /\ (d.ours /\ d.parts \in 2..MaxParts => d \in Ours /\ AtPlace(f, d))
  <1>1. captured'[Len(captured')] = f
    BY AppendProperties
  <1>2. f.of \in Datagrams /\ f.of.parts \in Nat
    BY FragmentIs
  <1> QED BY <1>1, <1>2 DEF AtPlace, Whole, NotOurs, Ours, Slot

LEMMA ReadKeeps ==
  ASSUME PcapAssumption, captured \in Seq(Fragments), NEW f \in Fragments, Read(f)
  PROVE  captured' = Append(captured, f) /\ captured' \in Seq(Fragments)
  BY AppendProperties DEF Read

(* A fragment that does not reach the cache.                               *)
LEMMA PassedBy ==
  ASSUME PcapAssumption, PcapInv, NEW f \in Fragments, Read(f), NotOurs(f) \/ Whole(f), UNCHANGED cache_,
         packets' \in Seq({AllOf(d) : d \in Ours})
  PROVE  PcapInv' /\ LastBecomesPacket'
  <1>1. captured \in Seq(Fragments) /\ cache_ \in Caches
    BY DEF PcapInv
  <1>2. captured' = Append(captured, f) /\ captured' \in Seq(Fragments)
    BY <1>1, ReadKeeps
  <1>3. \A d : ~AtPlace(f, d)
    BY DEF AtPlace
  <1>4. ASSUME NEW d \in Ours, d.parts \in 2..MaxParts PROVE PlaceKeeps(cache_, d)'
    BY <1>2, <1>3, <1>4, OthersKeep
  <1>5. ASSUME NEW s \in 0..(PCAP_CACHE_LENGTH - 1) PROVE PlaceSound(cache_, s)'
    BY DEF PcapInv, PlaceSound
  <1>6. PcapInv'
    BY <1>1, <1>2, <1>4, <1>5 DEF PcapInv
  <1>7. LastBecomesPacket'
    <2>1. captured'[Len(captured')].of = f.of
          /\ ~(f.of.ours /\ f.of.parts \in 2..MaxParts)
      BY <1>1, <1>2, <1>3, LastIsAtPlace
    <2> QED BY <2>1 DEF LastBecomesPacket
  <1> QED BY <1>6, <1>7

LEMMA SkipKeeps ==
  ASSUME PcapAssumption, PcapInv, SkipForeign
  PROVE  PcapInv' /\ LastBecomesPacket'
  <1>1. PICK f \in Fragments : NotOurs(f) /\ Read(f) /\ UNCHANGED <<cache_, packets>>
    BY DEF SkipForeign
  <1>2. packets' \in Seq({AllOf(d) : d \in Ours})
    BY <1>1 DEF PcapInv
  <1> QED BY <1>1, <1>2, PassedBy

LEMMA UnfragmentedKeeps ==
  ASSUME PcapAssumption, PcapInv, Unfragmented
  PROVE  PcapInv' /\ LastBecomesPacket'
  <1>1. PICK f \in Fragments : /\ ~NotOurs(f) /\ Whole(f) /\ Read(f)
                               /\ packets' = Append(packets, <<f>>) /\ UNCHANGED cache_
    BY DEF Unfragmented
  <1>2. /\ f.of \in Datagrams /\ f.of.ours \in BOOLEAN /\ f.of.parts \in Nat \ {0}
        /\ f.offset \in 0..(f.of.parts - 1) /\ f = [of |-> f.of, offset |-> f.offset]
    BY FragmentIs
  <1>3. f.of.parts = 1 /\ f.offset = 0 /\ f.of \in Ours
    BY <1>1, <1>2 DEF Whole, NotOurs, Ours
  <1>4. <<f>> = AllOf(f.of)
    <2>1. AllOf(f.of) = [i \in 1..1 |-> [of |-> f.of, offset |-> i - 1]]
      BY <1>3 DEF AllOf
    <2>2. \A i \in 1..1 : <<f>>[i] = [of |-> f.of, offset |-> i - 1]
      BY <1>2, <1>3
    <2> QED BY <2>1, <2>2
  <1>5. packets' \in Seq({AllOf(d) : d \in Ours})
    <2>1. packets \in Seq({AllOf(d) : d \in Ours}) /\ <<f>> \in {AllOf(d) : d \in Ours}
      BY <1>3, <1>4 DEF PcapInv
    <2> QED BY <1>1, <2>1, AppendProperties
  <1> QED BY <1>1, <1>5, PassedBy

(* A fragment that reaches the cache leaves the other places alone.        *)
LEMMA OnePlace ==
  ASSUME PcapAssumption, PcapInv, NEW f \in Fragments, Read(f), ~NotOurs(f), ~Whole(f),
         NEW place \in [id : Nat, buf : Seq(Fragments)], Put(f, place),
         PlaceSound(cache_, Slot(f))', packets' \in Seq({AllOf(d) : d \in Ours}), ItsPlaceKeeps(f)'
  PROVE  PcapInv'
  <1>1. captured \in Seq(Fragments) /\ cache_ \in Caches
    BY DEF PcapInv
  <1>2. captured' = Append(captured, f) /\ captured' \in Seq(Fragments)
    BY <1>1, ReadKeeps
  <1>3. Slot(f) \in 0..(PCAP_CACHE_LENGTH - 1)
    BY FragmentIs
  <1>4. /\ cache_' \in Caches
        /\ \A s \in 0..(PCAP_CACHE_LENGTH - 1) : s # Slot(f) => cache_'[s] = cache_[s]
    BY <1>1, <1>3 DEF Put, Caches
  <1>5. ASSUME NEW s \in 0..(PCAP_CACHE_LENGTH - 1) PROVE PlaceSound(cache_, s)'
    <2>1. CASE s = Slot(f)
      BY <2>1
    <2>2. CASE s # Slot(f)
      <3>1. PlaceSound(cache_, s) /\ cache_'[s] = cache_[s]
        BY <1>4, <2>2 DEF PcapInv
      <3> QED BY <3>1 DEF PlaceSound
    <2> QED BY <2>1, <2>2
  <1>6. ASSUME NEW d \in Ours, d.parts \in 2..MaxParts PROVE PlaceKeeps(cache_, d)'
    <2>1. CASE AtPlace(f, d)
      BY <1>6, <2>1 DEF ItsPlaceKeeps
    <2>2. CASE ~AtPlace(f, d)
      <3>1. d.id \in Nat /\ PCAP_CACHE_LENGTH \in Nat \ {0}
        BY DEF Ours, PcapAssumption
      <3>2. d.id % PCAP_CACHE_LENGTH \in 0..(PCAP_CACHE_LENGTH - 1)
        BY <3>1
      <3>3. d.id % PCAP_CACHE_LENGTH # Slot(f)
        BY <2>2 DEF AtPlace
      <3>4. cache_'[d.id % PCAP_CACHE_LENGTH] = cache_[d.id % PCAP_CACHE_LENGTH]
        BY <1>4, <3>2, <3>3
      <3> QED BY <1>2, <1>6, <2>2, <3>4, OthersKeep
    <2> QED BY <2>1, <2>2
  <1> QED BY <1>2, <1>4, <1>5, <1>6 DEF PcapInv

(* A fragment that is not the next one: none that is in turn.              *)
LEMMA UnexpectedKeeps ==
  ASSUME PcapAssumption, PcapInv, Unexpected
  PROVE  PcapInv' /\ LastBecomesPacket'
  <1>1. PICK f \in Fragments : /\ ~NotOurs(f) /\ ~Whole(f) /\ Read(f)
                               /\ f.offset # 0 /\ f.offset # Len(Claimed(f).buf)
                               /\ Put(f, Claimed(f)) /\ UNCHANGED packets
    BY DEF Unexpected
  <1>2. captured \in Seq(Fragments) /\ cache_ \in Caches /\ packets \in Seq({AllOf(d) : d \in Ours})
    BY DEF PcapInv
  <1>3. captured' = Append(captured, f)
    BY <1>1, <1>2, ReadKeeps
  <1>4. f.of.id \in Nat /\ Slot(f) \in 0..(PCAP_CACHE_LENGTH - 1)
    BY FragmentIs
  <1>5. Claimed(f) \in [id : Nat, buf : Seq(Fragments)]
    <2>1. cache_[Slot(f)] \in [id : Nat, buf : Seq(Fragments)]
      BY <1>2, <1>4 DEF Caches
    <2>2. Empty(f.of.id) \in [id : Nat, buf : Seq(Fragments)]
      BY <1>4, EmptySeq DEF Empty
    <2> QED BY <2>1, <2>2 DEF Claimed
  <1>6. PlaceSound(cache_, Slot(f))'
    <2>1. cache_'[Slot(f)] = Claimed(f)
      BY <1>1, <1>2, <1>4 DEF Put, Caches
    <2>2. PlaceSound(cache_, Slot(f))
      BY <1>4 DEF PcapInv
    <2>3. Claimed(f).buf # <<>> => Claimed(f) = cache_[Slot(f)]
      BY DEF Claimed, Empty
    <2> QED BY <2>1, <2>2, <2>3 DEF PlaceSound
  <1>7. ASSUME NEW d \in Ours, d.parts \in 2..MaxParts, NEW k \in 1..d.parts,
               NEW at \in [1..k -> DOMAIN captured'], InTurn(d, k, at)', AtPlace(f, d)
        PROVE  FALSE
    BY <1>1, <1>3, <1>7, NextInTurn
  <1>8. ASSUME NEW d \in Ours, d.parts \in 2..MaxParts, AtPlace(f, d)
        PROVE  PlaceKeeps(cache_, d)'
    <2>1. d.parts \in Nat
      BY DEF Ours, PcapAssumption
    <2>2. \A k \in 1..(d.parts - 1) : k \in 1..d.parts
      BY <2>1
    <2> QED BY <1>7, <1>8, <2>2 DEF PlaceKeeps
  <1>9. PcapInv'
    <2>1. ItsPlaceKeeps(f)'
      BY <1>8 DEF ItsPlaceKeeps
    <2>2. packets' \in Seq({AllOf(d) : d \in Ours})
      BY <1>1, <1>2
    <2> QED BY <1>1, <1>5, <1>6, <2>1, <2>2, OnePlace
  <1>10. LastBecomesPacket'
    <2>1. /\ captured'[Len(captured')].of = f.of
          /\ f.of.ours /\ f.of.parts \in 2..MaxParts => f.of \in Ours /\ AtPlace(f, f.of)
      BY <1>2, <1>3, LastIsAtPlace
    <2>2. f.of.parts \in Nat \ {0}
      BY FragmentIs
    <2>3. f.of.parts \in 1..f.of.parts
      BY <2>2
    <2> QED BY <1>7, <2>1, <2>3 DEF LastBecomesPacket
  <1> QED BY <1>9, <1>10

(* The next fragment, or one that starts over.                             *)
LEMMA ReassembleKeeps ==
  ASSUME PcapAssumption, PcapInv, Reassemble
  PROVE  PcapInv' /\ LastBecomesPacket'
  <1>1. PICK f \in Fragments :
          /\ ~NotOurs(f) /\ ~Whole(f) /\ Read(f)
          /\ f.offset = 0 \/ f.offset = Len(Claimed(f).buf)
          /\ LET buf == Append(StartsOver(f), f)
             IN  CASE Len(buf) > MaxParts -> Put(f, Empty(f.of.id)) /\ UNCHANGED packets
                   [] Len(buf) <= MaxParts /\ IsLast(f) ->
                        Put(f, Empty(f.of.id)) /\ packets' = Append(packets, buf)
                   [] OTHER -> Put(f, [id |-> f.of.id, buf |-> buf]) /\ UNCHANGED packets
    BY DEF Reassemble
  <1> DEFINE n   == f.offset + 1
             buf == FirstOf(f.of, n)
  <1>2. captured \in Seq(Fragments) /\ cache_ \in Caches /\ packets \in Seq({AllOf(d) : d \in Ours})
    BY DEF PcapInv
  <1>3. captured' = Append(captured, f)
    BY <1>1, <1>2, ReadKeeps
  <1>4. /\ f.of \in Datagrams /\ f.of.id \in Nat /\ f.of.parts \in Nat \ {0}
        /\ f.offset \in 0..(f.of.parts - 1) /\ Slot(f) \in 0..(PCAP_CACHE_LENGTH - 1)
        /\ Slot(f) = f.of.id % PCAP_CACHE_LENGTH
    BY FragmentIs
  <1>5. Append(StartsOver(f), f) = buf /\ f.of \in Ours
    BY <1>1, BufferGoesOn
  <1>6. n \in 1..f.of.parts /\ MaxParts \in Nat /\ (IsLast(f) <=> n = f.of.parts)
    BY <1>4 DEF PcapAssumption, IsLast
  <1>7. buf \in Seq(Fragments) /\ Len(buf) = n /\ buf # <<>> /\ (n = f.of.parts => buf = AllOf(f.of))
    BY <1>4, <1>6, FirstOfIs
  <1> HIDE DEF n, buf
  <1>8. /\ n > MaxParts => Put(f, Empty(f.of.id)) /\ UNCHANGED packets
        /\ n <= MaxParts /\ n = f.of.parts => Put(f, Empty(f.of.id)) /\ packets' = Append(packets, buf)
        /\ n <= MaxParts /\ n # f.of.parts => Put(f, [id |-> f.of.id, buf |-> buf]) /\ UNCHANGED packets
    <2>1. CASE n > MaxParts
      <3>1. Len(buf) > MaxParts
        BY <1>7, <2>1
      <3> QED BY <1>1, <1>5, <1>6, <2>1, <3>1
    <2>2. CASE n <= MaxParts /\ n = f.of.parts
      <3>1. ~(Len(buf) > MaxParts) /\ Len(buf) <= MaxParts /\ IsLast(f)
        BY <1>6, <1>7, <2>2
      <3> QED BY <1>1, <1>5, <1>6, <2>2, <3>1
    <2>3. CASE n <= MaxParts /\ n # f.of.parts
      <3>1. ~(Len(buf) > MaxParts) /\ ~IsLast(f)
        BY <1>6, <1>7, <2>3
      <3> QED BY <1>1, <1>5, <1>6, <2>3, <3>1
    <2> QED BY <1>6, <2>1, <2>2, <2>3
  <1>9. ASSUME NEW d \in Ours, d.parts \in 2..MaxParts, NEW k \in 1..d.parts,
               NEW at \in [1..k -> DOMAIN captured'], InTurn(d, k, at)', AtPlace(f, d)
        PROVE  d = f.of /\ k = n /\ n <= MaxParts
    <2>1. f.of = d /\ f.offset = k - 1 /\ k \in Nat /\ d.parts \in Nat
      BY <1>3, <1>9, NextInTurn
    <2> QED BY <1>6, <1>9, <2>1 DEF n
  <1>10. Empty(f.of.id) \in [id : Nat, buf : Seq(Fragments)] /\ Empty(f.of.id).buf = <<>>
    BY <1>4, EmptySeq DEF Empty
  <1>11. LastBecomesPacket'
    <2>1. /\ captured'[Len(captured')].of = f.of
          /\ f.of.ours /\ f.of.parts \in 2..MaxParts => f.of \in Ours /\ AtPlace(f, f.of)
      BY <1>2, <1>3, LastIsAtPlace
    <2> SUFFICES ASSUME f.of.ours, f.of.parts \in 2..MaxParts,
                        NEW at \in [1..f.of.parts -> DOMAIN captured'], InTurn(f.of, f.of.parts, at)'
                 PROVE  packets' # <<>> /\ packets'[Len(packets')] = AllOf(f.of)
      BY <2>1 DEF LastBecomesPacket
    <2>2. f.of.parts \in 1..f.of.parts
      BY <1>4
    <2>3. f.of.parts = n /\ n <= MaxParts
      BY <1>9, <2>1, <2>2
    <2>4. packets' = Append(packets, AllOf(f.of))
      BY <1>7, <1>8, <2>3
    <2>5. AllOf(f.of) \in {AllOf(d) : d \in Ours}
      BY <1>5
    <2> QED BY <1>2, <2>4, <2>5, AppendProperties
  <1>12. CASE n > MaxParts \/ n = f.of.parts
    <2>1. Put(f, Empty(f.of.id))
      BY <1>6, <1>8, <1>12
    <2>2. packets' \in Seq({AllOf(d) : d \in Ours})
      <3>1. CASE n > MaxParts
        BY <1>2, <1>8, <3>1
      <3>2. CASE ~(n > MaxParts)
        <4>1. packets' = Append(packets, buf) /\ buf \in {AllOf(d) : d \in Ours}
          BY <1>5, <1>6, <1>7, <1>8, <1>12, <3>2
        <4> QED BY <1>2, <4>1, AppendProperties
      <3> QED BY <3>1, <3>2
    <2>3. PlaceSound(cache_, Slot(f))'
      <3>1. cache_'[Slot(f)] = Empty(f.of.id)
        BY <1>2, <1>4, <2>1 DEF Put, Caches
      <3> QED BY <1>10, <3>1 DEF PlaceSound
    <2>4. ASSUME NEW d \in Ours, d.parts \in 2..MaxParts, AtPlace(f, d)
          PROVE  PlaceKeeps(cache_, d)'
      <3>1. d.parts \in Nat
        BY DEF Ours, PcapAssumption
      <3>2. ASSUME NEW k \in 1..(d.parts - 1), NEW at \in [1..k -> DOMAIN captured'], InTurn(d, k, at)'
            PROVE  FALSE
        <4>1. k \in 1..d.parts /\ k # d.parts
          BY <3>1
        <4>2. d = f.of /\ k = n /\ n <= MaxParts
          BY <1>9, <2>4, <3>2, <4>1
        <4> QED BY <1>6, <1>12, <4>1, <4>2
      <3> QED BY <3>2 DEF PlaceKeeps
    <2>5. PcapInv'
      <3>1. ItsPlaceKeeps(f)'
        BY <2>4 DEF ItsPlaceKeeps
      <3> QED BY <1>1, <1>10, <2>1, <2>2, <2>3, <3>1, OnePlace
    <2> QED BY <2>5, <1>11
  <1>13. CASE n <= MaxParts /\ n # f.of.parts
    <2>1. Put(f, [id |-> f.of.id, buf |-> buf]) /\ UNCHANGED packets
      BY <1>8, <1>13
    <2>2. [id |-> f.of.id, buf |-> buf] \in [id : Nat, buf : Seq(Fragments)]
      BY <1>4, <1>7
    <2>3. cache_'[Slot(f)] = [id |-> f.of.id, buf |-> buf]
      BY <1>2, <1>4, <2>1 DEF Put, Caches
    <2>4. PlaceSound(cache_, Slot(f))'
      <3>1. n \in 1..MaxParts /\ n < f.of.parts
        BY <1>4, <1>6, <1>13
      <3> QED BY <1>4, <1>5, <2>3, <3>1 DEF PlaceSound, buf
    <2>5. ASSUME NEW d \in Ours, d.parts \in 2..MaxParts, AtPlace(f, d)
          PROVE  PlaceKeeps(cache_, d)'
      <3>1. d.parts \in Nat
        BY DEF Ours, PcapAssumption
      <3>2. ASSUME NEW k \in 1..(d.parts - 1), NEW at \in [1..k -> DOMAIN captured'], InTurn(d, k, at)'
            PROVE  cache_'[d.id % PCAP_CACHE_LENGTH] = [id |-> d.id, buf |-> FirstOf(d, k)]
        <4>1. k \in 1..d.parts
          BY <3>1
        <4>2. d = f.of /\ k = n
          BY <1>9, <2>5, <3>2, <4>1
        <4> QED BY <1>4, <2>3, <4>2 DEF buf
      <3> QED BY <3>2 DEF PlaceKeeps
    <2>6. PcapInv'
      <3>1. ItsPlaceKeeps(f)'
        BY <2>5 DEF ItsPlaceKeeps
      <3>2. packets' \in Seq({AllOf(d) : d \in Ours})
        BY <1>2, <2>1
      <3> QED BY <1>1, <2>1, <2>2, <2>4, <3>1, <3>2, OnePlace
    <2> QED BY <2>6, <1>11
  <1> QED BY <1>6, <1>12, <1>13

(* A packet that a capture makes is a datagram of ours, whole and in       *)
(* order, and a datagram whose fragments come in turn becomes one, however *)
(* the capture loses, repeats and mixes fragments (read_next_packet_).     *)
THEOREM CaptureIsWhole ==
  ASSUME PcapAssumption
  PROVE  PcapSpec => []DatagramsAreWhole
  <1> DEFINE Inv == PcapInv /\ LastBecomesPacket
  <1>1. PcapInit => Inv
    <2> SUFFICES ASSUME PcapInit PROVE Inv
      OBVIOUS
    <2>1. cache_ \in Caches /\ \A s \in 0..(PCAP_CACHE_LENGTH - 1) : cache_[s].buf = <<>>
      BY EmptySeq DEF PcapInit, Caches, Empty
    <2>2. \A s \in 0..(PCAP_CACHE_LENGTH - 1) : PlaceSound(cache_, s)
      BY <2>1 DEF PlaceSound
    <2>3. captured = <<>> /\ packets = <<>> /\ DOMAIN captured = {}
      BY DEF PcapInit
    <2>4. ASSUME NEW d \in Ours, d.parts \in 2..MaxParts PROVE PlaceKeeps(cache_, d)
      <3>1. \A k \in 1..(d.parts - 1) : 1 \in 1..k
        BY DEF Ours, PcapAssumption
      <3> QED BY <2>3, <3>1 DEF PlaceKeeps
    <2> QED BY <2>1, <2>2, <2>3, <2>4, EmptySeq DEF PcapInv, LastBecomesPacket
  <1>2. Inv /\ [PcapNext]_pcapVars => Inv'
    <2> SUFFICES ASSUME Inv, [PcapNext]_pcapVars PROVE Inv'
      OBVIOUS
    <2>1. CASE SkipForeign
      BY <2>1, SkipKeeps
    <2>2. CASE Unfragmented
      BY <2>2, UnfragmentedKeeps
    <2>3. CASE Unexpected
      BY <2>3, UnexpectedKeeps
    <2>4. CASE Reassemble
      BY <2>4, ReassembleKeeps
    <2>5. CASE UNCHANGED pcapVars
      <3>1. cache_' = cache_ /\ captured' = captured /\ packets' = packets
        BY <2>5 DEF pcapVars
      <3>2. \A d, k, at : InTurn(d, k, at)' <=> InTurn(d, k, at)
        BY <3>1 DEF InTurn
      <3>3. \A d : PlaceKeeps(cache_, d) => PlaceKeeps(cache_, d)'
        BY <3>1, <3>2 DEF PlaceKeeps
      <3>4. PcapInv'
        BY <3>1, <3>3 DEF PcapInv, PlaceSound
      <3>5. LastBecomesPacket'
        BY <3>1, <3>2 DEF LastBecomesPacket
      <3> QED BY <3>4, <3>5
    <2> QED BY <2>1, <2>2, <2>3, <2>4, <2>5 DEF PcapNext, EndOfFile
  <1>3. Inv => DatagramsAreWhole
    <2> SUFFICES ASSUME Inv PROVE DatagramsAreWhole
      OBVIOUS
    <2>1. ASSUME NEW i \in DOMAIN packets
          PROVE  packets[i][1].of.ours /\ packets[i] = AllOf(packets[i][1].of)
      <3>1. packets[i] \in {AllOf(d) : d \in Ours}
        BY ElementOfSeq DEF PcapInv
      <3>2. PICK d \in Ours : packets[i] = AllOf(d)
        BY <3>1
      <3>3. d.ours /\ 1 \in 1..d.parts
        BY DEF Ours, PcapAssumption
      <3>4. AllOf(d)[1].of = d
        BY <3>3 DEF AllOf
      <3> QED BY <3>2, <3>3, <3>4
    <2> QED BY <2>1 DEF DatagramsAreWhole, LastBecomesPacket
  <1> QED BY <1>1, <1>2, <1>3, PTL DEF PcapSpec

-----------------------------------------------------------------------------
(* The packets that are counted (PacketStats).                             *)
Statistics ==
  [init_seq_num : BOOLEAN, highest : Int, base : Int, total : Int, last_total : Int,
   last_expect : Int]

(* The counter n stands for the packet i: both are in the same place       *)
(* between two wraps.                                                      *)
Stands(n, i) ==
  \E q, k \in Int : \E r \in 0..(SeqWrap - 1) : first + i = SeqWrap*q + r /\ n = SeqWrap*k + r

(* The counters stand for the last and for the first packet that came.     *)
Spans(s, numbers, latest, earliest) ==
  /\ latest \in numbers /\ earliest \in numbers
  /\ \A i \in numbers : earliest <= i /\ i <= latest
  /\ Stands(s.highest, latest) /\ s.highest - s.base = latest - earliest

NumbersInv ==
  /\ first \in 0..(SeqWrap - 1) /\ came \subseteq 0..MaxSeq /\ stats \in Statistics
  /\ stats.last_total <= stats.total /\ stats.last_expect <= Expected(stats)
  /\ IsFiniteSet(came) /\ Cardinality(came) <= stats.total
  /\ came = {} => stats = NoStats
  /\ came # {} =>
       /\ stats.init_seq_num
       /\ \E latest, earliest \in 0..MaxSeq : Spans(stats, came, latest, earliest)

(* What is the greatest and the least is what Max and Min choose.          *)
LEMMA GreatestAndLeast ==
  ASSUME NEW S \in SUBSET Int, NEW a \in S, NEW b \in S, \A i \in S : a <= i /\ i <= b
  PROVE  Max(S) = b /\ Min(S) = a
  <1>1. ASSUME NEW c \in S, \A y \in S : c >= y PROVE c = b
    BY <1>1
  <1>2. ASSUME NEW c \in S, \A y \in S : c <= y PROVE c = a
    BY <1>2
  <1>3. \A y \in S : b >= y
    OBVIOUS
  <1>4. \A y \in S : a <= y
    OBVIOUS
  <1>5. Max(S) = b
    BY <1>1, <1>3, Zenon DEF Max
  <1>6. Min(S) = a
    BY <1>2, <1>4, Zenon DEF Min
  <1> QED BY <1>5, <1>6

LEMMA WholeAndRest ==
  ASSUME NEW n \in Int, NEW w \in Nat \ {0}
  PROVE  n \div w \in Int /\ n % w \in 0..(w - 1) /\ n = w * (n \div w) + (n % w)
  OBVIOUS

LEMMA RestOf ==
  ASSUME NEW w \in Nat \ {0}, NEW q \in Int, NEW r \in 0..(w - 1)
  PROVE  (w*q + r) % w = r
  OBVIOUS

LEMMA Half ==
  ASSUME CountingAssumption
  PROVE  /\ SeqWrap \in Nat \ {0} /\ SeqWrap \div 2 \in Nat \ {0}
         /\ SeqWrap = 2 * (SeqWrap \div 2)
  BY DEF CountingAssumption

(* A packet that is d away from the last one has the number that is d away *)
(* on the circle of numbers.                                               *)
LEMMA NumberFollows ==
  ASSUME CountingAssumption, NEW i \in Int, NEW n \in Int, NEW d \in Int, Stands(n, i),
         first \in Int,
         0 - (SeqWrap \div 2) < d, d < SeqWrap \div 2
  PROVE  LET b == (first + (i + d)) % SeqWrap
         IN  /\ b \in 0..(SeqWrap - 1) /\ n % SeqWrap \in 0..(SeqWrap - 1)
             /\ b - (n % SeqWrap) \in {d, d - SeqWrap, d + SeqWrap}
             /\ Stands(n + d, i + d)
  <1> DEFINE W == SeqWrap  h == SeqWrap \div 2
  <1>1. W \in Nat \ {0} /\ h \in Nat \ {0} /\ W = 2 * h
    BY Half
  <1>2. PICK q, k \in Int, r \in 0..(W - 1) : first + i = W*q + r /\ n = W*k + r
    BY Zenon DEF Stands
  <1> SUFFICES ASSUME NEW e \in Int, NEW g \in {0, W, 0 - W}, g = W*e, r + d - g \in 0..(W - 1)
               PROVE  LET b == (first + (i + d)) % SeqWrap
                      IN  /\ b \in 0..(SeqWrap - 1) /\ n % SeqWrap \in 0..(SeqWrap - 1)
                          /\ b - (n % SeqWrap) \in {d, d - SeqWrap, d + SeqWrap}
                          /\ Stands(n + d, i + d)
    <2>1. W*0 = 0 /\ W*1 = W /\ W*(0 - 1) = 0 - W
      <3>1. ASSUME NEW w \in Int PROVE w*0 = 0
        OBVIOUS
      <3>2. ASSUME NEW w \in Int PROVE w*1 = w
        OBVIOUS
      <3>3. ASSUME NEW w \in Int PROVE w*(0 - 1) = 0 - w
        OBVIOUS
      <3>4. W \in Int
        BY <1>1
      <3> HIDE DEF W
      <3> QED BY <3>1, <3>2, <3>3, <3>4, Zenon
    <2>2. \/ r + d - 0 \in 0..(W - 1) \/ r + d - W \in 0..(W - 1) \/ r + d - (0 - W) \in 0..(W - 1)
      <3>1. 0 - h < d /\ d < h
        OBVIOUS
      <3> HIDE DEF W, h
      <3> QED BY <1>1, <1>2, <3>1
    <2>3. 0 \in Int /\ 1 \in Int /\ 0 - 1 \in Int
      OBVIOUS
    <2> HIDE DEF W
    <2> QED BY <2>1, <2>2, <2>3 DEF W
  <1>3. W*(q + e) = W*q + W*e /\ W*(k + e) = W*k + W*e /\ W*q \in Int /\ W*k \in Int /\ W*e \in Int
    BY <1>1, <1>2
  <1>5. first + (i + d) = W*(q + e) + (r + d - g)
    <2>1. first + (i + d) = (first + i) + d
      OBVIOUS
    <2>2. g \in Int /\ r \in Int
      BY <1>1, <1>2
    <2>3. ASSUME NEW x \in Int, NEW y \in Int PROVE (x + r) + d = (x + y) + (r + d - y)
      BY <2>2
    <2> QED BY <1>2, <1>3, <2>1, <2>2, <2>3
  <1>6. n + d = W*(k + e) + (r + d - g)
    <2>1. g \in Int /\ r \in Int
      BY <1>1, <1>2
    <2>2. ASSUME NEW x \in Int, NEW y \in Int PROVE (x + r) + d = (x + y) + (r + d - y)
      BY <2>1
    <2> QED BY <1>2, <1>3, <2>1, <2>2
  <1>7. q + e \in Int /\ k + e \in Int
    OBVIOUS
  <1>8. (first + (i + d)) % W = r + d - g
    <2> DEFINE b == r + d - g  Q == q + e
    <2>1. b \in 0..(W - 1) /\ Q \in Int /\ first + (i + d) = W*Q + b
      BY <1>5, <1>7
    <2> HIDE DEF b, Q
    <2>2. (W*Q + b) % W = b
      BY <1>1, <2>1, RestOf
    <2>3. (first + (i + d)) % W = b
      BY <2>1, <2>2, Zenon
    <2> QED BY <2>3 DEF b
  <1>9. n % W = r
    BY <1>1, <1>2, RestOf
  <1>10. Stands(n + d, i + d)
    BY <1>5, <1>6, <1>7 DEF Stands
  <1> HIDE DEF W
  <1>12. (r + d - g) - r \in {d, d - W, d + W}
    BY <1>1, <1>2
  <1> QED BY <1>8, <1>9, <1>10, <1>12, <1>2 DEF W

(* The code finds out which packet a number stands for.                    *)
LEMMA CycleIs ==
  ASSUME CountingAssumption, NEW s \in Statistics, NEW d \in Int, NEW b \in 0..(SeqWrap - 1),
         0 - (SeqWrap \div 2) < d, d < SeqWrap \div 2,
         s.highest % SeqWrap \in 0..(SeqWrap - 1),
         b - (s.highest % SeqWrap) \in {d, d - SeqWrap, d + SeqWrap}
  PROVE  /\ CycleOf(s, b) + b = s.highest + d
         /\ is_newer_packet(s.highest % SeqWrap, b) <=> d > 0
  <1> DEFINE W == SeqWrap  h == SeqWrap \div 2  a == s.highest % SeqWrap  diff == b - a
             n == s.highest
  <1>1. W \in Nat \ {0} /\ h \in Nat \ {0} /\ W = 2 * h
    BY Half
  <1>2. n \in Int /\ a \in 0..(W - 1) /\ b \in 0..(W - 1) /\ diff \in {d, d - W, d + W}
        /\ 0 - h < d /\ d < h
    BY DEF Statistics
  <1>3. is_newer_packet(a, b) <=> (diff > 0 /\ diff < h) \/ (diff < 0 /\ diff < -h)
    BY DEF is_newer_packet
  <1>4. CycleOf(s, b) = IF is_newer_packet(a, b)
                        THEN IF diff < 0 \/ diff >= h THEN n - a + W ELSE n - a
                        ELSE IF diff >= h THEN n - a - W ELSE n - a
    BY DEF CycleOf, WrappedForward, WrappedBackward
  <1> DEFINE newer == is_newer_packet(a, b)  cycle == CycleOf(s, b)
  <1>5. newer <=> (diff > 0 /\ diff < h) \/ (diff < 0 /\ diff < -h)
    BY <1>3
  <1>6. cycle = IF newer THEN IF diff < 0 \/ diff >= h THEN n - a + W ELSE n - a
                ELSE IF diff >= h THEN n - a - W ELSE n - a
    BY <1>4
  <1>7. diff = b - a
    OBVIOUS
  <1> HIDE DEF W, h, a, diff, n, newer, cycle
  <1>8. newer <=> d > 0
    BY <1>1, <1>2, <1>5, <1>7
  <1>9. cycle + b = n + d
    BY <1>1, <1>2, <1>5, <1>6, <1>7
  <1> QED BY <1>8, <1>9 DEF newer, cycle, n, a

(* Statistics with one more packet, which is above or below.               *)
Above(s, t, v) == [s EXCEPT !.total = t, !.highest = v]
Below(s, t, v) == [s EXCEPT !.total = t, !.base = v]

LEMMA FieldsChange ==
  ASSUME NEW s \in Statistics, NEW t \in Int, NEW v \in Int
  PROVE  LET up   == Above(s, t, v)
             down == Below(s, t, v)
         IN  /\ up \in Statistics /\ down \in Statistics
             /\ up.init_seq_num = s.init_seq_num /\ down.init_seq_num = s.init_seq_num
             /\ up.total = t /\ down.total = t /\ up.highest = v /\ down.base = v
             /\ up.base = s.base /\ down.highest = s.highest
             /\ up.last_total = s.last_total /\ up.last_expect = s.last_expect
             /\ down.last_total = s.last_total /\ down.last_expect = s.last_expect
  BY DEF Statistics, Above, Below

(* What counting makes of the statistics.                                  *)
LEMMA CountedIs ==
  ASSUME NEW s \in Statistics, s.init_seq_num, NEW b \in Int, CycleOf(s, b) \in Int
  PROVE  LET new   == CycleOf(s, b) + b
             newer == is_newer_packet(s.highest % SeqWrap, b)
         IN  /\ Counted(s, b) \in Statistics /\ Counted(s, b).init_seq_num
             /\ Counted(s, b).total = s.total + 1
             /\ Counted(s, b).last_total = s.last_total /\ Counted(s, b).last_expect = s.last_expect
             /\ newer => /\ Counted(s, b).base = s.base
                         /\ Counted(s, b).highest = IF new > s.highest THEN new ELSE s.highest
             /\ ~newer => /\ Counted(s, b).highest = s.highest
                          /\ Counted(s, b).base = IF new < s.base THEN new ELSE s.base
  <1> DEFINE new == CycleOf(s, b) + b  newer == is_newer_packet(s.highest % SeqWrap, b)
             higher == IF new > s.highest THEN new ELSE s.highest
             lower  == IF new < s.base THEN new ELSE s.base
  <1>1. new \in Int /\ s.highest \in Int /\ s.base \in Int /\ s.total \in Int
    BY DEF Statistics
  <1>2. higher \in Int /\ lower \in Int
    BY <1>1
  <1>3. CASE newer
    <2>1. Counted(s, b) = [[s EXCEPT !.total = @ + 1] EXCEPT !.highest = IF new > @ THEN new ELSE @]
      BY <1>3 DEF Counted
    <2>2. Counted(s, b) = Above(s, s.total + 1, higher)
      BY <2>1 DEF Statistics, Above
    <2>3. s.total + 1 \in Int
      BY <1>1
    <2>4. LET c == Above(s, s.total + 1, higher)
          IN  /\ c \in Statistics /\ c.init_seq_num /\ c.total = s.total + 1
              /\ c.last_total = s.last_total /\ c.last_expect = s.last_expect
              /\ c.highest = higher /\ c.base = s.base
      <3> HIDE DEF higher, lower, new, newer
      <3> QED BY <1>2, <2>3, FieldsChange
    <2>5. /\ Counted(s, b) \in Statistics /\ Counted(s, b).init_seq_num
          /\ Counted(s, b).total = s.total + 1
          /\ Counted(s, b).last_total = s.last_total /\ Counted(s, b).last_expect = s.last_expect
          /\ Counted(s, b).highest = higher /\ Counted(s, b).base = s.base
      <3> HIDE DEF higher, lower, new, newer
      <3> QED BY <2>2, <2>4, Zenon
    <2> QED BY <1>3, <2>5, Zenon
  <1>4. CASE ~newer
    <2>1. Counted(s, b) = [[s EXCEPT !.total = @ + 1] EXCEPT !.base = IF new < @ THEN new ELSE @]
      BY <1>4 DEF Counted
    <2>2. Counted(s, b) = Below(s, s.total + 1, lower)
      BY <2>1 DEF Statistics, Below
    <2>3. s.total + 1 \in Int
      BY <1>1
    <2>4. LET c == Below(s, s.total + 1, lower)
          IN  /\ c \in Statistics /\ c.init_seq_num /\ c.total = s.total + 1
              /\ c.last_total = s.last_total /\ c.last_expect = s.last_expect
              /\ c.base = lower /\ c.highest = s.highest
      <3> HIDE DEF higher, lower, new, newer
      <3> QED BY <1>2, <2>3, FieldsChange
    <2>5. /\ Counted(s, b) \in Statistics /\ Counted(s, b).init_seq_num
          /\ Counted(s, b).total = s.total + 1
          /\ Counted(s, b).last_total = s.last_total /\ Counted(s, b).last_expect = s.last_expect
          /\ Counted(s, b).base = lower /\ Counted(s, b).highest = s.highest
      <3> HIDE DEF higher, lower, new, newer
      <3> QED BY <2>2, <2>4, Zenon
    <2> QED BY <1>4, <2>5, Zenon
  <1> QED BY <1>3, <1>4

(* The first packet is the last and the first that came.                   *)
LEMMA NoStatistics ==
  /\ NoStats \in Statistics /\ ~NoStats.init_seq_num /\ NoStats.total = 0
  /\ NoStats.last_total = 0 /\ NoStats.last_expect = 0 /\ NoStats.highest = 0 /\ NoStats.base = 0
  BY DEF NoStats, Statistics

Begun(s, v) == [s EXCEPT !.init_seq_num = TRUE, !.highest = v, !.base = v]

LEMMA BegunIs ==
  ASSUME NEW s \in Statistics, NEW v \in Int
  PROVE  /\ Begun(s, v) \in Statistics /\ Begun(s, v).init_seq_num
         /\ Begun(s, v).highest = v /\ Begun(s, v).base = v /\ Begun(s, v).total = s.total
         /\ Begun(s, v).last_total = s.last_total /\ Begun(s, v).last_expect = s.last_expect
  BY DEF Statistics, Begun

LEMMA FirstIsCounted ==
  ASSUME CountingAssumption, NEW b \in 0..(SeqWrap - 1)
  PROVE  LET s == Counted(NoStats, b)
         IN  /\ s \in Statistics /\ s.init_seq_num /\ s.total = 1
             /\ s.highest = SeqWrap + b /\ s.base = SeqWrap + b
             /\ s.last_total = 0 /\ s.last_expect = 0
  <1> DEFINE v == SeqWrap + b  s == Begun(NoStats, v)
  <1>1. SeqWrap \in Nat \ {0} /\ SeqWrap \div 2 \in Nat \ {0} /\ v \in Int /\ b \in Int
    BY Half
  <1>2. /\ s \in Statistics /\ s.init_seq_num /\ s.highest = v /\ s.base = v /\ s.total = 0
        /\ s.last_total = 0 /\ s.last_expect = 0
    BY <1>1, BegunIs, NoStatistics
  <1>3. v % SeqWrap = b
    <2>1. SeqWrap*1 = SeqWrap /\ 1 \in Int
      BY <1>1
    <2>2. (SeqWrap*1 + b) % SeqWrap = b
      BY <1>1, RestOf
    <2> QED BY <2>1, <2>2, Zenon
  <1>4. ~is_newer_packet(b, b)
    BY <1>1 DEF is_newer_packet
  <1>5. CycleOf(s, b) = v - b
    <2>1. CycleOf(s, b) = IF WrappedBackward(b - b) THEN v - b - SeqWrap ELSE v - b
      BY <1>2, <1>3, <1>4, Zenon DEF CycleOf
    <2>2. ~WrappedBackward(b - b)
      BY <1>1 DEF WrappedBackward
    <2> QED BY <2>1, <2>2
  <1>6. CycleOf(s, b) \in Int /\ CycleOf(s, b) + b = v /\ ~is_newer_packet(s.highest % SeqWrap, b)
    <2> HIDE DEF v, s
    <2>1. CycleOf(s, b) = v - b
      BY <1>5 DEF s, v
    <2> QED BY <1>1, <1>2, <1>3, <1>4, <2>1
  <1>7. Counted(NoStats, b) = Counted(s, b)
    <2>1. s = [NoStats EXCEPT !.init_seq_num = TRUE, !.highest = SeqWrap + b, !.base = SeqWrap + b]
      BY DEF Begun
    <2> HIDE DEF s
    <2> QED BY <1>2, <2>1, NoStatistics, Zenon DEF Counted
  <1>8. LET c == Counted(s, b)
        IN  /\ c \in Statistics /\ c.init_seq_num /\ c.total = 0 + 1
            /\ c.last_total = 0 /\ c.last_expect = 0 /\ c.highest = v
            /\ c.base = IF v < v THEN v ELSE v
    <2> HIDE DEF s, v
    <2> QED BY <1>1, <1>2, <1>6, CountedIs
  <1> QED BY <1>7, <1>8

(* A packet that comes, what is printed left out.                          *)
Counts(i, s) ==
  /\ s \in Statistics /\ s.init_seq_num /\ s.total = stats.total + 1
  /\ s.last_total = stats.last_total /\ s.last_expect = stats.last_expect
  /\ Expected(stats) <= Expected(s)
  /\ \E latest, earliest \in 0..MaxSeq : Spans(s, came \cup {i}, latest, earliest)

LEMMA FirstCounts ==
  ASSUME CountingAssumption, NumbersInv, came = {}, NEW i \in 0..MaxSeq
  PROVE  Counts(i, Counted(stats, (first + i) % SeqWrap))
  <1> DEFINE b == (first + i) % SeqWrap  s == Counted(stats, b)
  <1>1. SeqWrap \in Nat \ {0} /\ first \in Int /\ i \in Int /\ first + i \in Int
    BY Half DEF NumbersInv
  <1>2. /\ (first + i) \div SeqWrap \in Int /\ b \in 0..(SeqWrap - 1)
        /\ first + i = SeqWrap * ((first + i) \div SeqWrap) + b
    BY <1>1, WholeAndRest
  <1>3. stats = NoStats
    BY DEF NumbersInv
  <1> HIDE DEF b
  <1>4. /\ s \in Statistics /\ s.init_seq_num /\ s.total = 1
        /\ s.highest = SeqWrap + b /\ s.base = SeqWrap + b /\ s.last_total = 0 /\ s.last_expect = 0
    BY <1>2, <1>3, FirstIsCounted
  <1> HIDE DEF s
  <1>5. Stands(s.highest, i)
    <2>1. SeqWrap*1 = SeqWrap /\ 1 \in Int
      BY <1>1
    <2>2. s.highest = SeqWrap*1 + b
      BY <1>4, <2>1
    <2> QED BY <1>2, <2>1, <2>2 DEF Stands
  <1>6. Spans(s, came \cup {i}, i, i)
    <2>1. s.highest - s.base = i - i
      BY <1>1, <1>2, <1>4
    <2> QED BY <1>1, <1>5, <2>1 DEF Spans
  <1>7. Expected(stats) <= Expected(s)
    <2>1. stats.highest = 0 /\ stats.base = 0
      BY <1>3, NoStatistics
    <2>2. SeqWrap + b \in Int
      BY <1>1, <1>2
    <2> QED BY <1>4, <2>1, <2>2 DEF Expected
  <1>8. stats.total = 0 /\ stats.last_total = 0 /\ stats.last_expect = 0
    BY <1>3, NoStatistics
  <1> QED BY <1>4, <1>6, <1>7, <1>8 DEF Counts, s, b

LEMMA OtherCounts ==
  ASSUME CountingAssumption, NumbersInv, came # {}, NEW i \in 0..MaxSeq,
         i - Max(came) < SeqWrap \div 2, Max(came) - i < SeqWrap \div 2
  PROVE  Counts(i, Counted(stats, (first + i) % SeqWrap))
  <1> DEFINE b == (first + i) % SeqWrap  s == Counted(stats, b)  n == stats.highest
             C == came \cup {i}
  <1>1. first \in Int /\ i \in Int /\ stats \in Statistics /\ stats.init_seq_num /\ n \in Int
        /\ stats.base \in Int
    BY Half DEF NumbersInv, Statistics
  <1>2. PICK l \in 0..MaxSeq, e \in 0..MaxSeq : Spans(stats, came, l, e)
    BY Zenon DEF NumbersInv
  <1>3. /\ l \in came /\ e \in came /\ \A k \in came : e <= k /\ k <= l
        /\ Stands(n, l) /\ n - stats.base = l - e /\ l \in Int /\ e \in Int
    BY <1>2 DEF Spans
  <1>4. Max(came) = l
    <2>1. came \in SUBSET Int
      BY DEF NumbersInv
    <2> QED BY <2>1, <1>3, GreatestAndLeast
  <1> DEFINE d == i - l
  <1>5. d \in Int /\ 0 - (SeqWrap \div 2) < d /\ d < SeqWrap \div 2 /\ l + d = i
    <2>1. SeqWrap \div 2 \in Int
      BY Half
    <2>2. i - l < SeqWrap \div 2 /\ l - i < SeqWrap \div 2
      BY <1>4
    <2> QED BY <1>1, <1>3, <2>1, <2>2
  <1>6. /\ b \in 0..(SeqWrap - 1) /\ n % SeqWrap \in 0..(SeqWrap - 1)
        /\ b - (n % SeqWrap) \in {d, d - SeqWrap, d + SeqWrap} /\ Stands(n + d, i)
    <2> HIDE DEF d
    <2> QED BY <1>1, <1>3, <1>5, NumberFollows
  <1> HIDE DEF b, d
  <1>7. CycleOf(stats, b) + b = n + d /\ (is_newer_packet(n % SeqWrap, b) <=> d > 0)
    BY <1>1, <1>5, <1>6, CycleIs
  <1>8. CycleOf(stats, b) \in Int /\ b \in Int
    <2>1. n - (n % SeqWrap) \in Int /\ SeqWrap \in Int /\ b \in Int
      BY <1>1, <1>6, Half
    <2> QED BY <2>1 DEF CycleOf
  <1>9. /\ s \in Statistics /\ s.init_seq_num /\ s.total = stats.total + 1
        /\ s.last_total = stats.last_total /\ s.last_expect = stats.last_expect
        /\ d > 0 => s.base = stats.base /\ s.highest = IF n + d > n THEN n + d ELSE n
        /\ ~(d > 0) => s.highest = n /\ s.base = IF n + d < stats.base THEN n + d ELSE stats.base
    BY <1>1, <1>7, <1>8, CountedIs
  <1> HIDE DEF s
  <1>10. CASE d > 0
    <2>1. s.base = stats.base /\ s.highest = n + d
      BY <1>1, <1>5, <1>9, <1>10
    <2>2. l < i /\ s.highest - s.base = i - e
      BY <1>1, <1>3, <1>5, <1>10, <2>1
    <2>3. \A k \in C : e <= k /\ k <= i
      <3>1. \A k \in came : k \in Int
        BY DEF NumbersInv
      <3> QED BY <1>1, <1>3, <2>2, <3>1
    <2>4. Spans(s, C, i, e)
      BY <1>3, <1>6, <2>1, <2>2, <2>3 DEF Spans
    <2>5. Expected(stats) <= Expected(s)
      BY <1>1, <1>5, <1>10, <2>1 DEF Expected
    <2> QED BY <1>9, <2>4, <2>5 DEF Counts, s, b
  <1>11. CASE ~(d > 0)
    <2> DEFINE f == IF i < e THEN i ELSE e
    <2>1. s.highest = n /\ s.base \in Int /\ s.base <= stats.base /\ n - s.base = l - f
      BY <1>1, <1>3, <1>5, <1>9, <1>11
    <2>2. f \in 0..MaxSeq /\ f \in C /\ i <= l
      BY <1>1, <1>3, <1>5, <1>11
    <2>3. \A k \in C : f <= k /\ k <= l
      <3>1. \A k \in came : k \in Int
        BY DEF NumbersInv
      <3> QED BY <1>1, <1>3, <2>2, <3>1
    <2>4. Spans(s, C, l, f)
      BY <1>3, <2>1, <2>2, <2>3 DEF Spans
    <2>5. Expected(stats) <= Expected(s)
      BY <1>1, <2>1 DEF Expected
    <2> QED BY <1>9, <2>2, <2>4, <2>5 DEF Counts, s, b
  <1> QED BY <1>10, <1>11

LEMMA PrintedIs ==
  ASSUME NEW s \in Statistics
  PROVE  /\ Printed(s) \in Statistics /\ (Printed(s).init_seq_num <=> s.init_seq_num)
         /\ Printed(s).total = s.total /\ Printed(s).highest = s.highest
         /\ Printed(s).base = s.base
         /\ Printed(s).last_total = s.total /\ Printed(s).last_expect = Expected(s)
         /\ Expected(s) \in Int
  <1>1. Expected(s) \in Int
    BY DEF Expected, Statistics
  <1> QED BY <1>1 DEF Printed, Statistics

LEMMA NumbersStep ==
  ASSUME CountingAssumption, NumbersInv, NEW i \in 0..MaxSeq, inno_data_packet_receive_stats(i)
  PROVE  NumbersInv'
  <1> DEFINE s == Counted(stats, (first + i) % SeqWrap)
  <1>1. /\ came' = came \cup {i} /\ first' = first
        /\ stats' = s \/ stats' = Printed(s)
    BY DEF inno_data_packet_receive_stats
  <1>2. Counts(i, s)
    <2>1. CASE came = {}
      BY <2>1, FirstCounts
    <2>2. CASE came # {}
      BY <2>2, OtherCounts DEF inno_data_packet_receive_stats
    <2> QED BY <2>1, <2>2
  <1> HIDE DEF s
  <1>3. /\ s \in Statistics /\ s.init_seq_num /\ s.total = stats.total + 1
        /\ s.last_total = stats.last_total /\ s.last_expect = stats.last_expect
        /\ Expected(stats) <= Expected(s)
    BY <1>2 DEF Counts
  <1>4. PICK l \in 0..MaxSeq, e \in 0..MaxSeq : Spans(s, came', l, e)
    BY <1>1, <1>2, Zenon DEF Counts
  <1>5. /\ stats.last_total <= stats.total /\ stats.last_expect <= Expected(stats)
        /\ stats.total \in Int /\ stats.last_total \in Int /\ stats.last_expect \in Int
        /\ Expected(stats) \in Int /\ Expected(s) \in Int
    BY <1>3 DEF NumbersInv, Expected, Statistics
  <1>6. /\ stats' \in Statistics /\ stats'.init_seq_num
        /\ stats'.total = s.total /\ stats'.highest = s.highest /\ stats'.base = s.base
        /\ stats'.last_total <= stats'.total /\ stats'.last_expect <= Expected(s)
    <2>1. CASE stats' = s
      BY <2>1, <1>3, <1>5
    <2>2. CASE stats' = Printed(s)
      <3>1. s.total \in Int
        BY <1>3, <1>5
      <3> QED BY <2>2, <3>1, <1>3, PrintedIs
    <2> QED BY <1>1, <2>1, <2>2
  <1>7. Expected(stats') = Expected(s)
    BY <1>6 DEF Expected
  <1>8. Spans(stats, came, l, e)'
    <2>1. Stands(s.highest, l)
      BY <1>4 DEF Spans
    <2>2. Stands(stats'.highest, l)
      BY <1>6, <2>1, Zenon
    <2>3. Stands(stats.highest, l)'
      BY <1>1, <2>2, Zenon DEF Stands
    <2> QED BY <1>4, <1>6, <2>3 DEF Spans
  <1>9. IsFiniteSet(came') /\ Cardinality(came') <= stats'.total
    <2>1. IsFiniteSet(came) /\ Cardinality(came) <= stats.total
      BY DEF NumbersInv
    <2>2. /\ IsFiniteSet(came') /\ Cardinality(came) \in Nat
          /\ Cardinality(came') = IF i \in came THEN Cardinality(came) ELSE Cardinality(came) + 1
      BY <1>1, <2>1, FS_AddElement, FS_CardinalityType
    <2> QED BY <1>3, <1>5, <1>6, <2>1, <2>2
  <1>10. first' \in 0..(SeqWrap - 1) /\ came' \subseteq 0..MaxSeq /\ came' # {}
    BY <1>1 DEF NumbersInv
  <1>11. \E latest, earliest \in 0..MaxSeq : Spans(stats, came, latest, earliest)'
    BY <1>8, Zenon
  <1> QED BY <1>6, <1>7, <1>9, <1>10, <1>11 DEF NumbersInv

LEMMA NumbersTell == ASSUME NumbersInv PROVE ExpectedIsTrue
  <1> SUFFICES ASSUME came # {}
               PROVE  /\ Expected(stats) = Max(came) - Min(came) + 1
                      /\ stats.total >= Cardinality(came)
                      /\ stats.last_total <= stats.total /\ stats.last_expect <= Expected(stats)
    BY DEF ExpectedIsTrue
  <1>1. PICK l \in 0..MaxSeq, e \in 0..MaxSeq : Spans(stats, came, l, e)
    BY Zenon DEF NumbersInv
  <1>2. Max(came) = l /\ Min(came) = e
    <2>1. came \in SUBSET Int
      BY DEF NumbersInv
    <2> QED BY <1>1, <2>1, GreatestAndLeast DEF Spans
  <1>3. stats.highest \in Int /\ stats.base \in Int /\ stats.highest - stats.base = l - e
    BY <1>1 DEF NumbersInv, Statistics, Spans
  <1>4. Expected(stats) = l - e + 1
    BY <1>3 DEF Expected
  <1>5. Cardinality(came) \in Nat /\ stats.total \in Int
    BY FS_CardinalityType DEF NumbersInv, Statistics
  <1> QED BY <1>2, <1>4, <1>5 DEF NumbersInv

-----------------------------------------------------------------------------
(* What is missed, as sets of any packets (PacketStats).                   *)
Packages == (1..MaxFrame) \X (0..MaxSub)
FramesOf(G)  == {p[1] : p \in G}
PartsOf(G, f) == {p[2] : p \in {q \in G : q[1] = f}}
FramesGone(G) == {f \in 1..MaxFrame : f \notin FramesOf(G) /\ Inside(FramesOf(G), f)}
EndsGone(G) == {f \in FramesOf(G) : MaxSub \notin PartsOf(G, f) /\ \E g \in FramesOf(G) : f < g}
PartsGone(G) ==
  {p \in FramesOf(G) \X (0..MaxSub) : p[2] \notin PartsOf(G, p[1]) /\ Inside(PartsOf(G, p[1]), p[2])}

(* Nothing of G comes after its part u of frame f.                         *)
LastOf(G, f, u) ==
  <<f, u>> \in G /\ \A h \in 1..MaxFrame : \A v \in 0..MaxSub :
                      <<h, v>> \in G => h < f \/ (h = f /\ v <= u)

LEMMA FramesAndParts ==
  ASSUME NEW G \in SUBSET Packages
  PROVE  /\ \A f : f \in FramesOf(G) <=> f \in 1..MaxFrame /\ \E u \in 0..MaxSub : <<f, u>> \in G
         /\ \A f, u : u \in PartsOf(G, f) <=> u \in 0..MaxSub /\ <<f, u>> \in G
         /\ \A f, u : <<f, u>> \in G => f \in 1..MaxFrame /\ u \in 0..MaxSub
  <1>1. \A p \in G : p = <<p[1], p[2]>> /\ p[1] \in 1..MaxFrame /\ p[2] \in 0..MaxSub
    BY DEF Packages
  <1>2. \A f, u : <<f, u>>[1] = f /\ <<f, u>>[2] = u
    OBVIOUS
  <1>3. \A f, u : <<f, u>> \in G => f \in 1..MaxFrame /\ u \in 0..MaxSub
    BY <1>1, <1>2
  <1>4. ASSUME NEW f PROVE f \in FramesOf(G) <=> f \in 1..MaxFrame /\ \E u \in 0..MaxSub : <<f, u>> \in G
    <2>1. ASSUME f \in FramesOf(G) PROVE f \in 1..MaxFrame /\ \E u \in 0..MaxSub : <<f, u>> \in G
      <3>1. PICK p \in G : p[1] = f
        BY <2>1 DEF FramesOf
      <3> QED BY <1>1, <3>1
    <2>2. ASSUME NEW u, <<f, u>> \in G PROVE f \in FramesOf(G)
      BY <1>2, <2>2 DEF FramesOf
    <2> QED BY <2>1, <2>2
  <1>5. ASSUME NEW f, NEW u PROVE u \in PartsOf(G, f) <=> u \in 0..MaxSub /\ <<f, u>> \in G
    <2>1. ASSUME u \in PartsOf(G, f) PROVE u \in 0..MaxSub /\ <<f, u>> \in G
      <3>1. PICK p \in G : p[1] = f /\ p[2] = u
        BY <2>1 DEF PartsOf
      <3> QED BY <1>1, <3>1
    <2>2. ASSUME <<f, u>> \in G PROVE u \in PartsOf(G, f)
      BY <1>2, <2>2 DEF PartsOf
    <2> QED BY <2>1, <2>2
  <1> QED BY <1>3, <1>4, <1>5, Zenon

LEMMA GoneAre ==
  ASSUME NEW G \in SUBSET Packages
  PROVE  /\ \A f : f \in FramesGone(G) <=>
              f \in 1..MaxFrame /\ f \notin FramesOf(G) /\ Inside(FramesOf(G), f)
         /\ \A f : f \in EndsGone(G) <=>
              f \in FramesOf(G) /\ <<f, MaxSub>> \notin G /\ \E g \in FramesOf(G) : f < g
         /\ \A f, u : <<f, u>> \in PartsGone(G) <=>
              f \in FramesOf(G) /\ u \in 0..MaxSub /\ <<f, u>> \notin G /\ Inside(PartsOf(G, f), u)
         /\ \A p \in PartsGone(G) : p = <<p[1], p[2]>>
  <1>1. ASSUME NEW f
        PROVE  f \in FramesGone(G) <=>
                 f \in 1..MaxFrame /\ f \notin FramesOf(G) /\ Inside(FramesOf(G), f)
    BY DEF FramesGone
  <1>2. ASSUME NEW f, f \in FramesOf(G) PROVE MaxSub \in PartsOf(G, f) <=> <<f, MaxSub>> \in G
    BY FramesAndParts, Zenon
  <1>3. ASSUME NEW f
        PROVE  f \in EndsGone(G) <=>
                 f \in FramesOf(G) /\ <<f, MaxSub>> \notin G /\ \E g \in FramesOf(G) : f < g
    BY <1>2, Zenon DEF EndsGone
  <1>4. ASSUME NEW f, NEW u
        PROVE  <<f, u>> \in PartsGone(G) <=>
                 f \in FramesOf(G) /\ u \in 0..MaxSub /\ <<f, u>> \notin G /\ Inside(PartsOf(G, f), u)
    <2>1. <<f, u>>[1] = f /\ <<f, u>>[2] = u
      OBVIOUS
    <2>2. <<f, u>> \in PartsGone(G) <=>
            f \in FramesOf(G) /\ u \in 0..MaxSub /\ u \notin PartsOf(G, f) /\ Inside(PartsOf(G, f), u)
      BY <2>1 DEF PartsGone
    <2>3. u \in PartsOf(G, f) <=> u \in 0..MaxSub /\ <<f, u>> \in G
      BY FramesAndParts, Zenon
    <2> QED BY <2>2, <2>3
  <1>5. \A p \in PartsGone(G) : p = <<p[1], p[2]>>
    BY DEF PartsGone
  <1> QED BY <1>1, <1>3, <1>4, <1>5, Zenon

EndIsGone(G, f) ==
  f \in FramesOf(G) /\ <<f, MaxSub>> \notin G /\ \E x \in FramesOf(G) : f < x

LEMMA EndsAre ==
  ASSUME NEW G \in SUBSET Packages, NEW f
  PROVE  f \in EndsGone(G) <=> EndIsGone(G, f)
  <1>1. f \in EndsGone(G) <=>
          f \in FramesOf(G) /\ <<f, MaxSub>> \notin G /\ \E x \in FramesOf(G) : f < x
    BY GoneAre
  <1> QED BY <1>1, Zenon DEF EndIsGone

(* The finite sets.                                                        *)
LEMMA GoneAreFinite ==
  ASSUME NEW G \in SUBSET Packages, CountingAssumption
  PROVE  /\ IsFiniteSet(FramesOf(G)) /\ IsFiniteSet(FramesGone(G))
         /\ IsFiniteSet(EndsGone(G)) /\ IsFiniteSet(PartsGone(G))
  <1>1. IsFiniteSet(1..MaxFrame) /\ IsFiniteSet(0..MaxSub)
    BY FS_Interval DEF CountingAssumption
  <1>2. IsFiniteSet(Packages)
    BY <1>1, FS_Product DEF Packages
  <1>3. FramesOf(G) \subseteq 1..MaxFrame
    BY FramesAndParts, Zenon
  <1>4. FramesGone(G) \subseteq 1..MaxFrame /\ EndsGone(G) \subseteq 1..MaxFrame
    BY <1>3 DEF FramesGone, EndsGone
  <1>5. PartsGone(G) \subseteq Packages
    BY <1>3 DEF PartsGone, Packages
  <1>6. \A S, T : S \subseteq T /\ IsFiniteSet(T) => IsFiniteSet(S)
    BY FS_Subset, Zenon
  <1> QED BY <1>1, <1>2, <1>3, <1>4, <1>5, <1>6, Zenon

LEMMA Together ==
  ASSUME NEW A, NEW B, IsFiniteSet(A), IsFiniteSet(B), A \cap B = {}
  PROVE  Cardinality(A \cup B) = Cardinality(A) + Cardinality(B)
         /\ Cardinality(A) \in Nat /\ Cardinality(B) \in Nat
  <1>1. /\ Cardinality(A \cup B) = Cardinality(A) + Cardinality(B) - Cardinality(A \cap B)
        /\ Cardinality(A) \in Nat /\ Cardinality(B) \in Nat /\ Cardinality({}) = 0
    BY FS_Union, FS_CardinalityType, FS_EmptySet
  <1> DEFINE a == Cardinality(A)  b == Cardinality(B)  c == Cardinality(A \cup B)
  <1>2. Cardinality(A \cap B) = 0
    BY <1>1, Zenon
  <1>3. c = a + b - 0 /\ a \in Nat /\ b \in Nat
    BY <1>1, <1>2, Zenon
  <1> HIDE DEF a, b, c
  <1>4. c = a + b
    BY <1>3
  <1> QED BY <1>3, <1>4, Zenon DEF a, b, c

(* Something later comes: what is inside then, and was not.                *)
LEMMA LaterComes ==
  ASSUME NEW S \in SUBSET Int, NEW u \in S, \A x \in S : x <= u, NEW v \in Int, u < v,
         NEW w \in Int, NEW T, \A x : x \in T <=> x \in S \/ x = v
  PROVE  w \notin T /\ Inside(T, w) <=>
           (w \notin S /\ Inside(S, w)) \/ w \in (u + 1)..(v - 1)
  <1>1. ASSUME w \notin S, Inside(S, w) PROVE w \notin T /\ Inside(T, w)
    <2>1. PICK a \in S, b \in S : a < w /\ w < b
      BY <1>1 DEF Inside
    <2>2. w < v /\ a \in T /\ b \in T
      BY <2>1
    <2>3. w \notin T
      BY <1>1, <2>2
    <2> QED BY <2>1, <2>2, <2>3 DEF Inside
  <1>2. ASSUME w \in (u + 1)..(v - 1) PROVE w \notin T /\ Inside(T, w)
    <2>1. u < w /\ w < v /\ w \notin S /\ w # v
      BY <1>2
    <2>2. u \in T /\ v \in T
      OBVIOUS
    <2> QED BY <2>1, <2>2 DEF Inside
  <1>3. ASSUME w \notin T, Inside(T, w), ~(w \in (u + 1)..(v - 1))
        PROVE  w \notin S /\ Inside(S, w)
    <2>1. PICK a \in T, b \in T : a < w /\ w < b
      BY <1>3 DEF Inside
    <2>2. w # u /\ w # v /\ w \notin S
      BY <1>3
    <2>3. w < v
      <3>1. b \in S \/ b = v
        BY <2>1
      <3>2. b \in S => b \in Int /\ b <= u /\ u \in Int
        OBVIOUS
      <3> QED BY <2>1, <3>1, <3>2
    <2>4. w < u
      <3>1. ~(u + 1 <= w /\ w <= v - 1) /\ u \in Int
        BY <1>3
      <3> QED BY <2>2, <2>3, <3>1
    <2>5. a \in S
      BY <2>1, <2>4
    <2> QED BY <2>1, <2>2, <2>4, <2>5 DEF Inside
  <1> QED BY <1>1, <1>2, <1>3

LEMMA Between ==
  ASSUME NEW a \in Int, NEW b \in Int, a < b, NEW x
  PROVE  /\ IsFiniteSet((a + 1)..(b - 1)) /\ Cardinality((a + 1)..(b - 1)) = b - (a + 1)
         /\ IsFiniteSet({x} \X ((a + 1)..(b - 1)))
         /\ Cardinality({x} \X ((a + 1)..(b - 1))) = b - (a + 1)
  <1>1. IsFiniteSet((a + 1)..(b - 1)) /\ Cardinality((a + 1)..(b - 1)) = b - (a + 1)
    BY FS_Interval
  <1>2. IsFiniteSet({x}) /\ Cardinality({x}) = 1
    BY FS_Singleton
  <1>3. /\ IsFiniteSet({x} \X ((a + 1)..(b - 1)))
        /\ Cardinality({x} \X ((a + 1)..(b - 1))) = 1 * (b - (a + 1))
    <2> DEFINE s == {x}  t == (a + 1)..(b - 1)
    <2>1. IsFiniteSet(s) /\ IsFiniteSet(t) /\ Cardinality(s) = 1 /\ Cardinality(t) = b - (a + 1)
      BY <1>1, <1>2, Zenon
    <2> HIDE DEF s, t
    <2>2. IsFiniteSet(s \X t) /\ Cardinality(s \X t) = Cardinality(s) * Cardinality(t)
      BY <2>1, FS_Product, Zenon
    <2> QED BY <2>1, <2>2, Zenon DEF s, t
  <1> QED BY <1>1, <1>3

LEMMA LastIs ==
  ASSUME NEW G \in SUBSET Packages, NEW f \in 1..MaxFrame, NEW u \in 0..MaxSub, LastOf(G, f, u)
  PROVE  /\ f \in FramesOf(G) /\ FramesOf(G) \in SUBSET Int
         /\ \A h \in FramesOf(G) : h <= f
         /\ u \in PartsOf(G, f) /\ PartsOf(G, f) \in SUBSET Int
         /\ \A x \in PartsOf(G, f) : x <= u
  <1>1. <<f, u>> \in G /\ \A h \in 1..MaxFrame : \A v \in 0..MaxSub :
                            <<h, v>> \in G => h < f \/ (h = f /\ v <= u)
    BY DEF LastOf
  <1>2. \A h : h \in FramesOf(G) <=> h \in 1..MaxFrame /\ \E x \in 0..MaxSub : <<h, x>> \in G
    BY FramesAndParts, Zenon
  <1>3. \A x : x \in PartsOf(G, f) <=> x \in 0..MaxSub /\ <<f, x>> \in G
    BY FramesAndParts, Zenon
  <1>4. \A h \in FramesOf(G) : h <= f
    <2> SUFFICES ASSUME NEW h \in FramesOf(G) PROVE h <= f
      OBVIOUS
    <2>1. PICK x \in 0..MaxSub : <<h, x>> \in G
      BY <1>2, Zenon
    <2>2. h \in 1..MaxFrame
      BY <1>2, Zenon
    <2>3. h < f \/ h = f
      BY <1>1, <2>1, <2>2
    <2> QED BY <2>2, <2>3
  <1>5. \A x \in PartsOf(G, f) : x <= u
    <2> SUFFICES ASSUME NEW x \in PartsOf(G, f) PROVE x <= u
      OBVIOUS
    <2>1. x \in 0..MaxSub /\ <<f, x>> \in G
      BY <1>3, Zenon
    <2>2. f < f \/ x <= u
      BY <1>1, <2>1
    <2> QED BY <2>2
  <1>6. f \in FramesOf(G) /\ u \in PartsOf(G, f)
    BY <1>1, <1>2, <1>3, Zenon
  <1>7. FramesOf(G) \in SUBSET Int /\ PartsOf(G, f) \in SUBSET Int
    <2>1. FramesOf(G) \subseteq 1..MaxFrame /\ PartsOf(G, f) \subseteq 0..MaxSub
      BY <1>2, <1>3, Zenon
    <2> QED BY <2>1
  <1> QED BY <1>4, <1>5, <1>6, <1>7

(* What it means for a part, or a frame, to come after the last one.       *)
PartAdded(G, H, f, u, v) ==
  /\ H \in SUBSET Packages /\ LastOf(H, f, v)
  /\ FramesOf(H) = FramesOf(G) /\ FramesGone(H) = FramesGone(G)
  /\ EndsGone(H) = EndsGone(G)
  /\ Cardinality(PartsGone(H)) = Cardinality(PartsGone(G)) + (v - (u + 1))

FrameAdded(G, H, f, u, g, v) ==
  /\ H \in SUBSET Packages /\ LastOf(H, g, v)
  /\ Cardinality(FramesOf(H)) = Cardinality(FramesOf(G)) + 1
  /\ Cardinality(FramesGone(H)) = Cardinality(FramesGone(G)) + (g - (f + 1))
  /\ Cardinality(EndsGone(H)) = Cardinality(EndsGone(G)) + (IF u = MaxSub THEN 0 ELSE 1)
  /\ PartsGone(H) = PartsGone(G)

(* One part more, of the frame of the last part.                           *)
LEMMA PartComes ==
  ASSUME CountingAssumption, NEW G \in SUBSET Packages, NEW f \in 1..MaxFrame,
         NEW u \in 0..MaxSub, LastOf(G, f, u), NEW v \in 0..MaxSub, u < v
  PROVE  PartAdded(G, G \cup {<<f, v>>}, f, u, v)
  <1> DEFINE H == G \cup {<<f, v>>}
  <1>1. H \in SUBSET Packages
    BY DEF Packages
  <1>2. \A h, w : <<h, w>> \in H <=> <<h, w>> \in G \/ (h = f /\ w = v)
    OBVIOUS
  <1>3. <<f, u>> \in G /\ \A h \in 1..MaxFrame : \A w \in 0..MaxSub :
                            <<h, w>> \in G => h < f \/ (h = f /\ w <= u)
    BY DEF LastOf
  <1> HIDE DEF H
  <1>4. LastOf(H, f, v)
    BY <1>2, <1>3 DEF LastOf
  <1>5. FramesOf(H) = FramesOf(G)
    <2>1. \A h : h \in FramesOf(H) <=> h \in FramesOf(G)
      BY <1>1, <1>2, <1>3, FramesAndParts
    <2> QED BY <2>1
  <1>6. FramesGone(H) = FramesGone(G)
    BY <1>5 DEF FramesGone
  <1>7. \A h \in FramesOf(G) : h <= f /\ h \in Int
    BY LastIs
  <1>8. EndsGone(H) = EndsGone(G)
    <2>1. ASSUME NEW h PROVE h \in EndsGone(H) <=> h \in EndsGone(G)
      <3>1. h \in EndsGone(H) <=> h \in FramesOf(G) /\ <<h, MaxSub>> \notin H /\ \E g \in FramesOf(G) : h < g
        BY <1>1, <1>5, GoneAre
      <3>2. h \in EndsGone(G) <=> h \in FramesOf(G) /\ <<h, MaxSub>> \notin G /\ \E g \in FramesOf(G) : h < g
        BY GoneAre
      <3>3. h = f => ~ \E g \in FramesOf(G) : h < g
        BY <1>7
      <3> QED BY <1>2, <3>1, <3>2, <3>3
    <2> QED BY <2>1
  <1>9. PartsGone(H) = PartsGone(G) \cup ({f} \X ((u + 1)..(v - 1)))
    <2>1. ASSUME NEW h, NEW w
          PROVE  <<h, w>> \in PartsGone(H) <=> <<h, w>> \in PartsGone(G) \cup ({f} \X ((u + 1)..(v - 1)))
      <3>1. <<h, w>> \in {f} \X ((u + 1)..(v - 1)) <=> h = f /\ w \in (u + 1)..(v - 1)
        OBVIOUS
      <3>2. <<h, w>> \in PartsGone(H) <=>
              h \in FramesOf(G) /\ w \in 0..MaxSub /\ <<h, w>> \notin H /\ Inside(PartsOf(H, h), w)
        BY <1>1, <1>5, GoneAre
      <3>3. <<h, w>> \in PartsGone(G) <=>
              h \in FramesOf(G) /\ w \in 0..MaxSub /\ <<h, w>> \notin G /\ Inside(PartsOf(G, h), w)
        BY GoneAre
      <3>4. h # f => PartsOf(H, h) = PartsOf(G, h)
        <4>1. \A x : x \in PartsOf(H, h) <=> x \in 0..MaxSub /\ <<h, x>> \in H
          BY <1>1, FramesAndParts
        <4>2. \A x : x \in PartsOf(G, h) <=> x \in 0..MaxSub /\ <<h, x>> \in G
          BY FramesAndParts
        <4> QED BY <1>2, <4>1, <4>2
      <3>5. CASE h # f
        BY <1>2, <3>1, <3>2, <3>3, <3>4, <3>5
      <3>6. CASE h = f
        <4>1. \A x : x \in PartsOf(H, f) <=> x \in 0..MaxSub /\ <<f, x>> \in H
          BY <1>1, FramesAndParts, Zenon
        <4>2. \A x : x \in PartsOf(G, f) <=> x \in 0..MaxSub /\ <<f, x>> \in G
          BY FramesAndParts, Zenon
        <4>3. /\ f \in FramesOf(G) /\ u \in PartsOf(G, f) /\ PartsOf(G, f) \in SUBSET Int
              /\ \A x \in PartsOf(G, f) : x <= u
          BY LastIs
        <4>4. \A x : x \in PartsOf(H, f) <=> x \in PartsOf(G, f) \/ x = v
          BY <1>2, <4>1, <4>2, Zenon
        <4>5. w \in 0..MaxSub =>
                (w \notin PartsOf(H, f) /\ Inside(PartsOf(H, f), w) <=>
                   \/ w \notin PartsOf(G, f) /\ Inside(PartsOf(G, f), w)
                   \/ w \in (u + 1)..(v - 1))
          <5>1. u \in Int /\ v \in Int /\ (w \in 0..MaxSub => w \in Int)
            OBVIOUS
          <5> QED BY <4>3, <4>4, <5>1, LaterComes
        <4>6. w \in (u + 1)..(v - 1) => w \in 0..MaxSub
          BY DEF CountingAssumption
        <4> QED BY <3>1, <3>2, <3>3, <3>6, <4>1, <4>2, <4>3, <4>5, <4>6, Zenon
      <3> QED BY <3>5, <3>6
    <2>2. \A p \in PartsGone(H) : p = <<p[1], p[2]>>
      BY <1>1, GoneAre
    <2>3. \A p \in PartsGone(G) \cup ({f} \X ((u + 1)..(v - 1))) : p = <<p[1], p[2]>>
      BY GoneAre
    <2> QED BY <2>1, <2>2, <2>3
  <1>10. PartsGone(G) \cap ({f} \X ((u + 1)..(v - 1))) = {}
    <2>1. ASSUME NEW w, <<f, w>> \in PartsGone(G), w \in (u + 1)..(v - 1) PROVE FALSE
      <3>1. Inside(PartsOf(G, f), w)
        BY <2>1, GoneAre
      <3>2. PICK x \in PartsOf(G, f) : w < x
        BY <3>1 DEF Inside
      <3>3. x \in Int /\ x <= u
        BY LastIs
      <3> QED BY <2>1, <3>2, <3>3
    <2>2. ASSUME NEW p \in PartsGone(G), p \in {f} \X ((u + 1)..(v - 1)) PROVE FALSE
      <3>1. p[1] = f /\ p[2] \in (u + 1)..(v - 1) /\ p = <<p[1], p[2]>>
        BY <2>2, GoneAre
      <3> QED BY <2>1, <2>2, <3>1
    <2> QED BY <2>2
  <1>11. Cardinality(PartsGone(H)) = Cardinality(PartsGone(G)) + (v - (u + 1))
    <2>1. u \in Int /\ v \in Int
      OBVIOUS
    <2>2. /\ IsFiniteSet({f} \X ((u + 1)..(v - 1)))
          /\ Cardinality({f} \X ((u + 1)..(v - 1))) = v - (u + 1)
      BY <2>1, Between
    <2> QED BY <1>9, <1>10, <2>2, GoneAreFinite, Together
  <1> QED BY <1>1, <1>4, <1>5, <1>6, <1>8, <1>11 DEF H, PartAdded

(* A later frame begins, with any part of it.                              *)
LEMMA FrameComes ==
  ASSUME CountingAssumption, NEW G \in SUBSET Packages, NEW f \in 1..MaxFrame,
         NEW u \in 0..MaxSub, LastOf(G, f, u), NEW g \in 1..MaxFrame, f < g, NEW v \in 0..MaxSub
  PROVE  FrameAdded(G, G \cup {<<g, v>>}, f, u, g, v)
  <1> DEFINE H == G \cup {<<g, v>>}
  <1>1. H \in SUBSET Packages
    BY DEF Packages
  <1>2. \A h, w : <<h, w>> \in H <=> <<h, w>> \in G \/ (h = g /\ w = v)
    OBVIOUS
  <1>3. <<f, u>> \in G /\ \A h \in 1..MaxFrame : \A w \in 0..MaxSub :
                            <<h, w>> \in G => h < f \/ (h = f /\ w <= u)
    BY DEF LastOf
  <1> HIDE DEF H
  <1>4. LastOf(H, g, v)
    <2>1. ASSUME NEW h \in 1..MaxFrame, NEW w \in 0..MaxSub, <<h, w>> \in H
          PROVE  h < g \/ (h = g /\ w <= v)
      <3>1. CASE <<h, w>> \in G
        BY <1>3, <3>1
      <3>2. CASE h = g /\ w = v
        BY <3>2
      <3> QED BY <1>2, <2>1, <3>1, <3>2
    <2>2. <<g, v>> \in H
      BY <1>2
    <2> QED BY <2>1, <2>2 DEF LastOf
  <1>5. /\ f \in FramesOf(G) /\ FramesOf(G) \in SUBSET Int
        /\ \A h \in FramesOf(G) : h <= f
    BY LastIs
  <1>6. g \notin FramesOf(G) /\ f \in Int /\ g \in Int
    BY <1>5
  <1>7. \A h : h \in FramesOf(H) <=> h \in FramesOf(G) \/ h = g
    <2>1. ASSUME NEW h PROVE h \in FramesOf(H) <=> h \in FramesOf(G) \/ h = g
      <3>1. h \in FramesOf(H) <=> h \in 1..MaxFrame /\ \E w \in 0..MaxSub : <<h, w>> \in H
        BY <1>1, FramesAndParts, Zenon
      <3>2. h \in FramesOf(G) <=> h \in 1..MaxFrame /\ \E w \in 0..MaxSub : <<h, w>> \in G
        BY FramesAndParts, Zenon
      <3> QED BY <1>2, <3>1, <3>2, Zenon
    <2> QED BY <2>1, Zenon
  <1>8. Cardinality(FramesOf(H)) = Cardinality(FramesOf(G)) + 1
    <2>1. FramesOf(H) = FramesOf(G) \cup {g}
      BY <1>7
    <2>2. IsFiniteSet(FramesOf(G))
      BY GoneAreFinite
    <2> QED BY <1>6, <2>1, <2>2, FS_AddElement
  <1>9. FramesGone(H) = FramesGone(G) \cup ((f + 1)..(g - 1))
    <2>1. ASSUME NEW h \in Int
          PROVE  h \in FramesGone(H) <=> h \in FramesGone(G) \/ h \in (f + 1)..(g - 1)
      <3>1. h \notin FramesOf(H) /\ Inside(FramesOf(H), h) <=>
              (h \notin FramesOf(G) /\ Inside(FramesOf(G), h)) \/ h \in (f + 1)..(g - 1)
        BY <1>5, <1>6, <1>7, LaterComes
      <3>2. h \in (f + 1)..(g - 1) => h \in 1..MaxFrame
        BY DEF CountingAssumption
      <3> QED BY <3>1, <3>2, Zenon DEF FramesGone
    <2>2. FramesGone(H) \subseteq Int /\ FramesGone(G) \subseteq Int
      BY DEF FramesGone
    <2> QED BY <2>1, <2>2
  <1>10. FramesGone(G) \cap ((f + 1)..(g - 1)) = {}
    <2>1. ASSUME NEW h \in FramesGone(G), h \in (f + 1)..(g - 1) PROVE FALSE
      <3>1. PICK x \in FramesOf(G) : h < x
        BY <2>1 DEF FramesGone, Inside
      <3>2. x \in Int /\ x <= f /\ f \in Int
        BY <1>5
      <3>3. h \in Int /\ f < h
        BY <2>1
      <3> QED BY <3>1, <3>2, <3>3
    <2> QED BY <2>1
  <1>11. Cardinality(FramesGone(H)) = Cardinality(FramesGone(G)) + (g - (f + 1))
    <2>1. /\ IsFiniteSet((f + 1)..(g - 1)) /\ Cardinality((f + 1)..(g - 1)) = g - (f + 1)
      BY <1>6, Between
    <2>2. IsFiniteSet(FramesGone(G))
      BY GoneAreFinite
    <2>3. Cardinality(FramesGone(H)) = Cardinality(FramesGone(G)) + Cardinality((f + 1)..(g - 1))
      BY <1>9, <1>10, <2>1, <2>2, Together
    <2> QED BY <2>1, <2>3, Zenon
  <1>12. <<f, MaxSub>> \in G <=> u = MaxSub
    <2>1. MaxSub \in 0..MaxSub /\ f \in 1..MaxFrame
      BY DEF CountingAssumption
    <2>2. ASSUME <<f, MaxSub>> \in G PROVE u = MaxSub
      <3>1. f < f \/ MaxSub <= u
        BY <1>3, <2>1, <2>2
      <3> QED BY <1>6, <2>1, <3>1
    <2> QED BY <1>3, <2>2
  <1>13. \A h : h \in EndsGone(H) <=> h \in EndsGone(G) \/ (h = f /\ u # MaxSub)
    <2>1. ASSUME NEW h PROVE h \in EndsGone(H) <=> h \in EndsGone(G) \/ (h = f /\ u # MaxSub)
      <3>1. h \in EndsGone(H) <=>
              h \in FramesOf(H) /\ <<h, MaxSub>> \notin H /\ \E x \in FramesOf(H) : h < x
        <4>1. h \in EndsGone(H) <=> EndIsGone(H, h)
          BY <1>1, EndsAre, Zenon
        <4> QED BY <4>1, Zenon DEF EndIsGone
      <3>2. h \in EndsGone(G) <=>
              h \in FramesOf(G) /\ <<h, MaxSub>> \notin G /\ \E x \in FramesOf(G) : h < x
        <4>1. h \in EndsGone(G) <=> EndIsGone(G, h)
          BY EndsAre, Zenon
        <4> QED BY <4>1, Zenon DEF EndIsGone
      <3>3. ASSUME h \in FramesOf(G)
            PROVE  /\ \E x \in FramesOf(H) : h < x
                   /\ <<h, MaxSub>> \in H <=> <<h, MaxSub>> \in G
                   /\ h # f => \E x \in FramesOf(G) : h < x
                   /\ h = f => ~ \E x \in FramesOf(G) : h < x
        <4>1. h \in Int /\ h <= f /\ h < g /\ h # g
          BY <1>5, <1>6, <3>3
        <4>2. g \in FramesOf(H)
          BY <1>7
        <4>3. h # f => h < f
          BY <1>6, <4>1
        <4> QED BY <1>2, <1>5, <4>1, <4>2, <4>3
      <3>4. ASSUME h = g PROVE ~ \E x \in FramesOf(H) : h < x
        BY <1>5, <1>6, <1>7, <3>4
      <3>5. CASE h \in FramesOf(G)
        BY <1>7, <1>12, <3>1, <3>2, <3>3, <3>5, Zenon
      <3>6. CASE h \notin FramesOf(G)
        BY <1>5, <1>7, <3>1, <3>2, <3>4, <3>6, Zenon
      <3> QED BY <3>5, <3>6
    <2> QED BY <2>1, Zenon
  <1>14. Cardinality(EndsGone(H)) = Cardinality(EndsGone(G)) + (IF u = MaxSub THEN 0 ELSE 1)
    <2>1. IsFiniteSet(EndsGone(G)) /\ Cardinality(EndsGone(G)) \in Nat
      BY GoneAreFinite, FS_CardinalityType
    <2>2. CASE u = MaxSub
      <3>1. EndsGone(H) = EndsGone(G)
        BY <1>13, <2>2
      <3> QED BY <2>1, <2>2, <3>1
    <2>3. CASE u # MaxSub
      <3>1. EndsGone(H) = EndsGone(G) \cup {f}
        BY <1>13, <2>3
      <3>2. f \notin EndsGone(G)
        <4>1. ~ \E x \in FramesOf(G) : f < x
          BY <1>5
        <4>2. f \in EndsGone(G) => \E x \in FramesOf(G) : f < x
          BY EndsAre, Zenon DEF EndIsGone
        <4> QED BY <4>1, <4>2
      <3> QED BY <2>1, <2>3, <3>1, <3>2, FS_AddElement
    <2> QED BY <2>2, <2>3
  <1>15. PartsGone(H) = PartsGone(G)
    <2>1. ASSUME NEW h, NEW w PROVE <<h, w>> \in PartsGone(H) <=> <<h, w>> \in PartsGone(G)
      <3>1. <<h, w>> \in PartsGone(H) <=>
              h \in FramesOf(H) /\ w \in 0..MaxSub /\ <<h, w>> \notin H /\ Inside(PartsOf(H, h), w)
        BY <1>1, GoneAre, Zenon
      <3>2. <<h, w>> \in PartsGone(G) <=>
              h \in FramesOf(G) /\ w \in 0..MaxSub /\ <<h, w>> \notin G /\ Inside(PartsOf(G, h), w)
        BY GoneAre, Zenon
      <3>3. \A x : x \in PartsOf(H, h) <=> x \in 0..MaxSub /\ <<h, x>> \in H
        BY <1>1, FramesAndParts, Zenon
      <3>4. \A x : x \in PartsOf(G, h) <=> x \in 0..MaxSub /\ <<h, x>> \in G
        BY FramesAndParts, Zenon
      <3>5. CASE h # g
        <4>1. PartsOf(H, h) = PartsOf(G, h)
          BY <1>2, <3>3, <3>4, <3>5
        <4> QED BY <1>2, <1>7, <3>1, <3>2, <3>5, <4>1, Zenon
      <3>6. CASE h = g
        <4>1. \A x \in PartsOf(H, h) : x = v
          <5> SUFFICES ASSUME NEW x \in PartsOf(H, h) PROVE x = v
            OBVIOUS
          <5>1. x \in 0..MaxSub /\ <<g, x>> \in H
            BY <3>3, <3>6, Zenon
          <5>2. <<g, x>> \notin G
            BY <1>6, <5>1, FramesAndParts, Zenon
          <5> QED BY <1>2, <5>1, <5>2, Zenon
        <4>2. w \in 0..MaxSub => ~Inside(PartsOf(H, h), w)
          <5>1. ASSUME w \in Int, v < w, w < v PROVE FALSE
            BY <5>1
          <5>2. w \in 0..MaxSub => w \in Int
            OBVIOUS
          <5> QED BY <4>1, <5>1, <5>2, Zenon DEF Inside
        <4> QED BY <1>6, <3>1, <3>2, <3>6, <4>2, Zenon
      <3> QED BY <3>5, <3>6
    <2>2. (\A p \in PartsGone(H) : p = <<p[1], p[2]>>) /\ (\A p \in PartsGone(G) : p = <<p[1], p[2]>>)
      BY <1>1, GoneAre, Zenon
    <2> QED BY <2>1, <2>2
  <1> QED BY <1>1, <1>4, <1>8, <1>11, <1>14, <1>15 DEF H, FrameAdded

(* Nothing came, and nothing is missed.                                    *)
LEMMA NothingGone ==
  /\ {} \in SUBSET Packages
  /\ FramesOf({}) = {} /\ FramesGone({}) = {} /\ EndsGone({}) = {} /\ PartsGone({}) = {}
  <1>1. FramesOf({}) = {}
    BY DEF FramesOf
  <1> QED BY <1>1 DEF FramesGone, EndsGone, PartsGone, Inside

(* The first packet comes: nothing before it is missed.                    *)
LEMMA FirstComes ==
  ASSUME CountingAssumption, NEW g \in 1..MaxFrame, NEW v \in 0..MaxSub
  PROVE  LET H == {} \cup {<<g, v>>}
         IN  /\ H \in SUBSET Packages /\ LastOf(H, g, v)
             /\ FramesOf(H) = {g} /\ FramesGone(H) = {} /\ EndsGone(H) = {} /\ PartsGone(H) = {}
  <1> DEFINE H == {} \cup {<<g, v>>}
  <1>1. H \in SUBSET Packages
    BY DEF Packages
  <1>2. \A h, w : <<h, w>> \in H <=> h = g /\ w = v
    OBVIOUS
  <1>3. g \in Int /\ v \in Int
    OBVIOUS
  <1> HIDE DEF H
  <1>4. LastOf(H, g, v)
    BY <1>2, <1>3 DEF LastOf
  <1>5. FramesOf(H) = {g}
    <2>1. \A h : h \in FramesOf(H) <=> h \in 1..MaxFrame /\ \E w \in 0..MaxSub : <<h, w>> \in H
      BY <1>1, FramesAndParts, Zenon
    <2>2. \A h : h \in FramesOf(H) <=> h = g
      BY <1>2, <2>1, Zenon
    <2> QED BY <2>2
  <1>6. FramesGone(H) = {}
    BY <1>3, <1>5 DEF FramesGone, Inside
  <1>7. EndsGone(H) = {}
    BY <1>3, <1>5 DEF EndsGone
  <1>8. PartsGone(H) = {}
    <2>1. ASSUME NEW h, NEW w, <<h, w>> \in PartsGone(H) PROVE FALSE
      <3>1. w \in 0..MaxSub /\ Inside(PartsOf(H, h), w)
        BY <1>1, <2>1, GoneAre, Zenon
      <3>2. \A x \in PartsOf(H, h) : x = v
        BY <1>1, <1>2, FramesAndParts, Zenon
      <3>3. v < w /\ w < v
        BY <3>1, <3>2, Zenon DEF Inside
      <3>4. w \in Int
        BY <3>1
      <3> QED BY <1>3, <3>3, <3>4
    <2>2. \A p \in PartsGone(H) : p = <<p[1], p[2]>>
      BY <1>1, GoneAre, Zenon
    <2> QED BY <2>1, <2>2
  <1> QED BY <1>1, <1>4, <1>5, <1>6, <1>7, <1>8 DEF H

-----------------------------------------------------------------------------
(* What is told of a packet: the fields of a summary, one after another.   *)
Summaries ==
  [current_frame : Int, expect_frame : Int, expect_sub_frame : Int, next_new_frame : BOOLEAN,
   frames : Int, miss_frame : Int, miss_gap : Int, miss_last_one : Int, miss_except_last : Int]

(* A part follows what is told: some before it are missed or none.         *)
Parted(s, gap, u) ==
  LET s2 == [s EXCEPT !.miss_gap = IF gap THEN @ + 1 ELSE @,
                      !.miss_except_last = IF gap /\ u > s.expect_sub_frame
                                           THEN @ + u - s.expect_sub_frame ELSE @]
  IN  [s2 EXCEPT !.expect_sub_frame = IF u = MaxSub THEN 0 ELSE u + 1,
                 !.next_new_frame = @ \/ u = MaxSub]

LEMMA NoneIsSummary ==
  /\ NoSummary \in Summaries /\ NoSummary.current_frame = 0 /\ NoSummary.expect_frame = 0
  /\ NoSummary.expect_sub_frame = -1 /\ NoSummary.frames = 0 /\ NoSummary.miss_frame = 0
  /\ NoSummary.miss_last_one = 0 /\ NoSummary.miss_except_last = 0
  BY DEF NoSummary, Summaries

(* Fields that change, whatever they change to.                            *)
FrameSet(s, idx, ends, missed, jumped, new) ==
  [s EXCEPT !.miss_last_one = ends, !.miss_gap = missed, !.miss_frame = jumped,
            !.current_frame = idx, !.expect_frame = idx + 1,
            !.frames = @ + 1, !.next_new_frame = new]

PartSet(s, missed, parts, next, new) ==
  [[s EXCEPT !.miss_gap = missed, !.miss_except_last = parts]
     EXCEPT !.expect_sub_frame = next, !.next_new_frame = new]

LEMMA FrameIsSet ==
  ASSUME NEW s \in Summaries, NEW idx \in Int, NEW ends \in Int, NEW missed \in Int,
         NEW jumped \in Int, NEW new \in BOOLEAN
  PROVE  LET n == FrameSet(s, idx, ends, missed, jumped, new)
         IN  /\ n \in Summaries /\ n.current_frame = idx /\ n.expect_frame = idx + 1
             /\ n.expect_sub_frame = s.expect_sub_frame /\ (n.next_new_frame <=> new)
             /\ n.frames = s.frames + 1 /\ n.miss_except_last = s.miss_except_last
             /\ n.miss_last_one = ends /\ n.miss_frame = jumped
  <1> DEFINE n == FrameSet(s, idx, ends, missed, jumped, new)
  <1>1. idx + 1 \in Int /\ s.frames \in Int /\ s.frames + 1 \in Int
    BY DEF Summaries
  <1>2. n \in Summaries
    BY <1>1 DEF FrameSet, Summaries
  <1>3. n.current_frame = idx /\ n.expect_frame = idx + 1 /\ n.expect_sub_frame = s.expect_sub_frame
    BY DEF FrameSet, Summaries
  <1>4. n.frames = s.frames + 1 /\ n.miss_except_last = s.miss_except_last
    BY DEF FrameSet, Summaries
  <1>5. n.miss_last_one = ends /\ n.miss_frame = jumped
    BY DEF FrameSet, Summaries
  <1>6. n.next_new_frame <=> new
    BY Zenon DEF FrameSet, Summaries
  <1> QED BY <1>2, <1>3, <1>4, <1>5, <1>6, Zenon

LEMMA PartIsSet ==
  ASSUME NEW s \in Summaries, NEW missed \in Int, NEW parts \in Int, NEW next \in Int,
         NEW new \in BOOLEAN
  PROVE  LET n == PartSet(s, missed, parts, next, new)
         IN  /\ n \in Summaries /\ n.current_frame = s.current_frame
             /\ n.expect_frame = s.expect_frame /\ n.expect_sub_frame = next
             /\ (n.next_new_frame <=> new)
             /\ n.frames = s.frames /\ n.miss_frame = s.miss_frame
             /\ n.miss_last_one = s.miss_last_one /\ n.miss_except_last = parts
  BY DEF PartSet, Summaries

LEMMA NewFrameIs ==
  ASSUME NEW s \in Summaries, NEW idx \in Int
  PROVE  LET n == NewFrame(s, idx)
         IN  /\ n \in Summaries /\ n.current_frame = idx /\ n.expect_frame = idx + 1
             /\ n.expect_sub_frame = s.expect_sub_frame /\ ~n.next_new_frame
             /\ n.frames = s.frames + 1 /\ n.miss_except_last = s.miss_except_last
             /\ n.miss_last_one = IF ~s.next_new_frame /\ s.expect_frame > 0
                                  THEN s.miss_last_one + 1 ELSE s.miss_last_one
             /\ n.miss_frame = IF s.expect_frame > 0 /\ idx > s.expect_frame
                               THEN s.miss_frame + idx - s.expect_frame ELSE s.miss_frame
  <1> DEFINE lost   == ~s.next_new_frame /\ s.expect_frame > 0
             ends   == IF lost THEN s.miss_last_one + 1 ELSE s.miss_last_one
             missed == IF lost THEN s.miss_gap + 1 ELSE s.miss_gap
             jumped == IF s.expect_frame > 0 /\ idx > s.expect_frame
                       THEN s.miss_frame + idx - s.expect_frame ELSE s.miss_frame
             new    == FALSE
  <1>1. ends \in Int /\ missed \in Int /\ jumped \in Int /\ new \in BOOLEAN /\ ~new
    <2>1. /\ s.miss_last_one \in Int /\ s.miss_gap \in Int /\ s.miss_frame \in Int
          /\ s.expect_frame \in Int
      BY DEF Summaries
    <2> QED BY <2>1
  <1>2. NewFrame(s, idx) = FrameSet(s, idx, ends, missed, jumped, new)
    BY DEF NewFrame, FrameSet, Summaries
  <1> HIDE DEF ends, missed, jumped, new
  <1>3. LET n == FrameSet(s, idx, ends, missed, jumped, new)
        IN  /\ n \in Summaries /\ n.current_frame = idx /\ n.expect_frame = idx + 1
            /\ n.expect_sub_frame = s.expect_sub_frame /\ (n.next_new_frame <=> new)
            /\ n.frames = s.frames + 1 /\ n.miss_except_last = s.miss_except_last
            /\ n.miss_last_one = ends /\ n.miss_frame = jumped
    BY <1>1, FrameIsSet
  <1> QED BY <1>1, <1>2, <1>3, Zenon DEF ends, jumped

LEMMA PartedIs ==
  ASSUME NEW s \in Summaries, NEW gap \in BOOLEAN, NEW u \in Int
  PROVE  LET n == Parted(s, gap, u)
         IN  /\ n \in Summaries /\ n.current_frame = s.current_frame
             /\ n.expect_frame = s.expect_frame
             /\ n.expect_sub_frame = IF u = MaxSub THEN 0 ELSE u + 1
             /\ (n.next_new_frame <=> s.next_new_frame \/ u = MaxSub)
             /\ n.frames = s.frames /\ n.miss_frame = s.miss_frame
             /\ n.miss_last_one = s.miss_last_one
             /\ n.miss_except_last = IF gap /\ u > s.expect_sub_frame
                                     THEN s.miss_except_last + u - s.expect_sub_frame
                                     ELSE s.miss_except_last
  <1> DEFINE missed == IF gap THEN s.miss_gap + 1 ELSE s.miss_gap
             parts  == IF gap /\ u > s.expect_sub_frame
                       THEN s.miss_except_last + u - s.expect_sub_frame ELSE s.miss_except_last
             next   == IF u = MaxSub THEN 0 ELSE u + 1
             new    == s.next_new_frame \/ u = MaxSub
  <1>1. missed \in Int /\ parts \in Int /\ next \in Int /\ new \in BOOLEAN
    <2>1. s.miss_gap \in Int /\ s.miss_except_last \in Int /\ s.expect_sub_frame \in Int
      BY DEF Summaries
    <2> QED BY <2>1
  <1>2. Parted(s, gap, u) = PartSet(s, missed, parts, next, new)
    BY DEF Parted, PartSet, Summaries
  <1> HIDE DEF missed, parts, next, new
  <1>3. LET n == PartSet(s, missed, parts, next, new)
        IN  /\ n \in Summaries /\ n.current_frame = s.current_frame
            /\ n.expect_frame = s.expect_frame /\ n.expect_sub_frame = next
            /\ (n.next_new_frame <=> new)
            /\ n.frames = s.frames /\ n.miss_frame = s.miss_frame
            /\ n.miss_last_one = s.miss_last_one /\ n.miss_except_last = parts
    BY <1>1, PartIsSet
  <1> QED BY <1>2, <1>3, Zenon DEF parts, next, new

Gap(s1, s, idx, u) == s1.expect_sub_frame # u /\ Tells(s, idx) /\ s1.expect_sub_frame > 0

Told(s, idx, u) == Summed(s, idx, u, u = MaxSub)

LEMMA SummedSame ==
  ASSUME NEW s, NEW idx, NEW u, s.current_frame = idx
  PROVE  Told(s, idx, u) = Parted(s, Gap(s, s, idx, u), u)
  BY Zenon DEF Told, Summed, Parted, Gap

LEMMA SummedNew ==
  ASSUME NEW s, NEW idx, NEW u, s.current_frame # idx
  PROVE  Told(s, idx, u) =
           Parted(NewFrame(s, idx), Gap(NewFrame(s, idx), s, idx, u), u)
  BY Zenon DEF Told, Summed, Parted, Gap

(* The summary s tells of the packets G, the last of which is <<f, u>>.    *)
TellsOf(s, G, f, u) ==
  /\ LastOf(G, f, u) /\ s.current_frame = f /\ s.expect_frame = f + 1
  /\ s.expect_sub_frame = IF u = MaxSub THEN 0 ELSE u + 1
  /\ s.next_new_frame <=> u = MaxSub

AreCounted(s, G) ==
  /\ s.frames = Cardinality(FramesOf(G)) /\ s.miss_frame = Cardinality(FramesGone(G))
  /\ s.miss_last_one = Cardinality(EndsGone(G)) /\ s.miss_except_last = Cardinality(PartsGone(G))

SummaryInv ==
  /\ got \in SUBSET Packages /\ summary \in Summaries /\ AreCounted(summary, got)
  /\ got = {} => summary = NoSummary
  /\ got # {} => \E f \in 1..MaxFrame : \E u \in 0..MaxSub : TellsOf(summary, got, f, u)

LEMMA GoneAreCounted ==
  ASSUME CountingAssumption, NEW G \in SUBSET Packages
  PROVE  /\ Cardinality(FramesOf(G)) \in Nat /\ Cardinality(FramesGone(G)) \in Nat
         /\ Cardinality(EndsGone(G)) \in Nat /\ Cardinality(PartsGone(G)) \in Nat
  BY GoneAreFinite, FS_CardinalityType

LEMMA FirstIsSummed ==
  ASSUME CountingAssumption, NEW g \in 1..MaxFrame, NEW v \in 0..MaxSub
  PROVE  LET n == Told(NoSummary, g, v)
             H == {} \cup {<<g, v>>}
         IN  H \in SUBSET Packages /\ n \in Summaries /\ AreCounted(n, H) /\ TellsOf(n, H, g, v)
  <1> DEFINE s1  == NewFrame(NoSummary, g)
             gap == Gap(s1, NoSummary, g, v)
             n   == Told(NoSummary, g, v)
             H   == {} \cup {<<g, v>>}
  <1>1. g \in Int /\ v \in Int /\ g # 0
    OBVIOUS
  <1>2. /\ s1 \in Summaries /\ s1.current_frame = g /\ s1.expect_frame = g + 1
        /\ s1.expect_sub_frame = -1 /\ ~s1.next_new_frame /\ s1.frames = 1
        /\ s1.miss_except_last = 0 /\ s1.miss_last_one = 0 /\ s1.miss_frame = 0
    <2>1. /\ s1 \in Summaries /\ s1.current_frame = g /\ s1.expect_frame = g + 1
          /\ s1.expect_sub_frame = NoSummary.expect_sub_frame /\ ~s1.next_new_frame
          /\ s1.frames = NoSummary.frames + 1 /\ s1.miss_except_last = NoSummary.miss_except_last
          /\ s1.miss_last_one = IF ~NoSummary.next_new_frame /\ NoSummary.expect_frame > 0
                                THEN NoSummary.miss_last_one + 1 ELSE NoSummary.miss_last_one
          /\ s1.miss_frame = IF NoSummary.expect_frame > 0 /\ g > NoSummary.expect_frame
                             THEN NoSummary.miss_frame + g - NoSummary.expect_frame
                             ELSE NoSummary.miss_frame
      BY <1>1, NewFrameIs, NoneIsSummary, Zenon
    <2>2. ~(0 > 0) /\ 0 + 1 = 1
      OBVIOUS
    <2> QED BY <2>1, <2>2, NoneIsSummary, Zenon
  <1>3. ~gap
    BY <1>2 DEF Gap
  <1>4. n = Parted(s1, gap, v)
    BY <1>1, NoneIsSummary, SummedNew, Zenon
  <1> HIDE DEF s1, gap, n
  <1>5. gap \in BOOLEAN
    BY DEF gap, Gap
  <1> HIDE DEF H
  <1>6. /\ n \in Summaries /\ n.current_frame = g /\ n.expect_frame = g + 1
        /\ n.expect_sub_frame = IF v = MaxSub THEN 0 ELSE v + 1
        /\ n.next_new_frame <=> v = MaxSub
        /\ n.frames = 1 /\ n.miss_frame = 0 /\ n.miss_last_one = 0 /\ n.miss_except_last = 0
    <2>1. LET m == Parted(s1, gap, v)
          IN  /\ m \in Summaries /\ m.current_frame = s1.current_frame
              /\ m.expect_frame = s1.expect_frame
              /\ m.expect_sub_frame = IF v = MaxSub THEN 0 ELSE v + 1
              /\ (m.next_new_frame <=> s1.next_new_frame \/ v = MaxSub)
              /\ m.frames = s1.frames /\ m.miss_frame = s1.miss_frame
              /\ m.miss_last_one = s1.miss_last_one
              /\ m.miss_except_last = IF gap /\ v > s1.expect_sub_frame
                                      THEN s1.miss_except_last + v - s1.expect_sub_frame
                                      ELSE s1.miss_except_last
      BY <1>1, <1>2, <1>5, PartedIs, Zenon
    <2> QED BY <1>2, <1>3, <1>4, <2>1, Zenon
  <1>7. /\ H \in SUBSET Packages /\ LastOf(H, g, v)
        /\ FramesOf(H) = {g} /\ FramesGone(H) = {} /\ EndsGone(H) = {} /\ PartsGone(H) = {}
    BY FirstComes, Zenon DEF H
  <1>8. Cardinality({g}) = 1 /\ Cardinality({}) = 0
    BY FS_Singleton, FS_EmptySet
  <1>9. AreCounted(n, H)
    BY <1>6, <1>7, <1>8, Zenon DEF AreCounted
  <1>10. TellsOf(n, H, g, v)
    BY <1>6, <1>7, Zenon DEF TellsOf
  <1> QED BY <1>6, <1>7, <1>9, <1>10 DEF n, H

LEMMA PartIsSummed ==
  ASSUME CountingAssumption, NEW s \in Summaries, NEW G \in SUBSET Packages, AreCounted(s, G),
         NEW f \in 1..MaxFrame, NEW u \in 0..MaxSub, TellsOf(s, G, f, u),
         NEW v \in 0..MaxSub, u < v
  PROVE  LET n == Told(s, f, v)
             H == G \cup {<<f, v>>}
         IN  H \in SUBSET Packages /\ n \in Summaries /\ AreCounted(n, H) /\ TellsOf(n, H, f, v)
  <1> DEFINE gap == Gap(s, s, f, v)
             n   == Told(s, f, v)
             H   == G \cup {<<f, v>>}
  <1>1. u \in Int /\ v \in Int /\ f \in Int /\ u # MaxSub /\ u >= 0
    BY DEF CountingAssumption
  <1>2. /\ LastOf(G, f, u) /\ s.current_frame = f /\ s.expect_frame = f + 1
        /\ s.expect_sub_frame = u + 1 /\ ~s.next_new_frame
    BY <1>1, Zenon DEF TellsOf
  <1>3. gap <=> u + 1 # v
    <2>1. Tells(s, f)
      BY <1>2, Zenon DEF Tells
    <2> QED BY <1>1, <1>2, <2>1 DEF Gap
  <1>4. n = Parted(s, gap, v)
    BY <1>2, SummedSame, Zenon
  <1> HIDE DEF gap, n, H
  <1>5. /\ n \in Summaries /\ n.current_frame = f /\ n.expect_frame = f + 1
        /\ n.expect_sub_frame = IF v = MaxSub THEN 0 ELSE v + 1
        /\ n.next_new_frame <=> v = MaxSub
        /\ n.frames = s.frames /\ n.miss_frame = s.miss_frame
        /\ n.miss_last_one = s.miss_last_one
        /\ n.miss_except_last = IF gap /\ v > u + 1
                                THEN s.miss_except_last + v - (u + 1) ELSE s.miss_except_last
    <2>1. gap \in BOOLEAN
      BY DEF gap, Gap
    <2>2. LET m == Parted(s, gap, v)
          IN  /\ m \in Summaries /\ m.current_frame = s.current_frame
              /\ m.expect_frame = s.expect_frame
              /\ m.expect_sub_frame = IF v = MaxSub THEN 0 ELSE v + 1
              /\ (m.next_new_frame <=> s.next_new_frame \/ v = MaxSub)
              /\ m.frames = s.frames /\ m.miss_frame = s.miss_frame
              /\ m.miss_last_one = s.miss_last_one
              /\ m.miss_except_last = IF gap /\ v > s.expect_sub_frame
                                      THEN s.miss_except_last + v - s.expect_sub_frame
                                      ELSE s.miss_except_last
      BY <1>1, <2>1, PartedIs, Zenon
    <2> QED BY <1>2, <1>4, <2>2, Zenon
  <1>6. /\ H \in SUBSET Packages /\ LastOf(H, f, v)
        /\ FramesOf(H) = FramesOf(G) /\ FramesGone(H) = FramesGone(G) /\ EndsGone(H) = EndsGone(G)
        /\ Cardinality(PartsGone(H)) = Cardinality(PartsGone(G)) + (v - (u + 1))
    <2>1. LastOf(G, f, u)
      BY <1>2, Zenon
    <2>2. PartAdded(G, H, f, u, v)
      BY <2>1, PartComes, Zenon DEF H
    <2> QED BY <2>2, Zenon DEF PartAdded
  <1>7. AreCounted(n, H)
    <2>1. s.miss_except_last = Cardinality(PartsGone(G)) /\ s.miss_except_last \in Int
      BY DEF AreCounted, Summaries
    <2>2. n.miss_except_last = s.miss_except_last + (v - (u + 1))
      BY <1>1, <1>3, <1>5, <2>1
    <2>3. n.miss_except_last = Cardinality(PartsGone(H))
      BY <1>6, <2>1, <2>2, Zenon
    <2> QED BY <1>5, <1>6, <2>3, Zenon DEF AreCounted
  <1>8. TellsOf(n, H, f, v)
    BY <1>5, <1>6, Zenon DEF TellsOf
  <1> QED BY <1>5, <1>6, <1>7, <1>8 DEF n, H

LEMMA FrameIsSummed ==
  ASSUME CountingAssumption, NEW s \in Summaries, NEW G \in SUBSET Packages, AreCounted(s, G),
         NEW f \in 1..MaxFrame, NEW u \in 0..MaxSub, TellsOf(s, G, f, u),
         NEW g \in 1..MaxFrame, f < g, NEW v \in 0..MaxSub
  PROVE  LET n == Told(s, g, v)
             H == G \cup {<<g, v>>}
         IN  H \in SUBSET Packages /\ n \in Summaries /\ AreCounted(n, H) /\ TellsOf(n, H, g, v)
  <1> DEFINE s1  == NewFrame(s, g)
             gap == Gap(s1, s, g, v)
             n   == Told(s, g, v)
             H   == G \cup {<<g, v>>}
  <1>1. /\ u \in Int /\ v \in Int /\ f \in Int /\ g \in Int /\ u >= 0 /\ f > 0 /\ g # f
        /\ f + 1 # 0 /\ f + 1 > 0
    OBVIOUS
  <1>2. /\ LastOf(G, f, u) /\ s.current_frame = f /\ s.expect_frame = f + 1
        /\ s.expect_sub_frame = IF u = MaxSub THEN 0 ELSE u + 1
        /\ s.next_new_frame <=> u = MaxSub
    BY Zenon DEF TellsOf
  <1>3. /\ s.frames \in Int /\ s.miss_frame \in Int /\ s.miss_last_one \in Int
        /\ s.miss_except_last \in Int
    BY DEF Summaries
  <1>4. /\ s1 \in Summaries /\ s1.current_frame = g /\ s1.expect_frame = g + 1
        /\ s1.expect_sub_frame = s.expect_sub_frame /\ ~s1.next_new_frame
        /\ s1.frames = s.frames + 1 /\ s1.miss_except_last = s.miss_except_last
        /\ s1.miss_last_one = IF u = MaxSub THEN s.miss_last_one ELSE s.miss_last_one + 1
        /\ s1.miss_frame = s.miss_frame + (g - (f + 1))
    <2> HIDE DEF s1
    <2>1. /\ s1 \in Summaries /\ s1.current_frame = g /\ s1.expect_frame = g + 1
          /\ s1.expect_sub_frame = s.expect_sub_frame /\ ~s1.next_new_frame
          /\ s1.frames = s.frames + 1 /\ s1.miss_except_last = s.miss_except_last
          /\ s1.miss_last_one = IF ~s.next_new_frame /\ s.expect_frame > 0
                                THEN s.miss_last_one + 1 ELSE s.miss_last_one
          /\ s1.miss_frame = IF s.expect_frame > 0 /\ g > s.expect_frame
                             THEN s.miss_frame + g - s.expect_frame ELSE s.miss_frame
      BY <1>1, NewFrameIs, Zenon DEF s1
    <2>2. s1.miss_last_one = IF u = MaxSub THEN s.miss_last_one ELSE s.miss_last_one + 1
      BY <1>1, <1>2, <2>1, Zenon
    <2>3. s1.miss_frame = s.miss_frame + (g - (f + 1))
      <3>1. s1.miss_frame = IF g > f + 1 THEN s.miss_frame + g - (f + 1) ELSE s.miss_frame
        BY <1>1, <1>2, <2>1, Zenon
      <3> QED BY <1>1, <1>3, <3>1
    <2> QED BY <2>1, <2>2, <2>3
  <1>5. ~gap
    <2>1. Tells(s, g) => s.next_new_frame
      BY <1>1, <1>2, Zenon DEF Tells
    <2>2. s.next_new_frame => s.expect_sub_frame = 0
      BY <1>2, Zenon
    <2>3. ~(0 > 0)
      OBVIOUS
    <2> QED BY <1>4, <2>1, <2>2, <2>3, Zenon DEF Gap
  <1>6. n = Parted(s1, gap, v)
    BY <1>1, <1>2, SummedNew, Zenon
  <1> HIDE DEF s1, gap, n, H
  <1>7. gap \in BOOLEAN
    BY DEF gap, Gap
  <1>8. /\ n \in Summaries /\ n.current_frame = g /\ n.expect_frame = g + 1
        /\ n.expect_sub_frame = IF v = MaxSub THEN 0 ELSE v + 1
        /\ n.next_new_frame <=> v = MaxSub
        /\ n.frames = s1.frames /\ n.miss_frame = s1.miss_frame
        /\ n.miss_last_one = s1.miss_last_one /\ n.miss_except_last = s1.miss_except_last
    <2>1. LET m == Parted(s1, gap, v)
          IN  /\ m \in Summaries /\ m.current_frame = s1.current_frame
              /\ m.expect_frame = s1.expect_frame
              /\ m.expect_sub_frame = IF v = MaxSub THEN 0 ELSE v + 1
              /\ (m.next_new_frame <=> s1.next_new_frame \/ v = MaxSub)
              /\ m.frames = s1.frames /\ m.miss_frame = s1.miss_frame
              /\ m.miss_last_one = s1.miss_last_one
              /\ m.miss_except_last = IF gap /\ v > s1.expect_sub_frame
                                      THEN s1.miss_except_last + v - s1.expect_sub_frame
                                      ELSE s1.miss_except_last
      BY <1>1, <1>4, <1>7, PartedIs, Zenon
    <2> QED BY <1>4, <1>5, <1>6, <2>1, Zenon
  <1>9. /\ H \in SUBSET Packages /\ LastOf(H, g, v)
        /\ Cardinality(FramesOf(H)) = Cardinality(FramesOf(G)) + 1
        /\ Cardinality(FramesGone(H)) = Cardinality(FramesGone(G)) + (g - (f + 1))
        /\ Cardinality(EndsGone(H)) = Cardinality(EndsGone(G)) + (IF u = MaxSub THEN 0 ELSE 1)
        /\ PartsGone(H) = PartsGone(G)
    <2>1. LastOf(G, f, u)
      BY <1>2, Zenon
    <2>2. FrameAdded(G, H, f, u, g, v)
      BY <2>1, FrameComes, Zenon DEF H
    <2> QED BY <2>2, Zenon DEF FrameAdded
  <1>10. AreCounted(n, H)
    <2>1. /\ s.frames = Cardinality(FramesOf(G)) /\ s.miss_frame = Cardinality(FramesGone(G))
          /\ s.miss_last_one = Cardinality(EndsGone(G))
          /\ s.miss_except_last = Cardinality(PartsGone(G))
      BY Zenon DEF AreCounted
    <2>2. n.miss_last_one = s.miss_last_one + (IF u = MaxSub THEN 0 ELSE 1)
      BY <1>3, <1>4, <1>8
    <2> QED BY <1>4, <1>8, <1>9, <2>1, <2>2, Zenon DEF AreCounted
  <1>11. TellsOf(n, H, g, v)
    BY <1>8, <1>9, Zenon DEF TellsOf
  <1> QED BY <1>8, <1>9, <1>10, <1>11 DEF n, H

LEMMA SummaryStep ==
  ASSUME CountingAssumption, SummaryInv, NEW p \in Packages, summary_data_package(p)
  PROVE  SummaryInv'
  <1> DEFINE g == p[1]  v == p[2]  n == Told(summary, g, v)  H == got \cup {<<g, v>>}
  <1>1. p = <<g, v>> /\ g \in 1..MaxFrame /\ v \in 0..MaxSub
    BY DEF Packages
  <1>2. got' = H /\ summary' = n /\ \A q \in got : After(p, q)
    BY <1>1, Zenon DEF summary_data_package, Told
  <1>3. H \in SUBSET Packages /\ n \in Summaries /\ AreCounted(n, H) /\ TellsOf(n, H, g, v)
    <2>1. CASE got = {}
      <3>1. summary = NoSummary
        BY <2>1 DEF SummaryInv
      <3> HIDE DEF g, v
      <3> QED BY <1>1, <2>1, <3>1, FirstIsSummed, Zenon
    <2>2. CASE got # {}
      <3>1. PICK f \in 1..MaxFrame, u \in 0..MaxSub : TellsOf(summary, got, f, u)
        BY <2>2, Zenon DEF SummaryInv
      <3>2. g > f \/ (g = f /\ v > u)
        <4>1. <<f, u>> \in got
          BY <3>1 DEF TellsOf, LastOf
        <4>2. After(p, <<f, u>>)
          BY <1>2, <4>1, Zenon
        <4> QED BY <4>2 DEF After
      <3>3. got \in SUBSET Packages /\ summary \in Summaries /\ AreCounted(summary, got)
        BY DEF SummaryInv
      <3> HIDE DEF g, v
      <3>4. CASE g = f /\ v > u
        <4>1. u < v
          BY <1>1, <3>4
        <4> QED BY <1>1, <3>1, <3>3, <3>4, <4>1, PartIsSummed, Zenon
      <3>5. CASE g > f
        <4>1. f < g
          BY <1>1, <3>5
        <4> QED BY <1>1, <3>1, <3>3, <4>1, FrameIsSummed, Zenon
      <3> QED BY <3>2, <3>4, <3>5
    <2> QED BY <2>1, <2>2
  <1> HIDE DEF n, g, v
  <1>4. got' \in SUBSET Packages /\ summary' \in Summaries /\ AreCounted(summary', got')
    BY <1>2, <1>3, Zenon
  <1>5. TellsOf(summary', got', g, v)
    BY <1>2, <1>3, Zenon
  <1>6. got' # {}
    BY <1>2
  <1> QED BY <1>1, <1>4, <1>5, <1>6, Zenon DEF SummaryInv

LEMMA SummaryTells == ASSUME SummaryInv PROVE GapsAreTrue
  <1>1. FramesCame = FramesOf(got) /\ MissedFrames = FramesGone(got)
    BY DEF FramesCame, FramesOf, MissedFrames, FramesGone
  <1>2. \A f : Parts(f) = PartsOf(got, f)
    BY DEF Parts, PartsOf
  <1>3. MissedEnds = EndsGone(got)
    BY <1>1, <1>2 DEF MissedEnds, EndsGone
  <1>4. MissedParts = PartsGone(got)
    BY <1>1, <1>2 DEF MissedParts, PartsGone
  <1> QED BY <1>1, <1>3, <1>4, Zenon DEF SummaryInv, AreCounted, GapsAreTrue
-----------------------------------------------------------------------------
(* Both together.                                                          *)
LEMMA CountsBegin == ASSUME CountingAssumption, CountingInit PROVE NumbersInv /\ SummaryInv
  <1>1. NumbersInv
    <2>1. /\ came = {} /\ stats = NoStats /\ first \in 0..(SeqWrap - 1)
      BY DEF CountingInit
    <2>2. Expected(stats) = 1 /\ stats \in Statistics /\ stats.last_total = 0
          /\ stats.total = 0 /\ stats.last_expect = 0
      BY <2>1, NoStatistics DEF Expected
    <2>3. IsFiniteSet(came) /\ Cardinality(came) = 0
      BY <2>1, FS_EmptySet
    <2> QED BY <2>1, <2>2, <2>3 DEF NumbersInv
  <1>2. SummaryInv
    <2>1. got = {} /\ summary = NoSummary
      BY DEF CountingInit
    <2>2. Cardinality({}) = 0
      BY FS_EmptySet
    <2>3. AreCounted(summary, got)
      BY <2>1, <2>2, NothingGone, NoneIsSummary, Zenon DEF AreCounted
    <2> QED BY <2>1, <2>3, NothingGone, NoneIsSummary, Zenon DEF SummaryInv
  <1> QED BY <1>1, <1>2

LEMMA CountsStep ==
  ASSUME CountingAssumption, NumbersInv, SummaryInv, [CountingNext]_statsVars
  PROVE  NumbersInv' /\ SummaryInv'
  <1>1. ASSUME UNCHANGED <<got, summary>> PROVE SummaryInv'
    BY <1>1, Zenon DEF SummaryInv
  <1>2. ASSUME UNCHANGED <<first, came, stats>> PROVE NumbersInv'
    <2>1. \A l, e : Spans(stats, came, l, e) => Spans(stats, came, l, e)'
      BY <1>2, Zenon DEF Spans, Stands
    <2>2. came # {} => \E l, e \in 0..MaxSeq : Spans(stats, came, l, e)'
      BY <2>1, Zenon DEF NumbersInv
    <2> QED BY <1>2, <2>2, Zenon DEF NumbersInv, Expected
  <1>3. ASSUME NEW i \in 0..MaxSeq, inno_data_packet_receive_stats(i)
        PROVE  NumbersInv' /\ SummaryInv'
    BY <1>1, <1>3, NumbersStep, Zenon DEF inno_data_packet_receive_stats
  <1>4. ASSUME NEW p \in (1..MaxFrame) \X (0..MaxSub), summary_data_package(p)
        PROVE  NumbersInv' /\ SummaryInv'
    <2>1. p \in Packages
      BY Zenon DEF Packages
    <2> QED BY <1>2, <1>4, <2>1, SummaryStep, Zenon DEF summary_data_package
  <1>5. CASE UNCHANGED statsVars
    BY <1>1, <1>2, <1>5, Zenon DEF statsVars
  <1> QED BY <1>3, <1>4, <1>5, Zenon DEF CountingNext

(* For any number of packets and any half of the numbers that they may be  *)
(* late or early: the packets that are expected, from which the loss is    *)
(* told (get_expect_receive_inno_packet), are those from the first to the  *)
(* last that came, however often the numbers wrap around.  And for any     *)
(* frames and parts of them: frames, ends of frames and parts between      *)
(* others that do not come are counted once each (summary_data_package).   *)
THEOREM CountsAreTrue ==
  ASSUME CountingAssumption PROVE CountingSpec => [](ExpectedIsTrue /\ GapsAreTrue)
  <1>1. CountingInit => NumbersInv /\ SummaryInv
    BY CountsBegin
  <1>2. NumbersInv /\ SummaryInv /\ [CountingNext]_statsVars => (NumbersInv /\ SummaryInv)'
    BY CountsStep
  <1>3. NumbersInv /\ SummaryInv => ExpectedIsTrue /\ GapsAreTrue
    BY NumbersTell, SummaryTells
  <1> QED BY <1>1, <1>2, <1>3, PTL DEF CountingSpec

-----------------------------------------------------------------------------
(* The frames of the old format (FrameConverter).  A packet is known by    *)
(* its time, which is the number of packets before it.                     *)
ConvertedPoints == [packet : Int, since : Int]
ConvertedFrames ==
  [idx : Int, start : Int, end : Int, conf : Int, items : Seq(ConvertedPoints)]
AddedPackets == [idx : 0..2, n : Nat, conf : {c \in Int : c <= Highest}, ts : Int]
Handings == [buffer : {0, 1}, frame : ConvertedFrames, kept : BOOLEAN, closed : BOOLEAN]

OfPacket(s, t) == {k \in 1..Len(s) : s[k].packet = t}

(* The points s are those of the packets A from one to another, as far as  *)
(* there is room.                                                          *)
HoldsItems(s, A, start, hi) ==
  /\ Len(s) <= kMaxNumberInCframe
  /\ \A k \in 1..Len(s) : s[k].packet \in start..hi /\ s[k].since = s[k].packet - start
  /\ \A k \in 1..(Len(s) - 1) : s[k].packet <= s[k + 1].packet
  /\ \A t \in start..hi :
       /\ Cardinality(OfPacket(s, t)) <= A[t + 1].n
       /\ Cardinality(OfPacket(s, t)) < A[t + 1].n => Len(s) = kMaxNumberInCframe

OneNumber(f, A, hi) == \A t \in f.start..hi : A[t + 1].idx = f.idx

WholeTo(f, A, hi) ==
  /\ OneNumber(f, A, hi)
  /\ \A t \in f.start..hi : A[t + 1].conf >= f.conf
  /\ \E t \in f.start..hi : A[t + 1].conf = f.conf
  /\ HoldsItems(f.items, A, f.start, hi)

AddedInv ==
  /\ interval \in Nat /\ added \in Seq(AddedPackets)
  /\ \A i \in 1..Len(added) : added[i].ts = i - 1
  /\ current \in [id : -1..2, buffer : {0, 1}] /\ cframes \in [{0, 1} -> ConvertedFrames]
  /\ handed \in Handings

(* The frame that grows has its packets so far, or, if it is not wanted,   *)
(* no points.                                                              *)
Grows(f, id, A) ==
  /\ f.idx = id /\ f.start \in 0..(Len(A) - 1) /\ OneNumber(f, A, Len(A) - 1)
  /\ Wanted(id) => WholeTo(f, A, Len(A) - 1) /\ f.end = Len(A) - 1
  /\ ~Wanted(id) => f.items = <<>>

GrowsInv == current.id # -1 => Grows(cframes[current.buffer], current.id, added)

(* What was handed over was whole, up to its end.                          *)
HandedTo(h, A) ==
  \E hi \in 0..(Len(A) - 1) :
    /\ WholeTo(h.frame, A, hi) /\ h.frame.start \in 0..hi
    /\ h.closed => h.frame.end = hi
    /\ ~h.closed => h.frame.end = hi + 1

HandedInv == handed = Nothing \/ HandedTo(handed, added)

(* It is in the buffer in which nothing grows.                             *)
KeptInv ==
  handed # Nothing /\ handed.kept =>
    /\ cframes[handed.buffer] = handed.frame
    /\ current.id # -1 => handed.buffer # current.buffer

ConverterInv == AddedInv /\ GrowsInv /\ HandedInv /\ KeptInv

(* A packet comes behind the others.                                       *)
LEMMA AfterAdding ==
  ASSUME NEW A \in Seq(AddedPackets), NEW p \in AddedPackets
  PROVE  /\ Append(A, p) \in Seq(AddedPackets) /\ Len(Append(A, p)) = Len(A) + 1 /\ Len(A) \in Nat
         /\ Append(A, p)[Len(A) + 1] = p
         /\ \A i \in 1..Len(A) : Append(A, p)[i] = A[i] /\ A[i] \in AddedPackets
  <1>1. /\ Append(A, p) \in Seq(AddedPackets) /\ Len(Append(A, p)) = Len(A) + 1
        /\ \A i \in 1..Len(A) : Append(A, p)[i] = A[i]
        /\ Append(A, p)[Len(A) + 1] = p
    BY AppendProperties
  <1>2. Len(A) \in Nat /\ \A i \in 1..Len(A) : A[i] \in AddedPackets
    BY ElementOfSeq
  <1> QED BY <1>1, <1>2

(* A frame takes what it has room for, and the lower of two levels.        *)
Takes(m, n, l) == m = IF n < kMaxNumberInCframe - l THEN n ELSE kMaxNumberInCframe - l

AsRoomAllows(m, n, l) ==
  /\ l + m <= kMaxNumberInCframe /\ m <= n
  /\ m < n => l + m = kMaxNumberInCframe
  /\ l = kMaxNumberInCframe => l + m = kMaxNumberInCframe

LEMMA RoomIs ==
  ASSUME kMaxNumberInCframe \in Nat, NEW n \in Nat, NEW l \in Nat, l <= kMaxNumberInCframe,
         NEW m, Takes(m, n, l)
  PROVE  AsRoomAllows(m, n, l)
  BY DEF Takes, AsRoomAllows

LEMMA LowerIs ==
  ASSUME NEW c \in Int, NEW d \in Int, NEW e, e = IF c < d THEN c ELSE d
  PROVE  e \in Int /\ e <= c /\ e <= d /\ (e = c \/ e = d)
  OBVIOUS

LEMMA LowerStill ==
  ASSUME NEW c \in Int, NEW d \in Int, NEW e \in Int, c >= d, e <= d
  PROVE  c >= e
  OBVIOUS

LEMMA BeforeIs ==
  ASSUME NEW since \in Nat, NEW a \in Nat, NEW t \in since..(a - 1)
  PROVE  t \in Int /\ t < a
  OBVIOUS

(* Points of one packet, behind those of packets before it.                *)
Behind(q, s, l, m, a, since) ==
  /\ Len(q) = l + m /\ Len(s) = l
  /\ \A k \in 1..l : q[k] = s[k]
  /\ \A k \in (l + 1)..(l + m) : q[k].packet = a /\ q[k].since = since

LEMMA BehindIs ==
  ASSUME NEW s \in Seq(ConvertedPoints), NEW r \in Seq(ConvertedPoints), NEW a, NEW since,
         \A k \in 1..Len(r) : r[k].packet = a /\ r[k].since = since
  PROVE  /\ Behind(s \o r, s, Len(s), Len(r), a, since) /\ s \o r \in Seq(ConvertedPoints)
         /\ Len(s) \in Nat /\ Len(r) \in Nat
  <1> DEFINE q == s \o r  l == Len(s)  m == Len(r)
  <1>1. /\ l \in Nat /\ m \in Nat /\ q \in Seq(ConvertedPoints) /\ Len(q) = l + m
        /\ \A k \in 1..(l + m) : q[k] = IF k <= l THEN s[k] ELSE r[k - l]
    BY ConcatProperties, LenProperties
  <1> HIDE DEF q, l
  <1>2. ASSUME NEW k \in 1..l PROVE q[k] = s[k]
    <2>1. k \in 1..(l + m) /\ k <= l
      BY <1>1
    <2> QED BY <1>1, <2>1, Zenon
  <1>3. ASSUME NEW k \in (l + 1)..(l + m) PROVE q[k].packet = a /\ q[k].since = since
    <2>1. k \in 1..(l + m) /\ ~(k <= l) /\ k - l \in 1..m
      BY <1>1
    <2>2. q[k] = r[k - l]
      BY <1>1, <2>1, Zenon
    <2> QED BY <2>1, <2>2, Zenon
  <1> QED BY <1>1, <1>2, <1>3, Zenon DEF Behind, q, l

LEMMA BehindKeepsOrder ==
  ASSUME NEW q, NEW s, NEW l \in Nat, NEW m \in Nat, NEW a \in Int, NEW since,
         Behind(q, s, l, m, a, since), \A k \in 1..l : s[k].packet \in Int /\ s[k].packet < a,
         \A k \in 1..(l - 1) : s[k].packet <= s[k + 1].packet
  PROVE  \A k \in 1..(l + m - 1) : q[k].packet <= q[k + 1].packet
  <1> SUFFICES ASSUME NEW k \in 1..(l + m - 1) PROVE q[k].packet <= q[k + 1].packet
    OBVIOUS
  <1>1. /\ \A j \in 1..l : q[j] = s[j]
        /\ \A j \in (l + 1)..(l + m) : q[j].packet = a
    BY Zenon DEF Behind
  <1>2. CASE k + 1 <= l
    <2>1. k \in 1..(l - 1) /\ k \in 1..l /\ k + 1 \in 1..l
      BY <1>2
    <2> QED BY <1>1, <2>1
  <1>3. CASE k = l
    <2>1. k \in 1..l /\ k + 1 \in (l + 1)..(l + m)
      BY <1>3
    <2> QED BY <1>1, <2>1
  <1>4. CASE k > l
    <2>1. k \in (l + 1)..(l + m) /\ k + 1 \in (l + 1)..(l + m)
      BY <1>4
    <2> QED BY <1>1, <2>1
  <1> QED BY <1>2, <1>3, <1>4

CountsBehind(q, s, m, a) ==
  /\ \A t : t # a => OfPacket(q, t) = OfPacket(s, t)
  /\ Cardinality(OfPacket(q, a)) = m

LEMMA BehindIsCounted ==
  ASSUME NEW q, NEW s, NEW l \in Nat, NEW m \in Nat, NEW a \in Int, NEW since,
         Behind(q, s, l, m, a, since), \A k \in 1..l : s[k].packet \in Int /\ s[k].packet < a
  PROVE  CountsBehind(q, s, m, a)
  <1>1. /\ Len(q) = l + m /\ Len(s) = l
        /\ \A j \in 1..l : q[j] = s[j]
        /\ \A j \in (l + 1)..(l + m) : q[j].packet = a
    BY Zenon DEF Behind
  <1>2. /\ 1..(l + m) = (1..l) \cup ((l + 1)..(l + m))
        /\ \A j \in 1..l : j \notin (l + 1)..(l + m)
    OBVIOUS
  <1>3. \A j \in 1..l : s[j].packet # a
    OBVIOUS
  <1>4. ASSUME NEW t, t # a PROVE OfPacket(q, t) = OfPacket(s, t)
    <2>1. \A k : k \in OfPacket(q, t) <=> k \in 1..(l + m) /\ q[k].packet = t
      BY <1>1, Zenon DEF OfPacket
    <2>2. \A k : k \in OfPacket(s, t) <=> k \in 1..l /\ s[k].packet = t
      BY <1>1, Zenon DEF OfPacket
    <2>3. \A k : k \in 1..(l + m) <=> k \in 1..l \/ k \in (l + 1)..(l + m)
      BY <1>2, Zenon
    <2>4. ASSUME NEW k \in OfPacket(q, t) PROVE k \in OfPacket(s, t)
      <3>1. (k \in 1..l \/ k \in (l + 1)..(l + m)) /\ q[k].packet = t
        BY <2>1, <2>3, <2>4, Zenon
      <3>2. k \notin (l + 1)..(l + m)
        BY <1>1, <1>4, <3>1, Zenon
      <3> QED BY <1>1, <2>2, <3>1, <3>2, Zenon
    <2>5. ASSUME NEW k \in OfPacket(s, t) PROVE k \in OfPacket(q, t)
      BY <1>1, <2>1, <2>2, <2>3, <2>5, Zenon
    <2> QED BY <2>4, <2>5, Zenon
  <1>5. OfPacket(q, a) = (l + 1)..(l + m)
    <2>1. \A k : k \in OfPacket(q, a) <=> k \in 1..(l + m) /\ q[k].packet = a
      BY <1>1, Zenon DEF OfPacket
    <2>2. \A k : k \in 1..(l + m) <=> k \in 1..l \/ k \in (l + 1)..(l + m)
      BY <1>2, Zenon
    <2>3. ASSUME NEW k \in OfPacket(q, a) PROVE k \in (l + 1)..(l + m)
      <3>1. (k \in 1..l \/ k \in (l + 1)..(l + m)) /\ q[k].packet = a
        BY <2>1, <2>2, <2>3, Zenon
      <3>2. k \notin 1..l
        BY <1>1, <1>3, <3>1, Zenon
      <3> QED BY <3>1, <3>2, Zenon
    <2>4. ASSUME NEW k \in (l + 1)..(l + m) PROVE k \in OfPacket(q, a)
      BY <1>1, <2>1, <2>2, <2>4, Zenon
    <2> QED BY <2>3, <2>4, Zenon
  <1>6. Cardinality((l + 1)..(l + m)) = m
    <2>1. Cardinality((l + 1)..(l + m)) = IF l + 1 > l + m THEN 0 ELSE (l + m) - (l + 1) + 1
      BY FS_Interval
    <2> QED BY <2>1
  <1> QED BY <1>4, <1>5, <1>6, Zenon DEF CountsBehind

LEMMA ItemsGrow ==
  ASSUME kMaxNumberInCframe \in Nat, NEW s, NEW q, NEW A \in Seq(AddedPackets),
         NEW start \in Nat, start <= Len(A), HoldsItems(s, A, start, Len(A) - 1),
         NEW p \in AddedPackets, NEW l \in Nat, NEW m \in Nat,
         Takes(m, p.n, l), Behind(q, s, l, m, Len(A), Len(A) - start)
  PROVE  HoldsItems(q, Append(A, p), start, Len(A))
  <1> DEFINE B == Append(A, p)  a == Len(A)
  <1>1. /\ a \in Nat /\ B[a + 1] = p /\ \A i \in 1..a : B[i] = A[i] /\ A[i] \in AddedPackets
    BY AfterAdding
  <1>2. /\ Len(q) = l + m /\ Len(s) = l /\ \A k \in 1..l : q[k] = s[k]
        /\ \A k \in (l + 1)..(l + m) : q[k].packet = a /\ q[k].since = a - start
    BY Zenon DEF Behind
  <1>3. p.n \in Nat
    BY DEF AddedPackets
  <1>4. /\ l <= kMaxNumberInCframe
        /\ \A k \in 1..l : s[k].packet \in start..(a - 1) /\ s[k].since = s[k].packet - start
        /\ \A k \in 1..(l - 1) : s[k].packet <= s[k + 1].packet
        /\ \A t \in start..(a - 1) :
             /\ Cardinality(OfPacket(s, t)) <= A[t + 1].n
             /\ Cardinality(OfPacket(s, t)) < A[t + 1].n => l = kMaxNumberInCframe
    BY <1>2, Zenon DEF HoldsItems
  <1>5. /\ l + m <= kMaxNumberInCframe /\ (m < p.n => l + m = kMaxNumberInCframe) /\ m <= p.n
        /\ (l = kMaxNumberInCframe => l + m = kMaxNumberInCframe)
    <2>1. l <= kMaxNumberInCframe
      BY <1>4, Zenon
    <2>2. AsRoomAllows(m, p.n, l)
      BY <1>3, <2>1, RoomIs
    <2> QED BY <2>2, Zenon DEF AsRoomAllows
  <1>6. Behind(q, s, l, m, a, a - start)
    OBVIOUS
  <1> HIDE DEF B, a
  <1>7. \A k \in 1..l : s[k].packet \in Int /\ s[k].packet < a
    <2> SUFFICES ASSUME NEW k \in 1..l PROVE s[k].packet \in Int /\ s[k].packet < a
      OBVIOUS
    <2>1. s[k].packet \in start..(a - 1)
      BY <1>4, Zenon
    <2> QED BY <1>1, <2>1, BeforeIs, Zenon
  <1>8. \A k \in 1..(l + m) : q[k].packet \in start..a /\ q[k].since = q[k].packet - start
    <2> SUFFICES ASSUME NEW k \in 1..(l + m)
                 PROVE  q[k].packet \in start..a /\ q[k].since = q[k].packet - start
      OBVIOUS
    <2>1. k \in 1..l \/ k \in (l + 1)..(l + m)
      OBVIOUS
    <2>2. start..(a - 1) \subseteq start..a /\ a \in start..a
      BY <1>1 DEF a
    <2>3. CASE k \in 1..l
      <3>1. q[k] = s[k]
        BY <1>2, <2>3, Zenon
      <3>2. s[k].packet \in start..(a - 1) /\ s[k].since = s[k].packet - start
        BY <1>4, <2>3, Zenon
      <3>3. s[k].packet \in start..a
        BY <2>2, <3>2, Zenon
      <3> QED BY <3>1, <3>2, <3>3, Zenon
    <2>4. CASE k \in (l + 1)..(l + m)
      <3>1. q[k].packet = a /\ q[k].since = a - start
        BY <1>2, <2>4, Zenon
      <3> QED BY <2>2, <3>1, Zenon
    <2> QED BY <2>1, <2>3, <2>4
  <1>9. \A k \in 1..(l + m - 1) : q[k].packet <= q[k + 1].packet
    <2>1. a \in Int
      BY <1>1
    <2> QED BY <1>4, <1>6, <1>7, <2>1, BehindKeepsOrder, Zenon
  <1>10. /\ \A t : t # a => OfPacket(q, t) = OfPacket(s, t)
         /\ Cardinality(OfPacket(q, a)) = m
    <2>1. a \in Int
      BY <1>1
    <2>2. CountsBehind(q, s, m, a)
      BY <1>6, <1>7, <2>1, BehindIsCounted
    <2> QED BY <2>2, Zenon DEF CountsBehind
  <1>11. ASSUME NEW t \in start..a
         PROVE  /\ Cardinality(OfPacket(q, t)) <= B[t + 1].n
                /\ Cardinality(OfPacket(q, t)) < B[t + 1].n => l + m = kMaxNumberInCframe
    <2>1. CASE t = a
      <3>1. B[t + 1].n = p.n /\ Cardinality(OfPacket(q, t)) = m
        BY <1>1, <1>10, <2>1, Zenon
      <3> QED BY <1>5, <3>1, Zenon
    <2>2. CASE t # a
      <3>1. t \in start..(a - 1) /\ t + 1 \in 1..a
        BY <1>1, <2>2
      <3>2. B[t + 1] = A[t + 1] /\ OfPacket(q, t) = OfPacket(s, t)
        BY <1>1, <1>10, <2>2, <3>1, Zenon
      <3> QED BY <1>4, <1>5, <3>1, <3>2, Zenon
    <2> QED BY <2>1, <2>2
  <1>12. /\ 1..Len(q) = 1..(l + m) /\ 1..(Len(q) - 1) = 1..(l + m - 1)
         /\ Len(q) <= kMaxNumberInCframe
         /\ (Len(q) = kMaxNumberInCframe <=> l + m = kMaxNumberInCframe)
    <2>1. Len(q) = l + m
      BY <1>2
    <2> QED BY <1>5, <2>1
  <1>13. HoldsItems(q, B, start, a)
    BY <1>8, <1>9, <1>11, <1>12, Zenon DEF HoldsItems
  <1> QED BY <1>13, Zenon DEF B, a

LEMMA HoldsSize ==
  ASSUME kMaxNumberInCframe \in Nat, NEW s \in Seq(ConvertedPoints), NEW A, NEW start, NEW hi,
         HoldsItems(s, A, start, hi)
  PROVE  Len(s) \in Nat /\ kMaxNumberInCframe - Len(s) \in Nat
  <1>1. Len(s) \in Nat /\ Len(s) <= kMaxNumberInCframe
    BY LenProperties DEF HoldsItems
  <1> QED BY <1>1

(* What update_current_cframe_v2_ makes of a frame.                        *)
LEMMA UpdatedIs ==
  ASSUME kMaxNumberInCframe \in Nat, NEW f \in ConvertedFrames, NEW p \in AddedPackets,
         kMaxNumberInCframe - Len(f.items) \in Nat
  PROVE  LET g == Updated(f, p)
             l == Len(f.items)
             m == IF p.n < kMaxNumberInCframe - l THEN p.n ELSE kMaxNumberInCframe - l
         IN  /\ g \in ConvertedFrames /\ g.idx = f.idx /\ g.start = f.start /\ g.end = p.ts
             /\ g.conf = IF p.conf < f.conf THEN p.conf ELSE f.conf
             /\ Behind(g.items, f.items, l, m, p.ts, p.ts - f.start) /\ l \in Nat /\ m \in Nat
  <1> DEFINE g == Updated(f, p)
             l == Len(f.items)
             m == IF p.n < kMaxNumberInCframe - l THEN p.n ELSE kMaxNumberInCframe - l
             points == [i \in 1..p.n |-> [packet |-> p.ts, since |-> p.ts - f.start]]
             r == SubSeq(points, 1, m)
             conf == IF p.conf < f.conf THEN p.conf ELSE f.conf
             items == f.items \o r
  <1>1. /\ p.n \in Nat /\ p.ts \in Int /\ p.conf \in Int /\ f.start \in Int /\ f.conf \in Int
        /\ f.items \in Seq(ConvertedPoints)
    BY DEF AddedPackets, ConvertedFrames
  <1>2. m \in Nat /\ m <= p.n /\ conf \in Int
    BY <1>1
  <1>3. \A i \in 1..p.n : /\ points[i] \in ConvertedPoints
                          /\ points[i].packet = p.ts /\ points[i].since = p.ts - f.start
    BY <1>1 DEF ConvertedPoints
  <1> HIDE DEF m, points, conf
  <1>4. \A i \in 1..m : i \in 1..p.n
    BY <1>1, <1>2
  <1>5. r \in Seq(ConvertedPoints) /\ Len(r) = m /\ \A i \in 1..m : r[i] = points[i]
    <2>1. \A i \in 1..m : points[i] \in ConvertedPoints
      BY <1>3, <1>4, Zenon
    <2>2. /\ r \in Seq(ConvertedPoints) /\ Len(r) = IF 1 <= m THEN m - 1 + 1 ELSE 0
          /\ \A i \in 1..(m - 1 + 1) : r[i] = points[1 + i - 1]
      BY <1>2, <2>1, SubSeqProperties
    <2>3. Len(r) = m /\ m - 1 + 1 = m
      BY <1>2, <2>2
    <2>4. \A i \in 1..m : 1 + i - 1 = i
      BY <1>2
    <2> QED BY <2>2, <2>3, <2>4, Zenon
  <1>6. \A k \in 1..Len(r) : r[k].packet = p.ts /\ r[k].since = p.ts - f.start
    BY <1>3, <1>4, <1>5, Zenon
  <1> HIDE DEF r
  <1>7. /\ Behind(items, f.items, l, Len(r), p.ts, p.ts - f.start)
        /\ items \in Seq(ConvertedPoints) /\ l \in Nat
    BY <1>1, <1>5, <1>6, BehindIs
  <1>8. g = [f EXCEPT !.end = p.ts, !.conf = conf, !.items = items]
    BY Zenon DEF Updated, conf, items, r, points, m
  <1> HIDE DEF items, g, l
  <1>9. /\ g \in ConvertedFrames /\ g.idx = f.idx /\ g.start = f.start /\ g.end = p.ts
        /\ g.conf = conf /\ g.items = items
    BY <1>1, <1>2, <1>7, <1>8 DEF ConvertedFrames
  <1>10. Behind(g.items, f.items, l, m, p.ts, p.ts - f.start)
    BY <1>5, <1>7, <1>9, Zenon
  <1> QED BY <1>2, <1>7, <1>9, <1>10, Zenon DEF g, l, m, conf

LEMMA StartedIs ==
  ASSUME NEW p \in AddedPackets
  PROVE  /\ Started(p) \in ConvertedFrames /\ Started(p).idx = p.idx /\ Started(p).start = p.ts
         /\ Started(p).end = p.ts /\ Started(p).conf = Highest /\ Started(p).items = <<>>
  <1>1. <<>> \in Seq(ConvertedPoints)
    BY EmptySeq
  <1> QED BY <1>1 DEF Started, AddedPackets, ConvertedFrames, Highest

(* What is told of packets stays true when others come.                    *)
LEMMA StaysWhole ==
  ASSUME NEW A \in Seq(AddedPackets), NEW p \in AddedPackets, NEW f \in ConvertedFrames,
         f.start \in Nat, NEW hi \in 0..(Len(A) - 1)
  PROVE  /\ OneNumber(f, A, hi) <=> OneNumber(f, Append(A, p), hi)
         /\ WholeTo(f, A, hi) <=> WholeTo(f, Append(A, p), hi)
  <1>1. \A t \in f.start..hi : Append(A, p)[t + 1] = A[t + 1]
    <2>1. \A t \in f.start..hi : t + 1 \in 1..Len(A)
      BY AfterAdding
    <2> QED BY <2>1, AfterAdding
  <1>2. OneNumber(f, A, hi) <=> OneNumber(f, Append(A, p), hi)
    BY <1>1, Zenon DEF OneNumber
  <1>3. HoldsItems(f.items, A, f.start, hi) <=> HoldsItems(f.items, Append(A, p), f.start, hi)
    BY <1>1, Zenon DEF HoldsItems
  <1> QED BY <1>1, <1>2, <1>3, Zenon DEF WholeTo

(* The first packet of a frame.                                            *)
LEMMA FrameBegins ==
  ASSUME kMaxNumberInCframe \in Nat, NEW A \in Seq(AddedPackets), NEW p \in AddedPackets,
         p.ts = Len(A)
  PROVE  LET f == Started(p)
             g == Updated(f, p)
             B == Append(A, p)
         IN  /\ g \in ConvertedFrames /\ g.idx = p.idx /\ g.start = Len(A) /\ g.end = Len(A)
             /\ WholeTo(g, B, Len(A)) /\ OneNumber(f, B, Len(A))
  <1> DEFINE f == Started(p)  g == Updated(f, p)  B == Append(A, p)  a == Len(A)
             m == IF p.n < kMaxNumberInCframe - 0 THEN p.n ELSE kMaxNumberInCframe - 0
  <1>1. a \in Nat /\ B[a + 1] = p
    BY AfterAdding
  <1>2. /\ f \in ConvertedFrames /\ f.idx = p.idx /\ f.start = a /\ f.conf = Highest
        /\ f.items = <<>>
    BY StartedIs
  <1>3. Len(<<>>) = 0 /\ f.items \in Seq(ConvertedPoints)
    BY <1>2, EmptySeq DEF ConvertedFrames
  <1> HIDE DEF f, B
  <1>4. /\ g \in ConvertedFrames /\ g.idx = p.idx /\ g.start = a /\ g.end = a
        /\ g.conf = IF p.conf < Highest THEN p.conf ELSE Highest
        /\ Behind(g.items, f.items, 0, m, a, a - a) /\ m \in Nat
    <2>1. kMaxNumberInCframe - Len(f.items) \in Nat /\ Len(f.items) = 0
      BY <1>2, <1>3
    <2>2. LET l == Len(f.items)
              n == IF p.n < kMaxNumberInCframe - l THEN p.n ELSE kMaxNumberInCframe - l
          IN  /\ g \in ConvertedFrames /\ g.idx = f.idx /\ g.start = f.start /\ g.end = p.ts
              /\ g.conf = IF p.conf < f.conf THEN p.conf ELSE f.conf
              /\ Behind(g.items, f.items, l, n, p.ts, p.ts - f.start) /\ l \in Nat /\ n \in Nat
      BY <1>2, <2>1, UpdatedIs, Zenon
    <2>3. (IF p.n < kMaxNumberInCframe - Len(f.items) THEN p.n
           ELSE kMaxNumberInCframe - Len(f.items)) = m
      BY <2>1, Zenon
    <2> HIDE DEF m, g
    <2>4. g \in ConvertedFrames /\ g.idx = p.idx /\ g.start = a /\ g.end = a
      BY <1>2, <2>2, Zenon
    <2>5. g.conf = IF p.conf < Highest THEN p.conf ELSE Highest
      BY <1>2, <2>2, Zenon
    <2>6. Behind(g.items, f.items, Len(f.items), m, p.ts, p.ts - f.start) /\ m \in Nat
      BY <2>2, <2>3
    <2>7. Behind(g.items, f.items, 0, m, a, a - a)
      BY <1>2, <2>1, <2>6
    <2> QED BY <2>4, <2>5, <2>6, <2>7, Zenon
  <1> HIDE DEF g
  <1>5. HoldsItems(f.items, A, a, a - 1)
    <2>1. 1..0 = {} /\ 1..(0 - 1) = {} /\ a..(a - 1) = {} /\ 0 <= kMaxNumberInCframe
      BY <1>1
    <2> HIDE DEF a
    <2>2. Len(f.items) = 0
      BY <1>2, <1>3
    <2>3. HoldsItems(f.items, A, a, a - 1)
      BY <2>1, <2>2 DEF HoldsItems
    <2> QED BY <2>3
  <1>6. HoldsItems(g.items, B, a, a)
    <2>1. a <= Len(A) /\ 0 \in Nat
      BY <1>1
    <2>2. Takes(m, p.n, 0)
      BY Zenon DEF Takes
    <2> HIDE DEF m
    <2> QED BY <1>1, <1>4, <1>5, <2>1, <2>2, ItemsGrow DEF B
  <1>7. p.conf \in Int /\ g.conf = p.conf
    <2>1. p.conf \in Int /\ p.conf <= Highest
      BY DEF AddedPackets
    <2>2. Highest \in Int
      BY DEF Highest
    <2> QED BY <1>4, <2>1, <2>2
  <1>8. g.start..a = {a} /\ f.start..a = {a}
    BY <1>1, <1>2, <1>4
  <1>9. OneNumber(f, B, a) /\ OneNumber(g, B, a)
    BY <1>1, <1>2, <1>4, <1>8, Zenon DEF OneNumber
  <1>10. p.conf >= p.conf
    BY <1>7
  <1>11. WholeTo(g, B, a)
    BY <1>1, <1>4, <1>6, <1>7, <1>8, <1>9, <1>10, Zenon DEF WholeTo
  <1> QED BY <1>4, <1>9, <1>11, Zenon DEF f, g, B

(* One more packet of a frame.                                             *)
LEMMA FrameGoesOn ==
  ASSUME kMaxNumberInCframe \in Nat, NEW A \in Seq(AddedPackets), NEW p \in AddedPackets,
         p.ts = Len(A), NEW f \in ConvertedFrames, f.start \in 0..(Len(A) - 1),
         OneNumber(f, A, Len(A) - 1), p.idx = f.idx
  PROVE  LET g == Updated(f, p)
             B == Append(A, p)
         IN  /\ OneNumber(f, B, Len(A))
             /\ WholeTo(f, A, Len(A) - 1) =>
                  /\ g \in ConvertedFrames /\ g.idx = f.idx /\ g.start = f.start /\ g.end = Len(A)
                  /\ WholeTo(g, B, Len(A)) /\ OneNumber(g, B, Len(A))
  <1> DEFINE g == Updated(f, p)  B == Append(A, p)  a == Len(A)
             l == Len(f.items)
             m == IF p.n < kMaxNumberInCframe - l THEN p.n ELSE kMaxNumberInCframe - l
  <1>1. a \in Nat /\ B[a + 1] = p /\ \A i \in 1..a : B[i] = A[i] /\ A[i] \in AddedPackets
    BY AfterAdding
  <1>2. f.start \in 0..(a - 1) /\ f.start \in Nat /\ f.items \in Seq(ConvertedPoints)
    BY <1>1 DEF ConvertedFrames
  <1> HIDE DEF B
  <1>3. \A t \in f.start..a : \/ t = a /\ B[t + 1] = p
                              \/ t \in f.start..(a - 1) /\ B[t + 1] = A[t + 1]
                                 /\ A[t + 1] \in AddedPackets
    <2> SUFFICES ASSUME NEW t \in f.start..a, t # a
                 PROVE  t \in f.start..(a - 1) /\ B[t + 1] = A[t + 1] /\ A[t + 1] \in AddedPackets
      BY <1>1
    <2>1. t \in f.start..(a - 1) /\ t + 1 \in 1..a
      BY <1>1, <1>2
    <2> QED BY <1>1, <2>1
  <1>4. OneNumber(f, B, a)
    BY <1>3, Zenon DEF OneNumber
  <1>5. ASSUME WholeTo(f, A, a - 1)
        PROVE  /\ g \in ConvertedFrames /\ g.idx = f.idx /\ g.start = f.start /\ g.end = a
               /\ WholeTo(g, B, a) /\ OneNumber(g, B, a)
    <2>1. HoldsItems(f.items, A, f.start, a - 1)
      BY <1>5, Zenon DEF WholeTo
    <2>2. kMaxNumberInCframe - l \in Nat /\ l \in Nat
      BY <1>2, <2>1, HoldsSize
    <2>3. /\ g \in ConvertedFrames /\ g.idx = f.idx /\ g.start = f.start /\ g.end = p.ts
          /\ g.conf = IF p.conf < f.conf THEN p.conf ELSE f.conf
          /\ Behind(g.items, f.items, l, m, p.ts, p.ts - f.start) /\ l \in Nat /\ m \in Nat
      BY <2>2, UpdatedIs, Zenon
    <2> HIDE DEF g, l
    <2>4. HoldsItems(g.items, B, f.start, a)
      <3>1. Behind(g.items, f.items, l, m, a, a - f.start) /\ f.start <= a
        BY <1>1, <1>2, <2>3
      <3>2. Takes(m, p.n, l)
        BY Zenon DEF Takes
      <3> HIDE DEF m
      <3> QED BY <1>2, <2>1, <2>3, <3>1, <3>2, ItemsGrow DEF B
    <2>5. OneNumber(g, B, a)
      BY <1>4, <2>3, Zenon DEF OneNumber
    <2>6. p.conf \in Int /\ f.conf \in Int /\ \A t \in f.start..(a - 1) : A[t + 1].conf \in Int
      <3>1. \A t \in f.start..(a - 1) : t + 1 \in 1..a
        BY <1>1, <1>2
      <3>2. \A c \in AddedPackets : c.conf \in Int
        BY DEF AddedPackets
      <3>3. f.conf \in Int
        BY DEF ConvertedFrames
      <3> QED BY <1>1, <3>1, <3>2, <3>3, Zenon
    <2>7. /\ \A t \in f.start..(a - 1) : A[t + 1].conf >= f.conf
          /\ \E t \in f.start..(a - 1) : A[t + 1].conf = f.conf
      BY <1>5, Zenon DEF WholeTo
    <2>8. g.conf \in Int /\ g.conf <= p.conf /\ g.conf <= f.conf /\ (g.conf = p.conf \/ g.conf = f.conf)
      BY <2>3, <2>6, LowerIs, Zenon
    <2>9. \A t \in f.start..a : B[t + 1].conf >= g.conf
      <3> SUFFICES ASSUME NEW t \in f.start..a PROVE B[t + 1].conf >= g.conf
        OBVIOUS
      <3>1. CASE B[t + 1] = p
        BY <2>6, <2>8, <3>1
      <3>2. CASE t \in f.start..(a - 1) /\ B[t + 1] = A[t + 1]
        <4>1. A[t + 1].conf \in Int /\ A[t + 1].conf >= f.conf
          BY <2>6, <2>7, <3>2, Zenon
        <4>2. A[t + 1].conf >= g.conf
          BY <2>6, <2>8, <4>1, LowerStill, Zenon
        <4> QED BY <3>2, <4>2, Zenon
      <3> QED BY <1>3, <3>1, <3>2, Zenon
    <2>10. \E t \in f.start..a : B[t + 1].conf = g.conf
      <3>1. a \in f.start..a
        BY <1>1, <1>2
      <3>2. CASE g.conf = p.conf
        BY <1>1, <3>1, <3>2, Zenon
      <3>3. CASE g.conf = f.conf
        <4>1. PICK t \in f.start..(a - 1) : A[t + 1].conf = f.conf
          BY <2>7, Zenon
        <4>2. t \in f.start..a /\ t + 1 \in 1..a
          BY <1>1, <1>2
        <4>3. B[t + 1] = A[t + 1]
          BY <1>1, <4>2, Zenon
        <4> QED BY <3>3, <4>1, <4>2, <4>3, Zenon
      <3> QED BY <2>8, <3>2, <3>3
    <2>11. WholeTo(g, B, a)
      BY <2>3, <2>4, <2>5, <2>9, <2>10, Zenon DEF WholeTo
    <2> QED BY <2>3, <2>5, <2>11, Zenon
  <1> QED BY <1>4, <1>5, Zenon DEF g, B

(* The end of a frame is told when the next begins.                        *)
EndedAt(f, t) == [f EXCEPT !.end = t]

LEMMA EndedIs ==
  ASSUME NEW f \in ConvertedFrames, NEW t \in Int
  PROVE  LET g == EndedAt(f, t)
         IN  /\ g \in ConvertedFrames /\ g.idx = f.idx /\ g.start = f.start /\ g.end = t
             /\ g.conf = f.conf /\ g.items = f.items
             /\ \A A, hi : WholeTo(f, A, hi) => WholeTo(g, A, hi)
  <1> DEFINE g == EndedAt(f, t)
  <1>1. /\ g \in ConvertedFrames /\ g.idx = f.idx /\ g.start = f.start /\ g.end = t
        /\ g.conf = f.conf /\ g.items = f.items
    BY DEF EndedAt, ConvertedFrames
  <1> HIDE DEF g
  <1>2. ASSUME NEW A, NEW hi, WholeTo(f, A, hi) PROVE WholeTo(g, A, hi)
    <2>1. OneNumber(g, A, hi) <=> OneNumber(f, A, hi)
      BY <1>1, Zenon DEF OneNumber
    <2> QED BY <1>1, <1>2, <2>1, Zenon DEF WholeTo
  <1> QED BY <1>1, <1>2, Zenon DEF g

HandingOf(buffer, frame, kept, closed) ==
  [buffer |-> buffer, frame |-> frame, kept |-> kept, closed |-> closed]

LEMMA HandingIs ==
  ASSUME NEW b \in {0, 1}, NEW f \in ConvertedFrames, NEW k \in BOOLEAN, NEW c \in BOOLEAN
  PROVE  LET h == HandingOf(b, f, k, c)
         IN  h \in Handings /\ h.buffer = b /\ h.frame = f /\ (h.kept <=> k) /\ (h.closed <=> c)
  BY DEF HandingOf, Handings

HandsTo(h, b, f, c) == h \in Handings /\ h.buffer = b /\ h.frame = f /\ (h.closed <=> c)

LEMMA HandsIs ==
  ASSUME NEW b \in {0, 1}, NEW f \in ConvertedFrames, NEW c \in BOOLEAN
  PROVE  HandsTo(Hands(b, f, c), b, f, c)
  <1> DEFINE k == TRUE
  <1>1. Hands(b, f, c) = HandingOf(b, f, k, c) /\ k \in BOOLEAN
    BY Zenon DEF Hands, HandingOf
  <1> HIDE DEF k
  <1>2. LET h == HandingOf(b, f, k, c)
        IN  h \in Handings /\ h.buffer = b /\ h.frame = f /\ (h.kept <=> k) /\ (h.closed <=> c)
    BY <1>1, HandingIs
  <1> QED BY <1>1, <1>2, Zenon DEF HandsTo

NotKept(h, k) == [h EXCEPT !.kept = k]

LEMMA NotKeptIs ==
  ASSUME NEW h \in Handings, NEW k \in BOOLEAN
  PROVE  LET n == NotKept(h, k)
         IN  /\ n \in Handings /\ n.buffer = h.buffer /\ n.frame = h.frame /\ (n.kept <=> k)
             /\ (n.closed <=> h.closed)
  BY DEF NotKept, Handings

LEMMA OlderIs ==
  ASSUME AddedInv
  PROVE  /\ Older \in Handings
         /\ Older = Nothing \/ (handed # Nothing /\ Older.frame = handed.frame /\ ~Older.kept
                                /\ (Older.closed <=> handed.closed))
  <1>1. handed \in Handings
    BY DEF AddedInv
  <1>2. CASE handed = Nothing
    BY <1>1, <1>2, Zenon DEF Older
  <1>3. CASE handed # Nothing
    <2> DEFINE k == FALSE
    <2>1. Older = NotKept(handed, k) /\ k \in BOOLEAN /\ ~k
      BY <1>3, Zenon DEF Older, NotKept
    <2> HIDE DEF k
    <2>2. LET n == NotKept(handed, k)
          IN  /\ n \in Handings /\ n.buffer = handed.buffer /\ n.frame = handed.frame
              /\ (n.kept <=> k) /\ (n.closed <=> handed.closed)
      BY <1>1, <2>1, NotKeptIs
    <2> QED BY <1>3, <2>1, <2>2, Zenon
  <1> QED BY <1>2, <1>3

LEMMA NothingIs == Nothing \in Handings /\ Blank \in ConvertedFrames
  <1>1. Blank \in ConvertedFrames
    <2>1. <<>> \in Seq(ConvertedPoints)
      BY EmptySeq
    <2> QED BY <2>1 DEF Blank, ConvertedFrames
  <1>2. Nothing = HandingOf(0, Blank, TRUE, FALSE) /\ TRUE \in BOOLEAN /\ FALSE \in BOOLEAN
    BY Zenon DEF Nothing, HandingOf
  <1>3. 0 \in {0, 1}
    OBVIOUS
  <1> QED BY <1>1, <1>2, <1>3, HandingIs

-----------------------------------------------------------------------------
(* What add_data_packet does.                                              *)
LEMMA PacketOfFrame ==
  ASSUME AddedInv, NEW p \in AddedPackets, AddDataPacket(p), p.idx = current.id
  PROVE  LET b == current.buffer
         IN  /\ current' = [id |-> p.idx, buffer |-> b] /\ handed' = handed
             /\ cframes' \in [{0, 1} -> UNION {ConvertedFrames, {Updated(cframes[b], p)}}]
             /\ cframes'[b] = IF Wanted(p.idx) THEN Updated(cframes[b], p) ELSE cframes[b]
             /\ \A c \in {0, 1} : c # b => cframes'[c] = cframes[c]
  <1> DEFINE b == current.buffer
  <1>1. b \in {0, 1} /\ cframes \in [{0, 1} -> ConvertedFrames]
    BY DEF AddedInv
  <1>2. /\ current' = [id |-> p.idx, buffer |-> b] /\ handed' = handed
        /\ cframes' = [[[cframes EXCEPT ![b] = @] EXCEPT ![b] = @]
                         EXCEPT ![b] = IF Wanted(p.idx) THEN Updated(@, p) ELSE @]
    BY Zenon DEF AddDataPacket
  <1>3. [[cframes EXCEPT ![b] = @] EXCEPT ![b] = @] = cframes
    BY <1>1
  <1>4. cframes' = [cframes EXCEPT ![b] = IF Wanted(p.idx) THEN Updated(cframes[b], p) ELSE cframes[b]]
    BY <1>2, <1>3, Zenon
  <1> QED BY <1>1, <1>2, <1>4

LEMMA PacketOfNext ==
  ASSUME AddedInv, NEW p \in AddedPackets, AddDataPacket(p), p.idx # current.id
  PROVE  LET b    == current.buffer
             done == IF current.id >= 0 THEN EndedAt(cframes[b], p.ts) ELSE cframes[b]
         IN  /\ current' = [id |-> p.idx, buffer |-> Other(b)]
             /\ cframes'[Other(b)] = IF Wanted(p.idx) THEN Updated(Started(p), p) ELSE Started(p)
             /\ cframes'[b] = done /\ DOMAIN cframes' = {0, 1}
             /\ handed' = IF current.id >= 0 /\ Wanted(current.id) THEN Hands(b, done, FALSE) ELSE Older
             /\ cframes' = [c \in {0, 1} |-> cframes'[c]]
  <1> DEFINE b    == current.buffer
             ended == EndedAt(cframes[b], p.ts)
             done == IF current.id >= 0 THEN ended ELSE cframes[b]
             next == IF Wanted(p.idx) THEN Updated(Started(p), p) ELSE Started(p)
  <1>1. b \in {0, 1} /\ cframes \in [{0, 1} -> ConvertedFrames] /\ Other(b) \in {0, 1} /\ Other(b) # b
    BY DEF AddedInv, Other
  <1>2. /\ current' = [id |-> p.idx, buffer |-> Other(b)]
        /\ handed' = IF current.id >= 0 /\ Wanted(current.id) THEN Hands(b, ended, FALSE) ELSE Older
        /\ cframes' = [[[cframes EXCEPT ![b] = IF current.id >= 0 THEN ended ELSE @]
                          EXCEPT ![Other(b)] = Started(p)]
                         EXCEPT ![Other(b)] = IF Wanted(p.idx) THEN Updated(@, p) ELSE @]
    BY Zenon DEF AddDataPacket, EndedAt
  <1> HIDE DEF b, ended
  <1>3. cframes' = [[cframes EXCEPT ![b] = done] EXCEPT ![Other(b)] = next]
    <2> DEFINE F == [cframes EXCEPT ![b] = done]
    <2>1. cframes' = [[F EXCEPT ![Other(b)] = Started(p)]
                         EXCEPT ![Other(b)] = IF Wanted(p.idx) THEN Updated(@, p) ELSE @]
      BY <1>2, Zenon
    <2>2. DOMAIN F = {0, 1}
      BY <1>1
    <2> HIDE DEF F, done
    <2>3. [F EXCEPT ![Other(b)] = Started(p)][Other(b)] = Started(p)
      BY <1>1, <2>2
    <2>4. cframes' = [[F EXCEPT ![Other(b)] = Started(p)] EXCEPT ![Other(b)] = next]
      BY <2>1, <2>3, Zenon
    <2> HIDE DEF next
    <2>5. [[F EXCEPT ![Other(b)] = Started(p)] EXCEPT ![Other(b)] = next] = [F EXCEPT ![Other(b)] = next]
      BY <1>1, <2>2
    <2> QED BY <2>4, <2>5, Zenon DEF F
  <1>4. /\ cframes'[Other(b)] = next /\ cframes'[b] = done /\ DOMAIN cframes' = {0, 1}
        /\ cframes' = [c \in {0, 1} |-> cframes'[c]]
    <2> HIDE DEF done, next
    <2> QED BY <1>1, <1>3
  <1>5. current.id >= 0 => ended = done
    BY Zenon
  <1> QED BY <1>2, <1>4, <1>5, Zenon DEF b, ended

-----------------------------------------------------------------------------
(* The steps.                                                              *)
LEMMA HandedStays ==
  ASSUME NEW A \in Seq(AddedPackets), NEW p \in AddedPackets, NEW h \in Handings, HandedTo(h, A)
  PROVE  HandedTo(h, Append(A, p))
  <1>1. PICK hi \in 0..(Len(A) - 1) :
          /\ WholeTo(h.frame, A, hi) /\ h.frame.start \in 0..hi
          /\ h.closed => h.frame.end = hi
          /\ ~h.closed => h.frame.end = hi + 1
    BY Zenon DEF HandedTo
  <1>2. h.frame \in ConvertedFrames /\ h.frame.start \in Nat
    BY <1>1 DEF Handings
  <1>3. WholeTo(h.frame, Append(A, p), hi)
    BY <1>1, <1>2, StaysWhole
  <1>4. hi \in 0..(Len(Append(A, p)) - 1)
    BY AfterAdding
  <1> QED BY <1>1, <1>3, <1>4, Zenon DEF HandedTo

LEMMA AddingStep ==
  ASSUME kMaxNumberInCframe \in Nat, ConverterInv, NEW p \in AddedPackets, p.ts = Len(added),
         AddDataPacket(p)
  PROVE  ConverterInv'
  <1> DEFINE a == Len(added)  b == current.buffer  f == cframes[b]
  <1>1. /\ interval' = interval /\ added' = Append(added, p) /\ p.idx \in 0..2 /\ p.ts \in Int
    BY DEF AddDataPacket, AddedPackets
  <1>2. /\ added \in Seq(AddedPackets) /\ \A i \in 1..a : added[i].ts = i - 1
        /\ current \in [id : -1..2, buffer : {0, 1}] /\ cframes \in [{0, 1} -> ConvertedFrames]
        /\ handed \in Handings /\ interval \in Nat /\ b \in {0, 1} /\ f \in ConvertedFrames
    BY DEF ConverterInv, AddedInv
  <1>3. /\ added' \in Seq(AddedPackets) /\ Len(added') = a + 1 /\ a \in Nat
        /\ \A i \in 1..Len(added') : added'[i].ts = i - 1
    <2>1. /\ added' \in Seq(AddedPackets) /\ Len(added') = a + 1 /\ a \in Nat
          /\ added'[a + 1] = p /\ \A i \in 1..a : added'[i] = added[i]
      BY <1>1, <1>2, AfterAdding
    <2> HIDE DEF a
    <2>2. p.ts = a
      BY DEF a
    <2>3. ASSUME NEW i \in 1..(a + 1) PROVE added'[i].ts = i - 1
      <3>1. CASE i = a + 1
        BY <2>1, <2>2, <3>1
      <3>2. CASE i # a + 1
        <4>1. i \in 1..a
          BY <2>1, <3>2
        <4> QED BY <1>2, <2>1, <4>1
      <3> QED BY <3>1, <3>2
    <2> QED BY <2>1, <2>3
  <1>4. HandedInv'
    <2>1. handed' = handed => HandedInv'
      BY <1>1, <1>2, HandedStays, Zenon DEF ConverterInv, HandedInv
    <2>2. handed' = Older => HandedInv'
      <3>1. CASE Older = Nothing
        BY <3>1, Zenon DEF HandedInv
      <3>2. CASE Older # Nothing
        <4>1. handed # Nothing /\ Older.frame = handed.frame /\ (Older.closed <=> handed.closed)
          BY <3>2, OlderIs, Zenon DEF ConverterInv
        <4>2. HandedTo(handed, Append(added, p))
          BY <1>2, <4>1, HandedStays, Zenon DEF ConverterInv, HandedInv
        <4>3. HandedTo(Older, Append(added, p))
          BY <4>1, <4>2, Zenon DEF HandedTo
        <4> QED BY <1>1, <4>3, Zenon DEF HandedInv
      <3> QED BY <3>1, <3>2
    <2>3. ASSUME p.idx # current.id, current.id >= 0, Wanted(current.id),
                 handed' = Hands(b, EndedAt(f, p.ts), FALSE)
          PROVE  HandedInv'
      <3> DEFINE h == Hands(b, EndedAt(f, p.ts), FALSE)
      <3>1. /\ EndedAt(f, p.ts) \in ConvertedFrames /\ EndedAt(f, p.ts).start = f.start
            /\ EndedAt(f, p.ts).end = p.ts
            /\ \A A, hi : WholeTo(f, A, hi) => WholeTo(EndedAt(f, p.ts), A, hi)
        BY <1>1, <1>2, EndedIs
      <3>2. FALSE \in BOOLEAN
        OBVIOUS
      <3>3. h \in Handings /\ h.frame = EndedAt(f, p.ts) /\ ~h.closed
        BY <1>2, <3>1, <3>2, HandsIs, Zenon DEF HandsTo
      <3>4. current.id # -1
        BY <2>3
      <3>5. Grows(f, current.id, added)
        BY <3>4, Zenon DEF ConverterInv, GrowsInv
      <3>6. WholeTo(f, added, a - 1) /\ f.start \in 0..(a - 1)
        BY <2>3, <3>5, Zenon DEF Grows
      <3>7. a - 1 \in 0..(Len(added) - 1)
        BY <1>3, <3>6
      <3>8. WholeTo(f, added', a - 1)
        <4>1. f.start \in Nat
          BY <3>6
        <4> QED BY <1>1, <1>2, <3>6, <3>7, <4>1, StaysWhole, Zenon
      <3>9. a - 1 \in 0..(Len(added') - 1) /\ p.ts = (a - 1) + 1
        BY <1>3, <3>6
      <3> HIDE DEF h, a
      <3>10. HandedTo(h, added')
        BY <3>1, <3>3, <3>6, <3>8, <3>9, Zenon DEF HandedTo
      <3> QED BY <2>3, <3>10, Zenon DEF HandedInv, h
    <2>4. CASE p.idx = current.id
      BY <2>1, <2>4, PacketOfFrame, Zenon DEF ConverterInv
    <2>5. CASE p.idx # current.id
      <3>1. handed' = IF current.id >= 0 /\ Wanted(current.id)
                      THEN Hands(b, IF current.id >= 0 THEN EndedAt(f, p.ts) ELSE f, FALSE)
                      ELSE Older
        BY <2>5, PacketOfNext DEF ConverterInv
      <3>2. CASE current.id >= 0 /\ Wanted(current.id)
        <4>1. handed' = Hands(b, EndedAt(f, p.ts), FALSE)
          BY <3>1, <3>2, Zenon
        <4> QED BY <2>3, <2>5, <3>2, <4>1, Zenon
      <3>3. CASE ~(current.id >= 0 /\ Wanted(current.id))
        <4>1. handed' = Older
          BY <3>1, <3>3, Zenon
        <4> QED BY <2>2, <4>1, Zenon
      <3> QED BY <3>2, <3>3
    <2> QED BY <2>4, <2>5
  <1>5. CASE p.idx = current.id
    <2>1. /\ current' = [id |-> p.idx, buffer |-> b] /\ handed' = handed
          /\ cframes' \in [{0, 1} -> UNION {ConvertedFrames, {Updated(f, p)}}]
          /\ cframes'[b] = IF Wanted(p.idx) THEN Updated(f, p) ELSE f
          /\ \A c \in {0, 1} : c # b => cframes'[c] = cframes[c]
      BY <1>5, PacketOfFrame DEF ConverterInv
    <2>2. current'.id = p.idx /\ current'.buffer = b /\ current' \in [id : -1..2, buffer : {0, 1}]
      BY <1>1, <1>2, <2>1
    <2>3. current.id # -1
      BY <1>1, <1>5
    <2>4. Grows(f, p.idx, added)
      BY <1>5, <2>3, Zenon DEF ConverterInv, GrowsInv
    <2>5. /\ f.idx = p.idx /\ f.start \in 0..(a - 1) /\ OneNumber(f, added, a - 1)
          /\ Wanted(p.idx) => WholeTo(f, added, a - 1)
          /\ ~Wanted(p.idx) => f.items = <<>>
      BY <2>4, Zenon DEF Grows
    <2>6. /\ OneNumber(f, added', a)
          /\ WholeTo(f, added, a - 1) =>
               /\ Updated(f, p) \in ConvertedFrames /\ Updated(f, p).idx = f.idx
               /\ Updated(f, p).start = f.start /\ Updated(f, p).end = a
               /\ WholeTo(Updated(f, p), added', a) /\ OneNumber(Updated(f, p), added', a)
      BY <1>1, <1>2, <2>5, FrameGoesOn
    <2>7. f.start \in 0..a /\ Len(added') - 1 = a
      BY <1>3, <2>5
    <2>8. cframes'[b] \in ConvertedFrames /\ Grows(cframes'[b], p.idx, added')
      <3>1. \A i : Wanted(i)' <=> Wanted(i)
        BY <1>1, Zenon DEF Wanted
      <3> HIDE DEF a, f
      <3>2. CASE Wanted(p.idx)
        BY <2>1, <2>5, <2>6, <2>7, <3>1, <3>2, Zenon DEF Grows
      <3>3. CASE ~Wanted(p.idx)
        <4>1. f \in ConvertedFrames
          BY <1>2
        <4> QED BY <2>1, <2>5, <2>6, <2>7, <3>1, <3>3, <4>1, Zenon DEF Grows
      <3> QED BY <3>2, <3>3
    <2>9. cframes' \in [{0, 1} -> ConvertedFrames]
      <3>1. \A c \in {0, 1} : cframes'[c] \in ConvertedFrames
        BY <1>2, <2>1, <2>8
      <3> QED BY <2>1, <3>1
    <2>10. Grows(cframes[current.buffer], current.id, added)'
      <3>1. \A i : Wanted(i)' <=> Wanted(i)
        BY <1>1, Zenon DEF Wanted
      <3> QED BY <2>2, <2>8, <3>1, Zenon DEF Grows
    <2>11. KeptInv'
      <3>1. handed # Nothing /\ handed.kept => cframes[handed.buffer] = handed.frame /\ handed.buffer # b
        BY <2>3, Zenon DEF ConverterInv, KeptInv
      <3>2. handed.buffer \in {0, 1}
        BY <1>2 DEF Handings
      <3> QED BY <2>1, <2>2, <3>1, <3>2, Zenon DEF KeptInv
    <2> QED BY <1>1, <1>2, <1>3, <1>4, <2>1, <2>2, <2>9, <2>10, <2>11 DEF ConverterInv, AddedInv, GrowsInv
  <1>6. CASE p.idx # current.id
    <2> DEFINE o == Other(b)  ended == EndedAt(f, p.ts)
               done == IF current.id >= 0 THEN ended ELSE f
               g == IF Wanted(p.idx) THEN Updated(Started(p), p) ELSE Started(p)
    <2>1. /\ current' = [id |-> p.idx, buffer |-> o]
          /\ cframes'[o] = g /\ cframes'[b] = done /\ DOMAIN cframes' = {0, 1}
          /\ handed' = IF current.id >= 0 /\ Wanted(current.id) THEN Hands(b, done, FALSE) ELSE Older
          /\ cframes' = [c \in {0, 1} |-> cframes'[c]]
      BY <1>6, PacketOfNext DEF ConverterInv
    <2>2. o \in {0, 1} /\ o # b /\ \A c \in {0, 1} : c = b \/ c = o
      BY <1>2 DEF Other
    <2>3. current'.id = p.idx /\ current'.buffer = o /\ current' \in [id : -1..2, buffer : {0, 1}]
      BY <1>1, <2>1, <2>2
    <2>4. ended \in ConvertedFrames /\ done \in ConvertedFrames
      <3>1. ended \in ConvertedFrames
        BY <1>1, <1>2, EndedIs
      <3> QED BY <1>2, <3>1
    <2>5. /\ g \in ConvertedFrames /\ Grows(g, p.idx, added')
      <3> DEFINE s == Started(p)  u == Updated(s, p)
      <3>1. /\ u \in ConvertedFrames /\ u.idx = p.idx /\ u.start = a /\ u.end = a
            /\ WholeTo(u, added', a) /\ OneNumber(s, added', a)
        BY <1>1, <1>2, FrameBegins
      <3>2. /\ s \in ConvertedFrames /\ s.idx = p.idx /\ s.start = p.ts /\ s.items = <<>>
        BY StartedIs
      <3>3. a \in 0..a /\ Len(added') - 1 = a /\ s.start = a
        BY <1>3, <3>2
      <3>4. \A i : Wanted(i)' <=> Wanted(i)
        BY <1>1, Zenon DEF Wanted
      <3> HIDE DEF a, s, u
      <3>5. CASE Wanted(p.idx)
        <4>1. g = u
          BY <3>5, Zenon DEF u, s
        <4>2. OneNumber(u, added', a)
          BY <3>1, Zenon DEF WholeTo
        <4> HIDE DEF g
        <4> QED BY <3>1, <3>3, <3>5, <4>1, <4>2, Zenon DEF Grows
      <3>6. CASE ~Wanted(p.idx)
        <4>1. g = s
          BY <3>6, Zenon DEF u, s
        <4> HIDE DEF g
        <4> QED BY <3>1, <3>2, <3>3, <3>6, <4>1, Zenon DEF Grows
      <3> QED BY <3>5, <3>6
    <2> HIDE DEF g
    <2>6. cframes' \in [{0, 1} -> ConvertedFrames]
      <3>1. \A c \in {0, 1} : cframes'[c] \in ConvertedFrames
        <4> HIDE DEF done, o, b
        <4> QED BY <2>1, <2>2, <2>4, <2>5, Zenon
      <3> QED BY <2>1, <3>1
    <2>7. Grows(cframes[current.buffer], current.id, added)'
      <3>1. \A i : Wanted(i)' <=> Wanted(i)
        BY <1>1, Zenon DEF Wanted
      <3>2. Grows(cframes'[o], p.idx, added')
        <4> HIDE DEF o
        <4> QED BY <2>1, <2>5, Zenon
      <3> QED BY <2>3, <3>1, <3>2, Zenon DEF Grows
    <2>8. KeptInv' /\ handed' \in Handings
      <3> HIDE DEF o
      <3>1. CASE current.id >= 0 /\ Wanted(current.id)
        <4>1. handed' = Hands(b, done, FALSE) /\ FALSE \in BOOLEAN
          BY <2>1, <3>1, Zenon
        <4>2. handed' \in Handings /\ handed'.buffer = b /\ handed'.frame = done
          <5> HIDE DEF done
          <5>1. LET h == Hands(b, done, FALSE)
                IN  h \in Handings /\ h.buffer = b /\ h.frame = done
            BY <1>2, <2>4, <4>1, HandsIs, Zenon DEF HandsTo
          <5> QED BY <4>1, <5>1, Zenon
        <4> HIDE DEF done
        <4> QED BY <2>1, <2>2, <2>3, <4>2, Zenon DEF KeptInv
      <3>2. CASE ~(current.id >= 0 /\ Wanted(current.id))
        <4>1. handed' = Older
          BY <2>1, <3>2, Zenon
        <4>2. Older \in Handings /\ (Older = Nothing \/ ~Older.kept)
          BY OlderIs, Zenon DEF ConverterInv
        <4> QED BY <4>1, <4>2, Zenon DEF KeptInv
      <3> QED BY <3>1, <3>2
    <2> QED BY <1>1, <1>2, <1>3, <1>4, <2>3, <2>6, <2>7, <2>8 DEF ConverterInv, AddedInv, GrowsInv
  <1> QED BY <1>5, <1>6

LEMMA ClosingStep ==
  ASSUME ConverterInv, CloseCurrentFrame
  PROVE  ConverterInv'
  <1> DEFINE b == current.buffer  f == cframes[b]
  <1>1. /\ current.id # -1 /\ f.items # <<>>
        /\ handed' = Hands(b, f, TRUE) /\ current' = [current EXCEPT !.id = -1]
        /\ interval' = interval /\ cframes' = cframes /\ added' = added
    BY DEF CloseCurrentFrame
  <1>2. /\ added \in Seq(AddedPackets) /\ current \in [id : -1..2, buffer : {0, 1}]
        /\ cframes \in [{0, 1} -> ConvertedFrames] /\ b \in {0, 1} /\ f \in ConvertedFrames
    BY DEF ConverterInv, AddedInv
  <1>3. current'.id = -1 /\ current'.buffer = b /\ current' \in [id : -1..2, buffer : {0, 1}]
    BY <1>1, <1>2
  <1>4. handed' \in Handings /\ handed'.buffer = b /\ handed'.frame = f /\ handed'.closed
    <2> DEFINE k == TRUE
    <2>1. k \in BOOLEAN /\ k /\ handed' = Hands(b, f, k)
      <3>1. handed' = Hands(b, f, k)
        BY <1>1, Zenon
      <3>2. k \in BOOLEAN /\ k
        OBVIOUS
      <3> QED BY <3>1, <3>2, Zenon
    <2> HIDE DEF k
    <2>2. HandsTo(Hands(b, f, k), b, f, k)
      <3>1. b \in {0, 1} /\ f \in ConvertedFrames /\ k \in BOOLEAN
        BY <1>2, <2>1, Zenon
      <3> HIDE DEF b, f
      <3> QED BY <3>1, HandsIs, Zenon
    <2> HIDE DEF b, f
    <2>3. HandsTo(handed', b, f, k)
      BY <2>1, <2>2, Zenon
    <2> QED BY <2>1, <2>3, Zenon DEF HandsTo
  <1>5. HandedInv'
    <2>1. Grows(f, current.id, added)
      BY <1>1, Zenon DEF ConverterInv, GrowsInv
    <2>2. WholeTo(f, added, Len(added) - 1) /\ f.end = Len(added) - 1 /\ f.start \in 0..(Len(added) - 1)
      BY <1>1, <2>1, Zenon DEF Grows
    <2>3. Len(added) - 1 \in 0..(Len(added) - 1)
      BY <1>2, <2>2, LenProperties
    <2>4. HandedTo(handed', added)
      BY <1>4, <2>2, <2>3, Zenon DEF HandedTo
    <2> QED BY <1>1, <2>4, Zenon DEF HandedInv
  <1>6. KeptInv'
    BY <1>1, <1>3, <1>4, Zenon DEF KeptInv
  <1>7. GrowsInv'
    BY <1>3, Zenon DEF GrowsInv
  <1>8. AddedInv'
    BY <1>1, <1>3, <1>4 DEF ConverterInv, AddedInv
  <1> QED BY <1>5, <1>6, <1>7, <1>8, Zenon DEF ConverterInv

LEMMA ConverterBegins == ASSUME ConverterAssumption, ConverterInit PROVE ConverterInv
  <1>1. /\ interval \in Nat /\ added = <<>> /\ handed = Nothing
        /\ current = [id |-> -1, buffer |-> 0] /\ cframes = [b \in {0, 1} |-> Blank]
    BY DEF ConverterAssumption, ConverterInit
  <1>2. added \in Seq(AddedPackets) /\ Len(added) = 0
    BY <1>1, EmptySeq
  <1>3. current.id = -1 /\ current \in [id : -1..2, buffer : {0, 1}]
    BY <1>1
  <1>4. cframes \in [{0, 1} -> ConvertedFrames] /\ handed \in Handings
    BY <1>1, NothingIs
  <1>5. AddedInv
    BY <1>1, <1>2, <1>3, <1>4 DEF AddedInv
  <1> QED BY <1>1, <1>3, <1>5, Zenon DEF ConverterInv, GrowsInv, HandedInv, KeptInv

LEMMA ConverterStep ==
  ASSUME ConverterAssumption, ConverterInv, [ConverterNext]_converterVars
  PROVE  ConverterInv'
  <1>1. ASSUME NEW idx \in {0, 1, 2}, NEW n \in 0..MaxItems,
               AddDataPacket([idx |-> idx, n |-> n, conf |-> IF n = 1 THEN 0 ELSE Highest, ts |-> Time])
        PROVE  ConverterInv'
    <2> DEFINE conf == IF n = 1 THEN 0 ELSE Highest
               p == [idx |-> idx, n |-> n, conf |-> conf, ts |-> Time]
    <2>1. conf \in {c \in Int : c <= Highest}
      BY DEF Highest
    <2>2. n \in Nat /\ Time \in Int /\ idx \in 0..2
      BY LenProperties DEF ConverterInv, AddedInv, Time
    <2> HIDE DEF conf
    <2>3. p \in AddedPackets /\ p.ts = Len(added)
      BY <2>1, <2>2 DEF AddedPackets, Time
    <2>4. AddDataPacket(p)
      BY <1>1 DEF conf
    <2> HIDE DEF p
    <2> QED BY <2>3, <2>4, AddingStep DEF ConverterAssumption
  <1>2. CASE CloseCurrentFrame
    BY <1>2, ClosingStep
  <1>3. CASE UNCHANGED converterVars
    <2>1. \A i : Wanted(i)' <=> Wanted(i)
      BY <1>3, Zenon DEF Wanted, converterVars
    <2>2. GrowsInv'
      BY <1>3, <2>1, Zenon DEF ConverterInv, GrowsInv, Grows, converterVars
    <2>3. AddedInv' /\ HandedInv' /\ KeptInv'
      BY <1>3, Zenon DEF ConverterInv, AddedInv, HandedInv, KeptInv, converterVars
    <2> QED BY <2>2, <2>3 DEF ConverterInv
  <1> QED BY <1>1, <1>2, <1>3, Zenon DEF ConverterNext

(* What was handed over.                                                   *)
LEMMA ConverterTells == ASSUME ConverterInv PROVE FramesAreConverted
  <1>1. HandedIsKept
    BY Zenon DEF ConverterInv, KeptInv, HandedIsKept
  <1>2. ASSUME handed # Nothing PROVE
          LET f == handed.frame
              its == PacketsOf(f, handed.closed)
              count == [i \in its |-> Cardinality({k \in 1..Len(f.items) : f.items[k].packet = added[i].ts})]
          IN  /\ its # {} /\ \A i \in its : added[i].idx = f.idx /\ added[i].conf >= f.conf
              /\ \E i \in its : added[i].conf = f.conf
              /\ \A k \in 1..Len(f.items) : f.items[k].since = f.items[k].packet - f.start
              /\ \A k \in 1..(Len(f.items) - 1) : f.items[k].packet <= f.items[k + 1].packet
              /\ \A i \in its : count[i] <= added[i].n
                                /\ (count[i] < added[i].n => Len(f.items) = kMaxNumberInCframe)
    <2> DEFINE f == handed.frame
               its == PacketsOf(f, handed.closed)
               count == [i \in its |-> Cardinality({k \in 1..Len(f.items) : f.items[k].packet = added[i].ts})]
    <2>1. PICK hi \in 0..(Len(added) - 1) :
            /\ WholeTo(f, added, hi) /\ f.start \in 0..hi
            /\ handed.closed => f.end = hi
            /\ ~handed.closed => f.end = hi + 1
      BY <1>2, Zenon DEF ConverterInv, HandedInv, HandedTo
    <2>2. Len(added) \in Nat /\ \A i \in 1..Len(added) : added[i].ts = i - 1
      BY LenProperties DEF ConverterInv, AddedInv
    <2> HIDE DEF f
    <2> DEFINE upTo(t) == IF handed.closed THEN t <= f.end ELSE t < f.end
    <2>3. \A i : i \in its <=> i \in 1..Len(added) /\ i - 1 \in f.start..hi
      <3>1. \A i : i \in its <=> i \in 1..Len(added) /\ f.start <= added[i].ts /\ upTo(added[i].ts)
        BY Zenon DEF PacketsOf
      <3>2. ASSUME NEW i \in 1..Len(added)
            PROVE  f.start <= i - 1 /\ upTo(i - 1) <=> i - 1 \in f.start..hi
        <4>1. CASE handed.closed
          BY <2>1, <2>2, <4>1
        <4>2. CASE ~handed.closed
          BY <2>1, <2>2, <4>2
        <4> QED BY <4>1, <4>2
      <3> HIDE DEF upTo, its
      <3>3. ASSUME NEW i PROVE i \in its <=> i \in 1..Len(added) /\ i - 1 \in f.start..hi
        <4>1. CASE i \in 1..Len(added)
          <5>1. added[i].ts = i - 1
            BY <2>2, <4>1, Zenon
          <5>2. i \in its <=> i \in 1..Len(added) /\ f.start <= i - 1 /\ upTo(i - 1)
            BY <3>1, <5>1, Zenon
          <5> QED BY <3>2, <4>1, <5>2, Zenon
        <4>2. CASE i \notin 1..Len(added)
          BY <3>1, <4>2, Zenon
        <4> QED BY <4>1, <4>2
      <3> QED BY <3>3, Zenon
    <2> HIDE DEF upTo
    <2> HIDE DEF its, count
    <2>4. \A t \in f.start..hi : t + 1 \in its
      <3>1. ASSUME NEW t \in f.start..hi PROVE t + 1 \in its
        <4>1. t + 1 \in 1..Len(added) /\ t + 1 - 1 \in f.start..hi
          <5>1. /\ hi \in 0..(Len(added) - 1) /\ f.start \in 0..hi /\ t \in f.start..hi
                /\ Len(added) \in Nat
            BY <2>1, <2>2, <3>1, Zenon
          <5>2. t \in Int /\ f.start <= t /\ t <= hi /\ t + 1 - 1 = t
            BY <5>1
          <5> QED BY <5>1, <5>2
        <4> DEFINE u == t + 1
        <4>2. u \in 1..Len(added) /\ u - 1 \in f.start..hi
          BY <4>1
        <4> HIDE DEF u
        <4>3. u \in its
          BY <2>3, <4>2
        <4> QED BY <4>3 DEF u
      <3> QED BY <3>1
    <2>5. \A i \in its : i - 1 \in f.start..hi /\ (i - 1) + 1 = i /\ added[i].ts = i - 1
      <3>1. ASSUME NEW i \in its
            PROVE  i - 1 \in f.start..hi /\ (i - 1) + 1 = i /\ added[i].ts = i - 1
        <4>1. i \in 1..Len(added) /\ i - 1 \in f.start..hi
          BY <2>3, <3>1, Zenon
        <4>2. added[i].ts = i - 1
          BY <2>2, <4>1, Zenon
        <4>3. (i - 1) + 1 = i
          BY <4>1
        <4> QED BY <4>1, <4>2, <4>3
      <3> QED BY <3>1
    <2>6. \A i \in its : count[i] = Cardinality(OfPacket(f.items, i - 1))
      BY <2>5, Zenon DEF OfPacket, count
    <2>7. /\ \A t \in f.start..hi : added[t + 1].idx = f.idx
          /\ \A t \in f.start..hi : added[t + 1].conf >= f.conf
          /\ \E t \in f.start..hi : added[t + 1].conf = f.conf
          /\ \A k \in 1..Len(f.items) : f.items[k].since = f.items[k].packet - f.start
          /\ \A k \in 1..(Len(f.items) - 1) : f.items[k].packet <= f.items[k + 1].packet
          /\ \A t \in f.start..hi :
               /\ Cardinality(OfPacket(f.items, t)) <= added[t + 1].n
               /\ Cardinality(OfPacket(f.items, t)) < added[t + 1].n => Len(f.items) = kMaxNumberInCframe
      BY <2>1, Zenon DEF WholeTo, OneNumber, HoldsItems
    <2>8. its # {} /\ \E i \in its : added[i].conf = f.conf
      BY <2>4, <2>7, Zenon
    <2>9. ASSUME NEW i \in its
          PROVE  /\ added[i].idx = f.idx /\ added[i].conf >= f.conf
                 /\ count[i] <= added[i].n /\ (count[i] < added[i].n => Len(f.items) = kMaxNumberInCframe)
      <3> DEFINE t == i - 1
      <3>1. t \in f.start..hi /\ t + 1 = i /\ count[i] = Cardinality(OfPacket(f.items, t))
        BY <2>5, <2>6, Zenon
      <3> HIDE DEF t
      <3>2. /\ added[t + 1].idx = f.idx /\ added[t + 1].conf >= f.conf
            /\ Cardinality(OfPacket(f.items, t)) <= added[t + 1].n
            /\ Cardinality(OfPacket(f.items, t)) < added[t + 1].n => Len(f.items) = kMaxNumberInCframe
        BY <2>7, <3>1, Zenon
      <3> QED BY <3>1, <3>2, Zenon
    <2> QED BY <2>7, <2>8, <2>9, Zenon DEF its, count, f
  <1>3. HandedIsWhole
    BY <1>2, Zenon DEF HandedIsWhole
  <1> QED BY <1>1, <1>3 DEF FramesAreConverted

(* For any interval, number of packets and of points, and any room: the    *)
(* frame that is handed over (CframeConverter::add_data_packet and         *)
(* close_current_frame) is of one number and has the points of all its     *)
(* packets in their order as far as there is room, and it is not touched   *)
(* while the next frame grows.                                             *)
THEOREM ConvertedStaysWhole ==
  ASSUME ConverterAssumption PROVE ConverterSpec => []FramesAreConverted
  <1>1. ConverterInit => ConverterInv
    BY ConverterBegins
  <1>2. ConverterInv /\ [ConverterNext]_converterVars => ConverterInv'
    BY ConverterStep
  <1>3. ConverterInv => FramesAreConverted
    BY ConverterTells
  <1> QED BY <1>1, <1>2, <1>3, PTL DEF ConverterSpec

-----------------------------------------------------------------------------
(* The bag of a recorder (Rosbag) as a sequence of cells.                  *)
BagKinds ==
  {"version", "padding", "connection", "bag", "info", "chunk", "message", "point", "dense", "index"}
BagCells == [kind : BagKinds, n : Nat, pos : Nat]

CellOf(c, kind, n, pos) == c \in BagCells /\ c.kind = kind /\ c.n = n /\ c.pos = pos

LEMMA CellIs ==
  ASSUME NEW kind \in BagKinds, NEW n \in Nat, NEW pos \in Nat
  PROVE  CellOf(Cell(kind, n, pos), kind, n, pos)
  BY DEF Cell, BagCells, CellOf

Joins(q, f, s) ==
  /\ Len(q) = Len(f) + Len(s) /\ Len(f) \in Nat /\ Len(s) \in Nat
  /\ \A k \in 1..Len(f) : q[k] = f[k]
  /\ \A k \in 1..Len(s) : q[Len(f) + k] = s[k]

LEMMA Joined ==
  ASSUME NEW S, NEW f \in Seq(S), NEW s \in Seq(S)
  PROVE  f \o s \in Seq(S) /\ Joins(f \o s, f, s)
  <1> DEFINE q == f \o s  l == Len(f)  m == Len(s)
  <1>1. /\ l \in Nat /\ m \in Nat /\ q \in Seq(S) /\ Len(q) = l + m
        /\ \A k \in 1..(l + m) : q[k] = IF k <= l THEN f[k] ELSE s[k - l]
    BY ConcatProperties, LenProperties
  <1> HIDE DEF q, l, m
  <1>2. ASSUME NEW k \in 1..l PROVE q[k] = f[k]
    <2>1. k \in 1..(l + m) /\ k <= l
      BY <1>1
    <2> QED BY <1>1, <2>1, Zenon
  <1>3. ASSUME NEW k \in 1..m PROVE q[l + k] = s[k]
    <2> DEFINE j == l + k
    <2>1. j \in 1..(l + m) /\ ~(j <= l) /\ j - l = k
      BY <1>1
    <2> HIDE DEF j
    <2>2. q[j] = s[k]
      BY <1>1, <2>1, Zenon
    <2> QED BY <2>2 DEF j
  <1> QED BY <1>1, <1>2, <1>3, Zenon DEF q, l, m, Joins

LEMMA PointsCounted ==
  ASSUME NEW f, NEW k \in Nat
  PROVE  IsFiniteSet(PointsIn(f, k)) /\ Cardinality(PointsIn(f, k)) \in Nat
  <1>1. IsFiniteSet(1..k)
    BY FS_Interval
  <1>2. PointsIn(f, k) \subseteq 1..k
    BY DEF PointsIn
  <1>3. IsFiniteSet(PointsIn(f, k))
    BY <1>1, <1>2, FS_Subset
  <1> QED BY <1>3, FS_CardinalityType

LEMMA SamePoints ==
  ASSUME NEW f, NEW h, NEW G, Len(f) \in Nat, Len(h) = Len(f), HasPoints(f, G),
         \A k \in 1..Len(f) : /\ h[k].kind = "point" <=> f[k].kind = "point"
                              /\ f[k].kind = "point" => h[k].pos = f[k].pos
  PROVE  HasPoints(h, G)
  <1>1. ASSUME NEW k \in 1..Len(f) PROVE PointsIn(h, k) = PointsIn(f, k)
    <2>1. \A i \in 1..k : i \in 1..Len(f)
      OBVIOUS
    <2> QED BY <2>1, Zenon DEF PointsIn
  <1>2. PointsIn(h, Len(h)) = PointsIn(f, Len(f))
    BY Zenon DEF PointsIn
  <1>3. \A k \in PointsIn(f, Len(f)) : k \in 1..Len(f) /\ f[k].kind = "point"
    BY Zenon DEF PointsIn
  <1> QED BY <1>1, <1>2, <1>3, Zenon DEF HasPoints

(* Cells that are no points, behind the others.                            *)
LEMMA OtherCells ==
  ASSUME NEW f \in Seq(BagCells), NEW s \in Seq(BagCells), NEW G, HasPoints(f, G),
         \A k \in 1..Len(s) : s[k].kind # "point"
  PROVE  HasPoints(f \o s, G)
  <1> DEFINE q == f \o s  l == Len(f)  m == Len(s)
  <1>1. /\ Len(q) = l + m /\ l \in Nat /\ m \in Nat /\ \A k \in 1..l : q[k] = f[k]
        /\ \A k \in 1..m : q[l + k] = s[k]
    <2>1. Joins(q, f, s)
      BY Joined
    <2> QED BY <2>1, Zenon DEF Joins
  <1> HIDE DEF q, l
  <1>2. ASSUME NEW k \in 1..(l + m), q[k].kind = "point" PROVE k \in 1..l
    <2>1. CASE k > l
      <3>1. k - l \in 1..m /\ l + (k - l) = k
        BY <1>1, <2>1
      <3>2. q[k] = s[k - l]
        BY <1>1, <3>1
      <3> QED BY <1>2, <3>1, <3>2, Zenon
    <2>2. CASE ~(k > l)
      BY <1>1, <2>2
    <2> QED BY <2>1, <2>2
  <1>3. PointsIn(q, l + m) = PointsIn(f, l)
    <2>1. ASSUME NEW k \in PointsIn(q, l + m) PROVE k \in PointsIn(f, l)
      <3>1. k \in 1..(l + m) /\ q[k].kind = "point"
        BY <2>1, Zenon DEF PointsIn
      <3>2. k \in 1..l
        BY <1>2, <3>1, Zenon
      <3> QED BY <1>1, <3>1, <3>2, Zenon DEF PointsIn
    <2>2. ASSUME NEW k \in PointsIn(f, l) PROVE k \in PointsIn(q, l + m)
      <3>1. k \in 1..l /\ f[k].kind = "point"
        BY <2>2, Zenon DEF PointsIn
      <3>2. k \in 1..(l + m)
        BY <1>1, <3>1
      <3> QED BY <1>1, <3>1, <3>2, Zenon DEF PointsIn
    <2> QED BY <2>1, <2>2, Zenon
  <1>4. ASSUME NEW k \in PointsIn(f, l)
        PROVE  q[k].pos = f[k].pos /\ PointsIn(q, k) = PointsIn(f, k)
    <2>1. k \in 1..l
      BY <1>4, Zenon DEF PointsIn
    <2>2. \A i \in 1..k : i \in 1..l
      BY <1>1, <2>1
    <2> QED BY <1>1, <2>1, <2>2, Zenon DEF PointsIn
  <1>5. /\ Cardinality(PointsIn(f, l)) = Len(G)
        /\ \A k \in PointsIn(f, l) : f[k].pos = G[Cardinality(PointsIn(f, k))]
    BY Zenon DEF HasPoints, l
  <1>6. HasPoints(q, G)
    BY <1>1, <1>3, <1>4, <1>5, Zenon DEF HasPoints
  <1> QED BY <1>6, Zenon DEF q

Dots(s, n, idx) == Len(s) = n /\ \A k \in 1..n : s[k].kind = "point" /\ s[k].pos = idx
HasMore(q, G, n, idx) == HasPoints(q, G \o [i \in 1..n |-> idx])

(* Points of one frame, behind the others.                                 *)
LEMMA MorePoints ==
  ASSUME NEW f \in Seq(BagCells), NEW s \in Seq(BagCells), NEW G \in Seq(Nat), HasPoints(f, G),
         NEW n \in Nat, NEW idx \in Nat, Dots(s, n, idx)
  PROVE  HasMore(f \o s, G, n, idx)
  <1> DEFINE q == f \o s  l == Len(f)  H == [i \in 1..n |-> idx]  J == G \o H  g == Len(G)
  <1>0. Len(s) = n /\ \A k \in 1..n : s[k].kind = "point" /\ s[k].pos = idx
    BY Zenon DEF Dots
  <1>1. /\ Len(q) = l + n /\ l \in Nat /\ \A k \in 1..l : q[k] = f[k]
        /\ \A k \in 1..n : q[l + k] = s[k]
    <2>1. Joins(q, f, s)
      BY Joined
    <2> HIDE DEF q
    <2> QED BY <1>0, <2>1, Zenon DEF Joins
  <1>2. H \in Seq(Nat) /\ Len(H) = n /\ \A k \in 1..n : H[k] = idx
    OBVIOUS
  <1> HIDE DEF H
  <1>3. /\ Len(J) = g + n /\ g \in Nat /\ \A k \in 1..g : J[k] = G[k]
        /\ \A k \in 1..n : J[g + k] = idx
    <2>1. /\ Len(J) = g + Len(H) /\ g \in Nat /\ \A k \in 1..g : J[k] = G[k]
          /\ \A k \in 1..Len(H) : J[g + k] = H[k]
      <3>1. Joins(J, G, H)
        BY <1>2, Joined
      <3> HIDE DEF J
      <3> QED BY <3>1, Zenon DEF Joins
    <2> HIDE DEF J, g
    <2> QED BY <1>2, <2>1, Zenon
  <1>4. /\ Cardinality(PointsIn(f, l)) = g
        /\ \A k \in PointsIn(f, l) : f[k].pos = G[Cardinality(PointsIn(f, k))]
    BY Zenon DEF HasPoints
  <1> HIDE DEF q, l, J, g
  <1>5. ASSUME NEW j \in 0..n
        PROVE  /\ PointsIn(q, l + j) = PointsIn(f, l) \cup ((l + 1)..(l + j))
               /\ Cardinality(PointsIn(q, l + j)) = g + j
    <2>1. \A k : k \in 1..(l + j) <=> k \in 1..l \/ k \in (l + 1)..(l + j)
      BY <1>1
    <2>2. ASSUME NEW k \in (l + 1)..(l + j) PROVE q[k].kind = "point" /\ k \notin 1..l
      <3>1. k - l \in 1..n /\ l + (k - l) = k /\ k \notin 1..l
        BY <1>1
      <3>2. q[k] = s[k - l]
        BY <1>1, <3>1, Zenon
      <3>3. s[k - l].kind = "point"
        BY <1>0, <3>1, Zenon
      <3> QED BY <3>1, <3>2, <3>3, Zenon
    <2>3. \A k \in 1..l : q[k] = f[k]
      BY <1>1
    <2>4. \A k : k \in PointsIn(q, l + j) <=> k \in 1..(l + j) /\ q[k].kind = "point"
      BY Zenon DEF PointsIn
    <2>5. \A k : k \in PointsIn(f, l) <=> k \in 1..l /\ f[k].kind = "point"
      BY Zenon DEF PointsIn
    <2>6. PointsIn(q, l + j) = PointsIn(f, l) \cup ((l + 1)..(l + j))
      <3>1. ASSUME NEW k PROVE k \in PointsIn(q, l + j) <=> k \in PointsIn(f, l) \/ k \in (l + 1)..(l + j)
        <4>1. CASE k \in 1..l
          <5>1. k \notin (l + 1)..(l + j)
            BY <2>2, <4>1, Zenon
          <5> QED BY <2>1, <2>3, <2>4, <2>5, <4>1, <5>1, Zenon
        <4>2. CASE k \notin 1..l
          BY <2>1, <2>2, <2>4, <2>5, <4>2, Zenon
        <4> QED BY <4>1, <4>2, Zenon
      <3> QED BY <3>1, Zenon
    <2>7. PointsIn(f, l) \cap ((l + 1)..(l + j)) = {}
      BY <2>2, <2>5, Zenon
    <2>8. /\ IsFiniteSet((l + 1)..(l + j))
          /\ Cardinality((l + 1)..(l + j)) = IF l + 1 > l + j THEN 0 ELSE (l + j) - (l + 1) + 1
      <3>1. l + 1 \in Int /\ l + j \in Int
        BY <1>1
      <3> QED BY <3>1, FS_Interval
    <2>9. Cardinality((l + 1)..(l + j)) = j
      BY <1>1, <2>8
    <2>10. IsFiniteSet(PointsIn(f, l))
      BY <1>1, PointsCounted
    <2>11. Cardinality(PointsIn(f, l) \cup ((l + 1)..(l + j))) = g + j
      <3>1. Cardinality(PointsIn(f, l) \cup ((l + 1)..(l + j))) =
              Cardinality(PointsIn(f, l)) + Cardinality((l + 1)..(l + j))
        BY <2>7, <2>8, <2>10, Together, Zenon
      <3> QED BY <1>4, <2>9, <3>1, Zenon
    <2> QED BY <2>6, <2>11, Zenon
  <1>6. /\ PointsIn(q, l + n) = PointsIn(f, l) \cup ((l + 1)..(l + n))
        /\ Cardinality(PointsIn(q, l + n)) = g + n
    <2>1. n \in 0..n
      OBVIOUS
    <2> QED BY <1>5, <2>1, Zenon
  <1>7. ASSUME NEW k \in PointsIn(q, l + n) PROVE q[k].pos = J[Cardinality(PointsIn(q, k))]
    <2>1. CASE k \in PointsIn(f, l)
      <3>1. k \in 1..l
        BY <2>1, Zenon DEF PointsIn
      <3>2. \A i \in 1..k : i \in 1..l
        BY <1>1, <3>1
      <3>3. PointsIn(q, k) = PointsIn(f, k)
        BY <1>1, <3>2, Zenon DEF PointsIn
      <3>4. Cardinality(PointsIn(f, k)) \in 1..g
        <4>1. IsFiniteSet(PointsIn(f, k)) /\ Cardinality(PointsIn(f, k)) \in Nat /\ IsFiniteSet(PointsIn(f, l))
          <5>1. k \in Nat /\ l \in Nat
            BY <1>1, <3>1
          <5> QED BY <5>1, PointsCounted, Zenon
        <4>2. PointsIn(f, k) \subseteq PointsIn(f, l)
          BY <3>2, Zenon DEF PointsIn
        <4>3. Cardinality(PointsIn(f, k)) <= g
          BY <1>4, <4>1, <4>2, FS_Subset
        <4>4. k \in PointsIn(f, k)
          BY <2>1, <3>1 DEF PointsIn
        <4>5. Cardinality(PointsIn(f, k)) # 0
          BY <4>1, <4>4, FS_EmptySet
        <4> QED BY <1>3, <4>1, <4>3, <4>5
      <3>5. q[k].pos = f[k].pos
        BY <1>1, <3>1, Zenon
      <3> QED BY <1>3, <1>4, <2>1, <3>3, <3>4, <3>5, Zenon
    <2>2. CASE k \in (l + 1)..(l + n)
      <3> DEFINE j == k - l
      <3>1. j \in 1..n /\ j \in 0..n /\ l + j = k
        BY <1>1, <2>2
      <3> HIDE DEF j
      <3>2. q[k] = s[j] /\ Cardinality(PointsIn(q, k)) = g + j /\ J[g + j] = idx /\ s[j].pos = idx
        BY <1>0, <1>1, <1>3, <1>5, <3>1, Zenon
      <3> QED BY <3>2, Zenon
    <2> QED BY <1>6, <2>1, <2>2, Zenon
  <1>8. HasPoints(q, J)
    BY <1>1, <1>3, <1>6, <1>7, Zenon DEF HasPoints
  <1> QED BY <1>8, Zenon DEF q, J, H, HasMore

(* The recorder, and what of it an operation leaves alone.                 *)
BagChunks == [pos : Nat, start : Int, end : Int]
Bags ==
  [full : BOOLEAN, called : Nat, frame : Nat, buffer : Seq(BagCells), file : Seq(BagCells), seek : Nat,
   written : Nat, header : Nat, begin : Nat, size : Nat, chunk : Nat, message : Nat, points : Nat,
   index : Nat, chunks : Seq(BagChunks), last : Int, last2 : Int, offset : Int, ts : Int]

CallsOf(b)  == <<b.full, b.called, b.frame, b.last, b.last2, b.offset, b.ts>>
PlacesOf(b) == <<b.header, b.begin, b.size, b.chunk, b.message, b.points, b.index, b.chunks>>
FileOf(b)   == <<b.file, b.seek, b.written>>

LEMMA BufferedIs ==
  ASSUME NEW b \in Bags, NEW s \in Seq(BagCells)
  PROVE  /\ Buffered(b, s) \in Bags /\ Buffered(b, s).buffer = b.buffer \o s
         /\ CallsOf(Buffered(b, s)) = CallsOf(b) /\ PlacesOf(Buffered(b, s)) = PlacesOf(b)
         /\ FileOf(Buffered(b, s)) = FileOf(b)
  <1> DEFINE t == b.buffer \o s
  <1>1. t \in Seq(BagCells)
    <2>1. b.buffer \in Seq(BagCells)
      BY DEF Bags
    <2> QED BY <2>1, Joined
  <1>2. Buffered(b, s) = [b EXCEPT !.buffer = t]
    BY DEF Buffered
  <1> HIDE DEF t
  <1>3. [b EXCEPT !.buffer = t] \in Bags /\ [b EXCEPT !.buffer = t].buffer = t
    BY <1>1 DEF Bags
  <1>4. LET c == [b EXCEPT !.buffer = t]
        IN CallsOf(c) = CallsOf(b) /\ PlacesOf(c) = PlacesOf(b) /\ FileOf(c) = FileOf(b)
    BY DEF Bags, CallsOf, PlacesOf, FileOf
  <1> QED BY <1>2, <1>3, <1>4, Zenon DEF t

(* The buffer goes to the end of the file.                                 *)
LEMMA FlushedIs ==
  ASSUME NEW b \in Bags, b.seek = Len(b.file), b.written = Len(b.file)
  PROVE  /\ Flushed(b) \in Bags /\ Flushed(b).buffer = <<>> /\ Flushed(b).file = b.file \o b.buffer
         /\ Flushed(b).seek = Len(b.file) + Len(b.buffer) /\ Flushed(b).written = Len(b.file) + Len(b.buffer)
         /\ CallsOf(Flushed(b)) = CallsOf(b) /\ PlacesOf(Flushed(b)) = PlacesOf(b)
  <1> DEFINE f == b.file  s == b.buffer  n == Len(s)  l == Len(f)  q == f \o s
             q0 == SubSeq(f, 1, b.seek) \o s \o SubSeq(f, b.seek + n + 1, Len(f))
  <1>1. f \in Seq(BagCells) /\ s \in Seq(BagCells) /\ l \in Nat /\ n \in Nat
    BY LenProperties DEF Bags
  <1>2. q0 = q /\ q \in Seq(BagCells)
    <2>1. SubSeq(f, 1, b.seek) = f
      BY <1>1, SubSeqFull
    <2>2. SubSeq(f, b.seek + n + 1, Len(f)) = <<>>
      <3> DEFINE k == b.seek  m == k + n + 1
      <3>1. k = l
        OBVIOUS
      <3> HIDE DEF k, l, n
      <3>2. m \in Int /\ l \in Int /\ l < m
        BY <1>1, <3>1
      <3> HIDE DEF m
      <3>3. SubSeq(f, m, l) = <<>>
        BY <3>2, SubSeqEmpty
      <3> QED BY <3>3, Zenon DEF m, k, l
    <2>3. q \in Seq(BagCells)
      BY <1>1, Joined
    <2>4. q \o <<>> = q
      BY <2>3, ConcatEmptySeq
    <2> QED BY <2>1, <2>2, <2>3, <2>4, Zenon
  <1>3. Flushed(b) = [b EXCEPT !.file = q, !.seek = l + n, !.written = l + n, !.buffer = <<>>]
    <2>1. Flushed(b) = [b EXCEPT !.file = q0, !.seek = b.seek + n, !.written = b.written + n, !.buffer = <<>>]
      BY DEF Flushed
    <2> HIDE DEF q, q0, l, n
    <2> QED BY <1>2, <2>1, Zenon DEF l
  <1> HIDE DEF q, l, n
  <1>4. l + n \in Nat /\ <<>> \in Seq(BagCells)
    BY <1>1, EmptySeq
  <1> DEFINE m == l + n  e == <<>>
  <1>5. m \in Nat /\ e \in Seq(BagCells) /\ q \in Seq(BagCells)
    BY <1>2, <1>4
  <1>6. Flushed(b) = [b EXCEPT !.file = q, !.seek = m, !.written = m, !.buffer = e]
    BY <1>3, Zenon
  <1> HIDE DEF m, e
  <1>7. LET c == [b EXCEPT !.file = q, !.seek = m, !.written = m, !.buffer = e]
        IN  /\ c \in Bags /\ c.buffer = e /\ c.file = q /\ c.seek = m /\ c.written = m
    BY <1>5 DEF Bags
  <1>8. LET c == [b EXCEPT !.file = q, !.seek = m, !.written = m, !.buffer = e]
        IN  CallsOf(c) = CallsOf(b) /\ PlacesOf(c) = PlacesOf(b)
    BY <1>5 DEF Bags, CallsOf, PlacesOf
  <1> QED BY <1>6, <1>7, <1>8, Zenon DEF q, m, l, n, e

(* The header is written over the first one.                               *)
Over(q, f, s, at) ==
  /\ Len(q) = Len(f)
  /\ \A k \in 1..Len(s) : q[at + k] = s[k]
  /\ \A k \in 1..Len(f) : k <= at \/ k > at + Len(s) => q[k] = f[k]

LEMMA OverIs ==
  ASSUME NEW S, NEW f \in Seq(S), NEW s \in Seq(S), NEW at \in Nat, at + Len(s) <= Len(f)
  PROVE  LET q == SubSeq(f, 1, at) \o s \o SubSeq(f, at + Len(s) + 1, Len(f))
         IN  q \in Seq(S) /\ Over(q, f, s, at)
  <1> DEFINE n == Len(s)  l == Len(f)  next == at + n + 1
             u == SubSeq(f, 1, at)  v == SubSeq(f, next, l)  w == u \o s  q == w \o v
  <1>1. n \in Nat /\ l \in Nat /\ at + n <= l /\ \A i \in 1..l : f[i] \in S
    BY ElementOfSeq, LenProperties
  <1>2. u \in Seq(S) /\ Len(u) = at /\ \A i \in 1..at : u[i] = f[i]
    <2>1. \A i \in 1..at : f[i] \in S
      BY <1>1
    <2>2. 1 \in Int /\ at \in Int
      OBVIOUS
    <2>3. /\ u \in Seq(S) /\ Len(u) = IF 1 <= at THEN at - 1 + 1 ELSE 0
          /\ \A i \in 1..(at - 1 + 1) : u[i] = f[1 + i - 1]
      BY <2>1, <2>2, SubSeqProperties
    <2> HIDE DEF u
    <2>4. \A i \in 1..at : i \in 1..(at - 1 + 1) /\ 1 + i - 1 = i
      OBVIOUS
    <2>5. Len(u) = at
      BY <2>3
    <2> QED BY <2>3, <2>4, <2>5
  <1>3. v \in Seq(S) /\ Len(v) = l - at - n /\ \A i \in 1..(l - at - n) : v[i] = f[at + n + i]
    <2> HIDE DEF n, l
    <2>1. next \in Int /\ l \in Int /\ next = at + n + 1 /\ \A i \in next..l : f[i] \in S
      BY <1>1
    <2> HIDE DEF next
    <2>2. /\ v \in Seq(S) /\ Len(v) = IF next <= l THEN l - next + 1 ELSE 0
          /\ \A i \in 1..(l - next + 1) : v[i] = f[next + i - 1]
      BY <2>1, SubSeqProperties
    <2> HIDE DEF v
    <2>3. Len(v) = l - at - n
      BY <1>1, <2>1, <2>2
    <2>4. \A i \in 1..(l - at - n) : i \in 1..(l - next + 1) /\ next + i - 1 = at + n + i
      BY <1>1, <2>1
    <2> QED BY <2>2, <2>3, <2>4
  <1> HIDE DEF u, v, l, n
  <1>4. /\ w \in Seq(S) /\ Len(w) = at + n /\ \A k \in 1..at : w[k] = f[k]
        /\ \A k \in 1..n : w[at + k] = s[k]
    <2>1. w \in Seq(S) /\ Joins(w, u, s)
      BY <1>2, Joined
    <2> HIDE DEF w
    <2>2. /\ Len(w) = at + n /\ \A k \in 1..at : w[k] = u[k] /\ u[k] = f[k]
          /\ \A k \in 1..n : w[at + k] = s[k]
      BY <1>2, <2>1, Zenon DEF Joins, n
    <2> QED BY <2>1, <2>2, Zenon
  <1> HIDE DEF w
  <1>5. /\ q \in Seq(S) /\ Len(q) = at + n + (l - at - n) /\ \A k \in 1..(at + n) : q[k] = w[k]
        /\ \A k \in 1..(l - at - n) : q[at + n + k] = v[k] /\ v[k] = f[at + n + k]
    <2>1. q \in Seq(S) /\ Joins(q, w, v)
      BY <1>3, <1>4, Joined
    <2> HIDE DEF q
    <2> QED BY <1>3, <1>4, <2>1, Zenon DEF Joins
  <1> HIDE DEF q
  <1>6. Len(q) = l
    BY <1>1, <1>5
  <1>7. ASSUME NEW k \in 1..n PROVE q[at + k] = s[k]
    <2> DEFINE j == at + k
    <2>1. j \in 1..(at + n)
      BY <1>1
    <2>2. w[j] = s[k]
      BY <1>4, Zenon
    <2> HIDE DEF j
    <2>3. q[j] = w[j]
      BY <1>5, <2>1, Zenon
    <2> QED BY <2>2, <2>3, Zenon DEF j
  <1>8. ASSUME NEW k \in 1..l, k <= at \/ k > at + n PROVE q[k] = f[k]
    <2>1. CASE k <= at
      <3>1. k \in 1..at /\ k \in 1..(at + n)
        BY <1>1, <2>1
      <3> QED BY <1>4, <1>5, <3>1, Zenon
    <2>2. CASE k > at + n
      <3> DEFINE j == k - at - n
      <3>1. j \in 1..(l - at - n) /\ at + n + j = k
        BY <1>1, <2>2
      <3> HIDE DEF j
      <3> DEFINE i == at + n + j
      <3>2. q[i] = f[i]
        BY <1>5, <3>1, Zenon
      <3> HIDE DEF i
      <3>3. i = k
        BY <3>1 DEF i
      <3> QED BY <3>2, <3>3, Zenon
    <2> QED BY <1>8, <2>1, <2>2
  <1>9. Over(q, f, s, at)
    BY <1>6, <1>7, <1>8, Zenon DEF Over, l, n
  <1> QED BY <1>5, <1>9, Zenon DEF q, w, u, v, l, n

LEMMA FlushedOver ==
  ASSUME NEW b \in Bags, b.seek + Len(b.buffer) <= Len(b.file)
  PROVE  /\ Flushed(b) \in Bags /\ Over(Flushed(b).file, b.file, b.buffer, b.seek)
         /\ CallsOf(Flushed(b)) = CallsOf(b) /\ PlacesOf(Flushed(b)) = PlacesOf(b)
  <1> DEFINE f == b.file  s == b.buffer  at == b.seek  n == Len(s)
             q == SubSeq(f, 1, at) \o s \o SubSeq(f, at + n + 1, Len(f))
             m == at + n  w == b.written + n  e == <<>>
  <1>1. f \in Seq(BagCells) /\ s \in Seq(BagCells) /\ n \in Nat /\ at \in Nat /\ b.written \in Nat
    BY LenProperties DEF Bags
  <1>2. q \in Seq(BagCells) /\ Over(q, f, s, at)
    <2>1. at + n <= Len(f)
      OBVIOUS
    <2> HIDE DEF f, s, at
    <2> QED BY <1>1, <2>1, OverIs
  <1>3. Flushed(b) = [b EXCEPT !.file = q, !.seek = m, !.written = w, !.buffer = e]
    BY DEF Flushed
  <1>4. m \in Nat /\ w \in Nat
    <2> HIDE DEF n, at
    <2> QED BY <1>1
  <1>5. e \in Seq(BagCells)
    BY EmptySeq
  <1> HIDE DEF q, m, w, e
  <1>6. LET c == [b EXCEPT !.file = q, !.seek = m, !.written = w, !.buffer = e]
        IN  c \in Bags /\ c.file = q
    BY <1>2, <1>4, <1>5 DEF Bags
  <1>7. LET c == [b EXCEPT !.file = q, !.seek = m, !.written = w, !.buffer = e]
        IN  CallsOf(c) = CallsOf(b) /\ PlacesOf(c) = PlacesOf(b)
    BY <1>4 DEF Bags, CallsOf, PlacesOf
  <1> QED BY <1>2, <1>3, <1>6, <1>7, Zenon

HeadIs(f) == Len(f) >= 3 /\ f[1].kind = "version" /\ f[2].kind = "bag" /\ f[3].kind = "padding"

HeaderOver(q, f, n, pos) ==
  /\ q \in Seq(BagCells) /\ Len(q) = Len(f) /\ HeadIs(q) /\ q[2].n = n /\ q[2].pos = pos
  /\ \A k \in 4..Len(f) : q[k] = f[k]

LEMMA OneOver ==
  ASSUME NEW f \in Seq(BagCells), HeadIs(f), NEW q \in Seq(BagCells), NEW s \in Seq(BagCells),
         NEW n, NEW pos, s[1].kind = "bag", s[1].n = n, s[1].pos = pos,
         Len(s) = 1 \/ (Len(s) = 2 /\ s[2].kind = "padding"), Over(q, f, s, 1)
  PROVE  HeaderOver(q, f, n, pos)
  <1>1. /\ Len(q) = Len(f) /\ Len(f) >= 3 /\ Len(f) \in Nat
        /\ \A k \in 1..Len(s) : q[1 + k] = s[k]
        /\ \A k \in 1..Len(f) : k <= 1 \/ k > 1 + Len(s) => q[k] = f[k]
        /\ f[1].kind = "version" /\ f[2].kind = "bag" /\ f[3].kind = "padding"
    BY LenProperties DEF Over, HeadIs
  <1>2. q[1] = f[1]
    BY <1>1
  <1>3. q[2] = s[1]
    <2>1. 1 \in 1..Len(s) /\ 1 + 1 = 2
      OBVIOUS
    <2> QED BY <1>1, <2>1
  <1>4. q[3].kind = "padding"
    <2>1. CASE Len(s) = 1
      <3>1. 3 \in 1..Len(f) /\ 3 > 1 + Len(s)
        BY <1>1, <2>1
      <3>2. q[3] = f[3]
        BY <1>1, <3>1
      <3> QED BY <1>1, <3>2, Zenon
    <2>2. CASE Len(s) = 2 /\ s[2].kind = "padding"
      <3>1. 2 \in 1..Len(s) /\ 1 + 2 = 3
        BY <2>2
      <3>2. q[3] = s[2]
        BY <1>1, <3>1
      <3> QED BY <2>2, <3>2, Zenon
    <2> QED BY <2>1, <2>2
  <1>5. ASSUME NEW k \in 4..Len(f) PROVE q[k] = f[k]
    <2>1. k \in 1..Len(f) /\ k > 1 + Len(s)
      BY <1>1
    <2> QED BY <1>1, <2>1, Zenon
  <1>6. HeadIs(q)
    <2>1. q[1].kind = "version" /\ q[2].kind = "bag" /\ Len(q) >= 3
      BY <1>1, <1>2, <1>3, Zenon
    <2> QED BY <1>4, <2>1, Zenon DEF HeadIs
  <1>7. q[2].n = n /\ q[2].pos = pos
    BY <1>3, Zenon
  <1> QED BY <1>1, <1>5, <1>6, <1>7, Zenon DEF HeaderOver

LEMMA HeaderAgain ==
  ASSUME NEW b \in Bags, b.seek = 1, b.buffer = <<>>, HeadIs(b.file), NEW n \in Nat, NEW pos \in Nat
  PROVE  LET h == Header(b, n, pos)
         IN  /\ h \in Bags /\ HeaderOver(h.file, b.file, n, pos)
             /\ CallsOf(h) = CallsOf(b) /\ h.chunks = b.chunks
  <1> DEFINE cell == Cell("bag", n, pos)  one == <<cell>>  two == <<cell, Padding>>
  <1>1. /\ cell \in BagCells /\ cell.kind = "bag" /\ cell.n = n /\ cell.pos = pos
        /\ Padding \in BagCells /\ Padding.kind = "padding"
    <2>1. "bag" \in BagKinds /\ "padding" \in BagKinds /\ 0 \in Nat
      BY DEF BagKinds
    <2>2. CellOf(cell, "bag", n, pos) /\ CellOf(Padding, "padding", 0, 0)
      BY <2>1, CellIs DEF Padding, cell
    <2> HIDE DEF cell
    <2> QED BY <2>2, Zenon DEF CellOf
  <1> HIDE DEF cell
  <1>2. /\ one \in Seq(BagCells) /\ Len(one) = 1 /\ one[1] = cell
        /\ two \in Seq(BagCells) /\ Len(two) = 2 /\ two[1] = cell /\ two[2] = Padding
    BY <1>1
  <1> HIDE DEF one, two
  <1>3. b.file \in Seq(BagCells) /\ Len(b.file) \in Nat /\ Len(b.file) >= 3 /\ b.seek \in Nat /\ b.begin \in Nat
    BY LenProperties DEF Bags, HeadIs
  <1>4. CASE n > 0
    <2> DEFINE c == Buffered(b, one)
    <2>1. /\ c \in Bags /\ c.buffer = <<>> \o one /\ FileOf(c) = FileOf(b)
          /\ CallsOf(c) = CallsOf(b) /\ PlacesOf(c) = PlacesOf(b)
      BY <1>2, BufferedIs
    <2>2. c.buffer = one
      BY <1>2, <2>1, ConcatEmptySeq
    <2>3. c.seek = 1 /\ c.file = b.file
      BY <2>1, Zenon DEF FileOf
    <2>4. Header(b, n, pos) = Flushed(c)
      BY <1>4, Zenon DEF Header, one, cell
    <2> HIDE DEF c
    <2>5. c.seek + Len(c.buffer) <= Len(c.file)
      <3>1. c.seek = 1 /\ Len(c.buffer) = 1 /\ Len(c.file) >= 3 /\ Len(c.file) \in Nat
        BY <1>2, <1>3, <2>2, <2>3, Zenon
      <3> QED BY <3>1
    <2>6. /\ Flushed(c) \in Bags /\ Over(Flushed(c).file, b.file, one, 1)
          /\ CallsOf(Flushed(c)) = CallsOf(b) /\ PlacesOf(Flushed(c)) = PlacesOf(b)
      BY <2>1, <2>2, <2>3, <2>5, FlushedOver, Zenon
    <2>7. Flushed(c).file \in Seq(BagCells)
      BY <2>6 DEF Bags
    <2>8. HeaderOver(Flushed(c).file, b.file, n, pos)
      <3>1. one[1].kind = "bag" /\ one[1].n = n /\ one[1].pos = pos
        BY <1>1, <1>2, Zenon
      <3> QED BY <1>2, <1>3, <2>6, <2>7, <3>1, OneOver, Zenon
    <2>9. Flushed(c).chunks = b.chunks
      BY <2>6, Zenon DEF PlacesOf
    <2> QED BY <2>4, <2>6, <2>8, <2>9, Zenon
  <1>5. CASE ~(n > 0)
    <2> DEFINE c == Buffered(b, two)  begin == c.begin + Len(c.buffer)  d == [c EXCEPT !.begin = begin]
    <2>1. /\ c \in Bags /\ c.buffer = <<>> \o two /\ FileOf(c) = FileOf(b)
          /\ CallsOf(c) = CallsOf(b) /\ PlacesOf(c) = PlacesOf(b)
      BY <1>2, BufferedIs
    <2>2. c.buffer = two
      BY <1>2, <2>1, ConcatEmptySeq
    <2>3. c.seek = 1 /\ c.file = b.file /\ c.begin = b.begin /\ c.chunks = b.chunks
      BY <2>1, Zenon DEF FileOf, PlacesOf
    <2>4. Header(b, n, pos) = Flushed(d)
      BY <1>5, Zenon DEF Header, two, cell
    <2> HIDE DEF c
    <2>5. begin \in Nat
      BY <1>2, <1>3, <2>2, <2>3
    <2> HIDE DEF begin
    <2>6. d \in Bags /\ d.seek = c.seek /\ d.file = c.file /\ d.buffer = c.buffer /\ d.chunks = c.chunks
      BY <2>1, <2>5 DEF Bags
    <2>7. CallsOf(d) = CallsOf(c)
      BY <2>1 DEF Bags, CallsOf
    <2> HIDE DEF d
    <2>8. d.seek + Len(d.buffer) <= Len(d.file)
      <3>1. d.seek = 1 /\ Len(d.buffer) = 2 /\ Len(d.file) >= 3 /\ Len(d.file) \in Nat
        BY <1>2, <1>3, <2>2, <2>3, <2>6, Zenon
      <3> QED BY <3>1
    <2>9. /\ Flushed(d) \in Bags /\ Over(Flushed(d).file, d.file, d.buffer, d.seek)
          /\ CallsOf(Flushed(d)) = CallsOf(d) /\ PlacesOf(Flushed(d)) = PlacesOf(d)
      BY <2>6, <2>8, FlushedOver, Zenon
    <2>10. Over(Flushed(d).file, b.file, two, 1) /\ Flushed(d).chunks = b.chunks
           /\ CallsOf(Flushed(d)) = CallsOf(b)
      BY <2>1, <2>2, <2>3, <2>6, <2>7, <2>9, Zenon DEF PlacesOf
    <2>11. Flushed(d).file \in Seq(BagCells)
      BY <2>9 DEF Bags
    <2>12. HeaderOver(Flushed(d).file, b.file, n, pos)
      <3>1. two[1].kind = "bag" /\ two[1].n = n /\ two[1].pos = pos /\ two[2].kind = "padding"
        BY <1>1, <1>2, Zenon
      <3> QED BY <1>2, <1>3, <2>10, <2>11, <3>1, OneOver, Zenon
    <2> QED BY <2>4, <2>9, <2>10, <2>12, Zenon
  <1> QED BY <1>4, <1>5

(* What was readable stays so when cells follow and the header is written. *)
Beyond(h, f) == Len(h) >= Len(f) /\ \A k \in 4..Len(f) : h[k] = f[k]

LEMMA CellStays ==
  ASSUME NEW f, NEW h, Len(f) \in Nat, Len(h) \in Nat, Beyond(h, f), NEW p \in Nat, p >= 3, NEW kind,
         IsAt(f, p, kind)
  PROVE  IsAt(h, p, kind) /\ At(h, p) = At(f, p)
  <1>1. p < Len(f) /\ f[p + 1].kind = kind
    BY DEF IsAt, At
  <1>2. p + 1 \in 4..Len(f) /\ p < Len(h)
    BY <1>1 DEF Beyond
  <1>3. h[p + 1] = f[p + 1]
    BY <1>2 DEF Beyond
  <1> QED BY <1>1, <1>2, <1>3, Zenon DEF IsAt, At

LEMMA ChunkStays ==
  ASSUME NEW f \in Seq(BagCells), NEW h, Len(h) \in Nat, Beyond(h, f), NEW pos \in Nat, pos >= 3,
         ChunkIsWhole(f, pos)
  PROVE  ChunkIsWhole(h, pos)
  <1> DEFINE index == pos + 1 + At(f, pos).n  place == pos + 1 + At(f, index).pos  n == At(f, place).n
  <1>1. /\ IsAt(f, pos, "chunk") /\ IsAt(f, index, "index") /\ IsAt(f, place, "message")
        /\ \A i \in 1..n : IsAt(f, place + i, "point") /\ At(f, place + i).pos = At(f, place).pos
        /\ IsAt(f, place + n + 1, "dense")
    BY Zenon DEF ChunkIsWhole
  <1>2. ASSUME NEW p \in Nat, NEW kind, IsAt(f, p, kind)
        PROVE  At(f, p).n \in Nat /\ At(f, p).pos \in Nat
    <2>1. Len(f) \in Nat /\ p + 1 \in 1..Len(f)
      BY <1>2, LenProperties DEF IsAt
    <2>2. f[p + 1] \in BagCells
      BY <2>1, ElementOfSeq
    <2> QED BY <2>2 DEF At, BagCells
  <1>3. ASSUME NEW p \in Nat, NEW kind, p >= 3, IsAt(f, p, kind)
        PROVE  IsAt(h, p, kind) /\ At(h, p) = At(f, p)
    <2>1. Len(f) \in Nat
      BY LenProperties
    <2> QED BY <1>3, <2>1, CellStays
  <1>4. IsAt(h, pos, "chunk") /\ At(h, pos) = At(f, pos) /\ At(f, pos).n \in Nat
    BY <1>1, <1>2, <1>3
  <1>5. index \in Nat /\ index >= 3
    BY <1>4
  <1> HIDE DEF index
  <1>6. IsAt(h, index, "index") /\ At(h, index) = At(f, index) /\ At(f, index).pos \in Nat
    BY <1>1, <1>2, <1>3, <1>5
  <1>7. place \in Nat /\ place >= 3
    BY <1>6
  <1> HIDE DEF place
  <1>8. IsAt(h, place, "message") /\ At(h, place) = At(f, place) /\ n \in Nat
    BY <1>1, <1>2, <1>3, <1>7
  <1> HIDE DEF n
  <1>9. ASSUME NEW i \in 1..n
        PROVE  IsAt(h, place + i, "point") /\ At(h, place + i).pos = At(h, place).pos
    <2> DEFINE p == place + i
    <2>1. p \in Nat /\ p >= 3
      BY <1>7, <1>8
    <2>2. IsAt(f, p, "point") /\ At(f, p).pos = At(f, place).pos
      BY <1>1
    <2> HIDE DEF p
    <2>3. IsAt(h, p, "point") /\ At(h, p) = At(f, p)
      BY <1>3, <2>1, <2>2
    <2> QED BY <1>8, <2>2, <2>3, Zenon DEF p
  <1>10. IsAt(h, place + n + 1, "dense")
    <2> DEFINE p == place + n + 1
    <2>1. p \in Nat /\ p >= 3
      BY <1>7, <1>8
    <2>2. IsAt(f, p, "dense")
      BY <1>1
    <2> HIDE DEF p
    <2>3. IsAt(h, p, "dense")
      BY <1>3, <2>1, <2>2
    <2> QED BY <2>3, Zenon DEF p
  <1>11. /\ index = pos + 1 + At(h, pos).n /\ place = pos + 1 + At(h, index).pos /\ n = At(h, place).n
    BY <1>4, <1>6, <1>8, Zenon DEF index, place, n
  <1> QED BY <1>4, <1>6, <1>8, <1>9, <1>10, <1>11, Zenon DEF ChunkIsWhole

(* The recorder between two chunks, with the points G in the file.         *)
BagWritten(b, G) ==
  /\ b \in Bags /\ b.seek = Len(b.file) /\ b.written = Len(b.file) /\ b.begin + b.size = Len(b.file)
  /\ b.header = 1 /\ b.chunk = 0 /\ HeadIs(b.file)
  /\ G \in Seq(Nat) /\ HasPoints(b.file \o b.buffer, G)

ChunksWhole(b, n) == \A i \in 1..n : b.chunks[i].pos >= 3 /\ ChunkIsWhole(b.file, b.chunks[i].pos)

BetweenChunks(b, G) ==
  /\ BagWritten(b, G) /\ b.buffer = <<>> /\ ChunksWhole(b, Len(b.chunks))
  /\ Len(b.chunks) > 0 => b.index = Len(b.file)

EndedBag(b, G) == Readable(b.file, G) /\ At(b.file, 1).n = Len(b.chunks)

InfoCells(chunks) == [i \in 1..Len(chunks) |-> Cell("info", 0, chunks[i].pos)]

TailCells(s, chunks) ==
  /\ s \in Seq(BagCells) /\ Len(s) = 1 + Len(chunks) /\ s[1].kind = "connection"
  /\ \A i \in 1..Len(chunks) : s[1 + i].kind = "info" /\ s[1 + i].pos = chunks[i].pos
  /\ \A k \in 1..Len(s) : s[k].kind # "point"

LEMMA TailIs ==
  ASSUME NEW chunks \in Seq(BagChunks)
  PROVE  /\ <<Connection>> \in Seq(BagCells) /\ InfoCells(chunks) \in Seq(BagCells)
         /\ TailCells(<<Connection>> \o InfoCells(chunks), chunks)
  <1> DEFINE c == <<Connection>>  t == InfoCells(chunks)  n == Len(chunks)  s == c \o t
  <1>1. "connection" \in BagKinds /\ "info" \in BagKinds /\ 0 \in Nat /\ n \in Nat
    BY LenProperties DEF BagKinds
  <1>2. CellOf(Connection, "connection", 0, 0)
    BY <1>1, CellIs DEF Connection
  <1>3. c \in Seq(BagCells) /\ Len(c) = 1 /\ c[1].kind = "connection"
    BY <1>2 DEF CellOf
  <1>4. t \in Seq(BagCells) /\ Len(t) = n /\ \A i \in 1..n : t[i].kind = "info" /\ t[i].pos = chunks[i].pos
    <2>1. ASSUME NEW i \in 1..n PROVE CellOf(Cell("info", 0, chunks[i].pos), "info", 0, chunks[i].pos)
      <3>1. chunks[i] \in BagChunks
        BY ElementOfSeq
      <3>2. chunks[i].pos \in Nat
        BY <3>1 DEF BagChunks
      <3> QED BY <1>1, <3>2, CellIs
    <2> DEFINE cell(i) == Cell("info", 0, chunks[i].pos)
    <2>2. \A i \in 1..n : cell(i) \in BagCells /\ cell(i).kind = "info" /\ cell(i).pos = chunks[i].pos
      BY <2>1, Zenon DEF CellOf
    <2>3. t = [i \in 1..n |-> cell(i)]
      BY Zenon DEF InfoCells
    <2> HIDE DEF t, cell, n
    <2>4. t \in Seq(BagCells) /\ Len(t) = n /\ \A i \in 1..n : t[i] = cell(i)
      BY <1>1, <2>2, <2>3
    <2> QED BY <2>2, <2>4, Zenon
  <1> HIDE DEF c, t, n
  <1>5. s \in Seq(BagCells) /\ Joins(s, c, t)
    BY <1>3, <1>4, Joined
  <1> HIDE DEF s
  <1>6. /\ Len(s) = 1 + n /\ \A k \in 1..1 : s[k] = c[k]
        /\ \A k \in 1..n : s[1 + k] = t[k]
    BY <1>3, <1>4, <1>5, Zenon DEF Joins
  <1>7. s[1].kind = "connection"
    BY <1>3, <1>6
  <1>8. \A i \in 1..n : s[1 + i].kind = "info" /\ s[1 + i].pos = chunks[i].pos
    BY <1>4, <1>6, Zenon
  <1>9. ASSUME NEW k \in 1..(1 + n) PROVE s[k].kind # "point"
    <2>1. CASE k = 1
      BY <1>7, <2>1
    <2>2. CASE k # 1
      <3>1. k - 1 \in 1..n /\ 1 + (k - 1) = k
        BY <1>1, <2>2
      <3>2. s[k].kind = "info"
        BY <1>8, <3>1
      <3> QED BY <3>2
    <2> QED BY <2>1, <2>2
  <1>10. TailCells(s, chunks)
    BY <1>5, <1>6, <1>7, <1>8, <1>9, Zenon DEF TailCells, n
  <1> QED BY <1>3, <1>4, <1>10, Zenon DEF c, t, s

(* The index behind the chunks, and the header that tells of it.           *)
LEMMA IndexedIs ==
  ASSUME NEW f \in Seq(BagCells), HeadIs(f), NEW G, HasPoints(f, G), NEW chunks \in Seq(BagChunks),
         \A i \in 1..Len(chunks) : chunks[i].pos >= 3 /\ ChunkIsWhole(f, chunks[i].pos),
         NEW s, TailCells(s, chunks), NEW pos \in Nat, Len(chunks) > 0 => pos = Len(f),
         NEW h, HeaderOver(h, f \o s, Len(chunks), pos)
  PROVE  Readable(h, G) /\ At(h, 1).n = Len(chunks)
  <1> DEFINE q == f \o s  l == Len(f)  n == Len(chunks)
  <1>1. /\ s \in Seq(BagCells) /\ Len(s) = 1 + n /\ s[1].kind = "connection"
        /\ \A i \in 1..n : s[1 + i].kind = "info" /\ s[1 + i].pos = chunks[i].pos
        /\ \A k \in 1..Len(s) : s[k].kind # "point"
    BY Zenon DEF TailCells
  <1>2. n \in Nat /\ l \in Nat /\ l >= 3
    BY LenProperties DEF HeadIs
  <1>3. q \in Seq(BagCells) /\ Joins(q, f, s)
    BY <1>1, Joined
  <1>4. HasPoints(q, G)
    BY <1>1, OtherCells
  <1>5. HeaderOver(h, q, n, pos)
    OBVIOUS
  <1> HIDE DEF q
  <1>6. /\ Len(q) = l + (1 + n) /\ \A k \in 1..l : q[k] = f[k]
        /\ \A k \in 1..(1 + n) : q[l + k] = s[k]
    BY <1>1, <1>3, Zenon DEF Joins
  <1>7. /\ h \in Seq(BagCells) /\ Len(h) = Len(q) /\ HeadIs(h) /\ h[2].n = n /\ h[2].pos = pos
        /\ \A k \in 4..Len(q) : h[k] = q[k]
    BY <1>5, Zenon DEF HeaderOver
  <1> HIDE DEF l, n
  <1>8. /\ h[1].kind = "version" /\ h[2].kind = "bag" /\ h[3].kind = "padding"
        /\ q[1].kind = "version" /\ q[2].kind = "bag" /\ q[3].kind = "padding"
    <2>1. 1 \in 1..l /\ 2 \in 1..l /\ 3 \in 1..l
      BY <1>2
    <2> QED BY <1>6, <1>7, <2>1, Zenon DEF HeadIs
  <1>9. HasPoints(h, G)
    <2>1. ASSUME NEW k \in 1..Len(q)
          PROVE  /\ h[k].kind = "point" <=> q[k].kind = "point"
                 /\ q[k].kind = "point" => h[k].pos = q[k].pos
      <3>1. CASE k \in 4..Len(q)
        BY <1>7, <3>1, Zenon
      <3>2. CASE k \notin 4..Len(q)
        <4>1. k = 1 \/ k = 2 \/ k = 3
          BY <3>2
        <4>2. h[k].kind # "point" /\ q[k].kind # "point"
          BY <1>8, <4>1
        <4> QED BY <4>2
      <3> QED BY <3>1, <3>2
    <2>2. Len(q) \in Nat
      BY <1>3, LenProperties
    <2> QED BY <1>4, <1>7, <2>1, <2>2, SamePoints, Zenon
  <1>10. Beyond(h, f) /\ Len(h) \in Nat /\ Len(h) = l + 1 + n
    <2>1. Len(h) = l + 1 + n
      BY <1>2, <1>6, <1>7
    <2>2. ASSUME NEW k \in 4..l PROVE h[k] = f[k]
      <3>1. k \in 1..l /\ k \in 4..Len(q)
        BY <1>2, <1>6
      <3> QED BY <1>6, <1>7, <3>1, Zenon
    <2>3. Len(h) \in Nat /\ Len(h) >= Len(f)
      BY <1>2, <2>1 DEF l
    <2> QED BY <2>1, <2>2, <2>3, Zenon DEF Beyond, l
  <1>11. ASSUME NEW k \in 1..(1 + n) PROVE h[l + k] = s[k] /\ l + k <= Len(h) /\ l + k >= 4
    <2> DEFINE j == l + k
    <2>1. j \in 4..Len(q) /\ j <= Len(h)
      BY <1>2, <1>6, <1>10
    <2>2. q[j] = s[k]
      BY <1>6, Zenon
    <2> HIDE DEF j
    <2>3. h[j] = s[k] /\ j >= 4
      BY <1>7, <2>1, <2>2
    <2> QED BY <2>1, <2>3, Zenon DEF j
  <1>12. CASE n > 0
    <2>1. pos = l
      BY <1>12, Zenon DEF n, l
    <2>2. IsAt(h, pos, "connection") /\ Len(h) = pos + 1 + n
      <3>1. 1 \in 1..(1 + n)
        BY <1>2
      <3>2. h[l + 1].kind = "connection" /\ l + 1 <= Len(h)
        BY <1>1, <1>11, <3>1, Zenon
      <3>3. l < Len(h)
        BY <1>2, <1>10, <3>2
      <3> QED BY <1>10, <2>1, <3>2, <3>3, Zenon DEF IsAt, At
    <2>3. ASSUME NEW i \in 1..n
          PROVE  IsAt(h, pos + i, "info") /\ ChunkIsWhole(h, At(h, pos + i).pos)
      <3> DEFINE k == 1 + i  j == l + i
      <3>1. k \in 1..(1 + n) /\ l + k = j + 1 /\ j < Len(h)
        BY <1>2, <1>10
      <3>2. s[k].kind = "info" /\ s[k].pos = chunks[i].pos
        BY <1>1, Zenon
      <3> HIDE DEF k, j
      <3>3. h[l + k] = s[k]
        BY <1>11, <3>1, Zenon
      <3>4. IsAt(h, j, "info") /\ At(h, j).pos = chunks[i].pos
        BY <3>1, <3>2, <3>3, Zenon DEF IsAt, At
      <3>5. chunks[i].pos >= 3 /\ ChunkIsWhole(f, chunks[i].pos) /\ chunks[i].pos \in Nat
        <4>1. chunks[i] \in BagChunks
          BY ElementOfSeq DEF n
        <4>2. chunks[i].pos \in Nat
          BY <4>1 DEF BagChunks
        <4> QED BY <4>2, Zenon DEF n
      <3>6. ChunkIsWhole(h, chunks[i].pos)
        BY <1>10, <3>5, ChunkStays
      <3> QED BY <2>1, <3>4, <3>6, Zenon DEF j
    <2>4. IsAt(h, 0, "version") /\ IsAt(h, 1, "bag") /\ IsAt(h, 2, "padding") /\ At(h, 1).n = n /\ At(h, 1).pos = pos
      <3>1. 0 < Len(h) /\ 1 < Len(h) /\ 2 < Len(h) /\ 0 + 1 = 1 /\ 1 + 1 = 2 /\ 2 + 1 = 3
        BY <1>2, <1>10
      <3> QED BY <1>7, <1>8, <3>1 DEF IsAt, At
    <2> QED BY <1>9, <2>2, <2>3, <2>4, Zenon DEF Readable, n
  <1>13. CASE ~(n > 0)
    <2>1. IsAt(h, 0, "version") /\ IsAt(h, 1, "bag") /\ IsAt(h, 2, "padding") /\ At(h, 1).n = n /\ At(h, 1).pos = pos
      <3>1. 0 < Len(h) /\ 1 < Len(h) /\ 2 < Len(h) /\ 0 + 1 = 1 /\ 1 + 1 = 2 /\ 2 + 1 = 3
        BY <1>2, <1>10
      <3> QED BY <1>7, <1>8, <3>1 DEF IsAt, At
    <2>2. 1..n = {}
      BY <1>2, <1>13
    <2> QED BY <1>9, <1>13, <2>1, <2>2, Zenon DEF Readable, n
  <1> QED BY <1>12, <1>13

Sought(b, at) == [b EXCEPT !.seek = at]
Filling(b, full) == [b EXCEPT !.full = full]

LEMMA SoughtIs ==
  ASSUME NEW b \in Bags, NEW at \in Nat
  PROVE  LET c == Sought(b, at)
         IN  /\ c \in Bags /\ c.seek = at /\ c.file = b.file /\ c.buffer = b.buffer /\ c.chunks = b.chunks
             /\ c.last = b.last
  BY DEF Sought, Bags

LEMMA FillingIs ==
  ASSUME NEW b \in Bags, NEW full \in BOOLEAN
  PROVE  LET c == Filling(b, full)
         IN  c \in Bags /\ (c.full <=> full) /\ c.file = b.file /\ c.chunks = b.chunks /\ c.last = b.last
  BY DEF Filling, Bags

LEMMA WritingStops ==
  ASSUME NEW b, NEW G, BetweenChunks(b, G)
  PROVE  LET d == StopWriting(b)
         IN  d \in Bags /\ d.full /\ EndedBag(d, G) /\ d.chunks = b.chunks /\ d.last = b.last
  <1> DEFINE chunks == b.chunks  n == Len(chunks)  c == <<Connection>>  t == InfoCells(chunks)  s == c \o t
             b1 == Buffered(b, c)  b2 == Buffered(b1, t)  tail == Flushed(b2)
             b3 == Sought(tail, b.header)  h == Header(b3, n, IndexPlace(b))  full == TRUE
             d == Filling(h, full)
  <1>1. /\ b \in Bags /\ b.seek = Len(b.file) /\ b.written = Len(b.file) /\ b.header = 1
        /\ HeadIs(b.file) /\ HasPoints(b.file \o b.buffer, G) /\ b.buffer = <<>>
        /\ \A i \in 1..n : chunks[i].pos >= 3 /\ ChunkIsWhole(b.file, chunks[i].pos)
        /\ n > 0 => b.index = Len(b.file)
    BY Zenon DEF BetweenChunks, BagWritten, ChunksWhole
  <1>2. chunks \in Seq(BagChunks) /\ b.file \in Seq(BagCells) /\ n \in Nat /\ b.index \in Nat
    BY <1>1, LenProperties DEF Bags
  <1>3. StopWriting(b) = d
    BY Zenon DEF StopWriting, Sought, Filling, InfoCells
  <1>4. full /\ full \in BOOLEAN
    OBVIOUS
  <1> HIDE DEF full, h, b3, tail, b2, b1
  <1>5. c \in Seq(BagCells) /\ t \in Seq(BagCells) /\ TailCells(s, chunks)
    BY <1>2, TailIs, Zenon
  <1>6. s \in Seq(BagCells) /\ Len(s) = 1 + n
    BY <1>5, Zenon DEF TailCells
  <1> HIDE DEF c, t
  <1>7. b1 \in Bags /\ b1.buffer = c /\ FileOf(b1) = FileOf(b) /\ PlacesOf(b1) = PlacesOf(b)
        /\ CallsOf(b1) = CallsOf(b)
    <2>1. /\ b1 \in Bags /\ b1.buffer = b.buffer \o c /\ FileOf(b1) = FileOf(b)
          /\ PlacesOf(b1) = PlacesOf(b) /\ CallsOf(b1) = CallsOf(b)
      BY <1>1, <1>5, BufferedIs, Zenon DEF b1
    <2>2. <<>> \o c = c
      BY <1>5, ConcatEmptySeq
    <2> QED BY <1>1, <2>1, <2>2, Zenon
  <1>8. /\ b2 \in Bags /\ b2.buffer = s /\ FileOf(b2) = FileOf(b) /\ PlacesOf(b2) = PlacesOf(b)
        /\ CallsOf(b2) = CallsOf(b)
    <2>1. /\ b2 \in Bags /\ b2.buffer = b1.buffer \o t /\ FileOf(b2) = FileOf(b1)
          /\ PlacesOf(b2) = PlacesOf(b1) /\ CallsOf(b2) = CallsOf(b1)
      BY <1>5, <1>7, BufferedIs, Zenon DEF b2
    <2> QED BY <1>7, <2>1, Zenon
  <1> HIDE DEF s
  <1>9. b2.file = b.file /\ b2.seek = Len(b2.file) /\ b2.written = Len(b2.file)
    BY <1>1, <1>8, Zenon DEF FileOf
  <1>10. /\ tail \in Bags /\ tail.buffer = <<>> /\ tail.file = b.file \o s
         /\ PlacesOf(tail) = PlacesOf(b) /\ CallsOf(tail) = CallsOf(b)
    BY <1>8, <1>9, FlushedIs, Zenon DEF tail
  <1>11. tail.chunks = chunks /\ tail.last = b.last
    BY <1>10, Zenon DEF PlacesOf, CallsOf
  <1>12. /\ b3 \in Bags /\ b3.seek = 1 /\ b3.file = b.file \o s /\ b3.buffer = <<>> /\ b3.chunks = chunks
         /\ b3.last = b.last
    <2>1. b.header = 1 /\ b.header \in Nat
      BY <1>1
    <2> QED BY <1>10, <1>11, <2>1, SoughtIs, Zenon DEF b3
  <1>13. HeadIs(b3.file)
    <2>1. b.file \o s \in Seq(BagCells) /\ Joins(b.file \o s, b.file, s)
      BY <1>2, <1>6, Joined
    <2> DEFINE q == b.file \o s  f == b.file
    <2>2. Len(q) = Len(f) + Len(s) /\ Len(f) \in Nat /\ Len(s) \in Nat /\ \A k \in 1..Len(f) : q[k] = f[k]
      BY <2>1, Zenon DEF Joins
    <2> HIDE DEF q, f
    <2>3. Len(f) >= 3 /\ f[1].kind = "version" /\ f[2].kind = "bag" /\ f[3].kind = "padding"
      BY <1>1, Zenon DEF HeadIs, f
    <2>4. 1 \in 1..Len(f) /\ 2 \in 1..Len(f) /\ 3 \in 1..Len(f) /\ Len(q) >= 3
      BY <2>2, <2>3
    <2>5. q[1].kind = "version" /\ q[2].kind = "bag" /\ q[3].kind = "padding"
      BY <2>2, <2>3, <2>4, Zenon
    <2> QED BY <1>12, <2>4, <2>5, Zenon DEF HeadIs, q, f
  <1>14. /\ h \in Bags /\ HeaderOver(h.file, b.file \o s, n, b.index) /\ h.chunks = chunks
         /\ CallsOf(h) = CallsOf(b3)
    BY <1>2, <1>12, <1>13, HeaderAgain, Zenon DEF h, IndexPlace
  <1>15. h.last = b.last
    BY <1>12, <1>14, Zenon DEF CallsOf
  <1>16. HasPoints(b.file, G)
    BY <1>1, <1>2, ConcatEmptySeq
  <1>17. Readable(h.file, G) /\ At(h.file, 1).n = n
    <2>1. TailCells(s, chunks)
      BY <1>5, Zenon DEF s, c, t
    <2> HIDE DEF chunks
    <2> DEFINE f == b.file  q == h.file  pos == b.index
    <2>2. /\ f \in Seq(BagCells) /\ HeadIs(f) /\ HasPoints(f, G) /\ chunks \in Seq(BagChunks)
          /\ \A i \in 1..Len(chunks) : chunks[i].pos >= 3 /\ ChunkIsWhole(f, chunks[i].pos)
          /\ pos \in Nat /\ (Len(chunks) > 0 => pos = Len(f)) /\ HeaderOver(q, f \o s, Len(chunks), pos)
      BY <1>1, <1>2, <1>14, <1>16, Zenon
    <2> HIDE DEF f, q, pos
    <2>3. Readable(q, G) /\ At(q, 1).n = Len(chunks)
      BY <2>1, <2>2, IndexedIs
    <2> QED BY <2>3, Zenon DEF q
  <1>18. /\ d \in Bags /\ d.full /\ d.file = h.file /\ d.chunks = chunks /\ d.last = b.last
    BY <1>4, <1>14, <1>15, FillingIs, Zenon
  <1> HIDE DEF d
  <1>19. EndedBag(d, G)
    BY <1>17, <1>18, Zenon DEF EndedBag
  <1> QED BY <1>3, <1>18, <1>19, Zenon

(* A chunk in the buffer: m cells, the message and its points.             *)
Laid(B, m, points, idx) ==
  /\ B \in Seq(BagCells) /\ m \in {1, 2} /\ points \in Nat /\ Len(B) = m + 1 + points
  /\ B[1].kind = "chunk" /\ B[m + 1].kind = "message" /\ B[m + 1].pos = idx
  /\ \A i \in 1..points : B[m + 1 + i].kind = "point" /\ B[m + 1 + i].pos = idx

(* Its lengths are filled in.                                              *)
Lengths(B2, B, m, points) ==
  /\ B2 \in Seq(BagCells) /\ Len(B2) = Len(B)
  /\ \A k \in 1..Len(B) : B2[k].kind = B[k].kind /\ B2[k].pos = B[k].pos
  /\ B2[1].n = points + m + 1 /\ B2[m + 1].n = points

ChunkBehind(q, f, l, B, b, dense, x) ==
  /\ Len(q) = l + b + 2
  /\ \A k \in 1..l : q[k] = f[k]
  /\ \A k \in 1..b : q[l + k] = B[k]
  /\ q[l + b + 1] = dense /\ q[l + b + 2] = x

Placed(q, f, B, dense, x) ==
  /\ q \in Seq(BagCells) /\ ChunkBehind(q, f, Len(f), B, Len(B), dense, x)
  /\ Len(f) \in Nat /\ Len(B) \in Nat
  /\ q = ((f \o B) \o <<dense>>) \o <<x>> /\ f \o B \in Seq(BagCells)

LEMMA ChunkPlaced ==
  ASSUME NEW f \in Seq(BagCells), NEW B \in Seq(BagCells), NEW dense \in BagCells, NEW x \in BagCells
  PROVE  Placed((f \o (B \o <<dense>>)) \o <<x>>, f, B, dense, x)
  <1> DEFINE l == Len(f)  b == Len(B)  d == <<dense>>  y == <<x>>  u == f \o B  v == u \o d  q == v \o y
  <1>1. d \in Seq(BagCells) /\ y \in Seq(BagCells) /\ Len(d) = 1 /\ Len(y) = 1 /\ d[1] = dense /\ y[1] = x
    OBVIOUS
  <1>2. l \in Nat /\ b \in Nat
    BY LenProperties
  <1> HIDE DEF d, y
  <1>3. u \in Seq(BagCells) /\ Joins(u, f, B)
    BY Joined
  <1>4. v = f \o (B \o d)
    <2>1. d \in Seq(BagCells)
      BY <1>1, Zenon
    <2> HIDE DEF u, v
    <2>2. (f \o B) \o d = f \o (B \o d)
      BY <2>1, ConcatAssociative
    <2> QED BY <2>2, Zenon DEF u, v
  <1> HIDE DEF u
  <1>5. v \in Seq(BagCells) /\ Joins(v, u, d)
    BY <1>1, <1>3, Joined
  <1> HIDE DEF v
  <1>6. q \in Seq(BagCells) /\ Joins(q, v, y)
    BY <1>1, <1>5, Joined
  <1> HIDE DEF q
  <1>7. /\ Len(u) = l + b /\ \A k \in 1..l : u[k] = f[k]
        /\ \A k \in 1..b : u[l + k] = B[k]
    BY <1>3, Zenon DEF Joins
  <1> HIDE DEF l, b
  <1>8. /\ Len(v) = l + b + 1 /\ \A k \in 1..(l + b) : v[k] = u[k]
        /\ v[l + b + 1] = dense
    <2>1. /\ Len(v) = l + b + 1 /\ \A k \in 1..(l + b) : v[k] = u[k]
          /\ \A k \in 1..1 : v[l + b + k] = d[k]
      BY <1>1, <1>5, <1>7, Zenon DEF Joins
    <2> QED BY <1>1, <2>1
  <1>9. /\ Len(q) = l + b + 1 + 1 /\ \A k \in 1..(l + b + 1) : q[k] = v[k]
        /\ q[l + b + 1 + 1] = x
    <2>1. /\ Len(q) = l + b + 1 + 1 /\ \A k \in 1..(l + b + 1) : q[k] = v[k]
          /\ \A k \in 1..1 : q[l + b + 1 + k] = y[k]
      BY <1>1, <1>6, <1>8, Zenon DEF Joins
    <2> QED BY <1>1, <2>1
  <1>10. Len(q) = l + b + 2 /\ q[l + b + 2] = x /\ q[l + b + 1] = dense
    <2>1. l + b + 1 \in 1..(l + b + 1) /\ l + b + 1 + 1 = l + b + 2
      BY <1>2
    <2> QED BY <1>8, <1>9, <2>1
  <1>11. ASSUME NEW k \in 1..l PROVE q[k] = f[k]
    <2>1. k \in 1..(l + b) /\ k \in 1..(l + b + 1)
      BY <1>2
    <2> QED BY <1>7, <1>8, <1>9, <2>1, Zenon
  <1>12. ASSUME NEW k \in 1..b PROVE q[l + k] = B[k]
    <2> DEFINE j == l + k
    <2>1. j \in 1..(l + b) /\ j \in 1..(l + b + 1)
      BY <1>2
    <2>2. u[j] = B[k]
      BY <1>7, Zenon
    <2> HIDE DEF j
    <2>3. q[j] = B[k]
      BY <1>8, <1>9, <2>1, <2>2, Zenon
    <2> QED BY <2>3, Zenon DEF j
  <1>13. ChunkBehind(q, f, l, B, b, dense, x)
    BY <1>10, <1>11, <1>12, Zenon DEF ChunkBehind
  <1> QED BY <1>2, <1>3, <1>4, <1>6, <1>13, Zenon DEF q, v, u, d, y, l, b, Placed

LEMMA ChunkRead ==
  ASSUME NEW f, NEW l \in Nat, NEW B, NEW B2, NEW m, NEW points, NEW idx, Laid(B, m, points, idx),
         Lengths(B2, B, m, points), NEW dense, dense.kind = "dense", NEW x, x.kind = "index", x.pos = m - 1,
         NEW b, b = m + 1 + points, NEW q, ChunkBehind(q, f, l, B2, b, dense, x)
  PROVE  ChunkIsWhole(q, l)
  <1>1. /\ m \in {1, 2} /\ points \in Nat /\ Len(B) = b
        /\ B[1].kind = "chunk" /\ B[m + 1].kind = "message" /\ B[m + 1].pos = idx
        /\ \A i \in 1..points : B[m + 1 + i].kind = "point" /\ B[m + 1 + i].pos = idx
    BY Zenon DEF Laid
  <1>2. /\ \A k \in 1..b : B2[k].kind = B[k].kind /\ B2[k].pos = B[k].pos
        /\ B2[1].n = points + m + 1 /\ B2[m + 1].n = points
    BY <1>1, Zenon DEF Lengths
  <1>3. /\ Len(q) = l + b + 2 /\ \A k \in 1..b : q[l + k] = B2[k]
        /\ q[l + b + 1] = dense /\ q[l + b + 2] = x
    BY Zenon DEF ChunkBehind
  <1>4. ASSUME NEW k \in 1..b, NEW j, j = l + k - 1
        PROVE  At(q, j) = B2[k] /\ j < Len(q) /\ B2[k].kind = B[k].kind /\ B2[k].pos = B[k].pos
    <2>1. j + 1 = l + k /\ j < Len(q)
      <3>1. Len(q) = l + b + 2
        BY <1>3, Zenon
      <3>2. b \in Nat
        BY <1>1
      <3> QED BY <1>4, <3>1, <3>2
    <2>2. q[l + k] = B2[k]
      BY <1>3, Zenon
    <2> QED BY <1>2, <2>1, <2>2, Zenon DEF At
  <1>5. IsAt(q, l, "chunk") /\ At(q, l).n = points + m + 1
    <2>1. 1 \in 1..b /\ l = l + 1 - 1
      BY <1>1
    <2> QED BY <1>1, <1>2, <1>4, <2>1, Zenon DEF IsAt
  <1> DEFINE index == l + 1 + At(q, l).n  place == l + 1 + At(q, index).pos
  <1>6. index + 1 = l + b + 2 /\ index < Len(q)
    BY <1>1, <1>3, <1>5
  <1> HIDE DEF index
  <1>7. IsAt(q, index, "index") /\ At(q, index).pos = m - 1
    BY <1>3, <1>6, Zenon DEF IsAt, At
  <1>8. place = l + m
    BY <1>1, <1>7
  <1> HIDE DEF place
  <1>9. IsAt(q, place, "message") /\ At(q, place).n = points /\ At(q, place).pos = idx
    <2> DEFINE k == m + 1
    <2>1. k \in 1..b /\ place = l + k - 1
      BY <1>1, <1>8
    <2>2. B2[k].n = points /\ B[k].kind = "message" /\ B[k].pos = idx
      BY <1>1, <1>2, Zenon
    <2> HIDE DEF k
    <2> QED BY <1>4, <2>1, <2>2, Zenon DEF IsAt
  <1>10. ASSUME NEW i \in 1..points PROVE IsAt(q, place + i, "point") /\ At(q, place + i).pos = idx
    <2> DEFINE k == m + 1 + i  j == place + i
    <2>1. k \in 1..b /\ j = l + k - 1
      BY <1>1, <1>8
    <2>2. B[k].kind = "point" /\ B[k].pos = idx
      BY <1>1, Zenon
    <2> HIDE DEF k, j
    <2>3. IsAt(q, j, "point") /\ At(q, j).pos = idx
      BY <1>4, <2>1, <2>2, Zenon DEF IsAt
    <2> QED BY <2>3, Zenon DEF j
  <1>11. IsAt(q, place + points + 1, "dense")
    <2> DEFINE j == place + points + 1
    <2>1. j + 1 = l + b + 1 /\ j < Len(q)
      BY <1>1, <1>3, <1>8
    <2> HIDE DEF j
    <2>2. IsAt(q, j, "dense")
      BY <1>3, <2>1, Zenon DEF IsAt, At
    <2> QED BY <2>2, Zenon DEF j
  <1>12. index = l + 1 + At(q, l).n /\ place = l + 1 + At(q, index).pos
    BY DEF index, place
  <1> QED BY <1>5, <1>7, <1>9, <1>10, <1>11, <1>12, Zenon DEF ChunkIsWhole

(* The recorder within a chunk of the frame idx.                           *)
Growing(b, G, idx) ==
  /\ BagWritten(b, G) /\ b.size = 0 /\ Len(b.chunks) >= 1 /\ b.chunks[Len(b.chunks)].pos = b.begin
  /\ ChunksWhole(b, Len(b.chunks) - 1)
  /\ b.message = 1 + MessagePlace(b) /\ Laid(b.buffer, b.message, b.points, idx)

KeptOf(b) == <<b.header, b.begin, b.chunk, b.message>>

WithChunks(b, chunks) == [b EXCEPT !.chunks = chunks]
WithBuffer(b, cells) == [b EXCEPT !.buffer = cells]
Sized(b, points, size) == [b EXCEPT !.points = points, !.size = size]
Indexed(b, index) == [b EXCEPT !.index = index]

LEMMA WithChunksIs ==
  ASSUME NEW b \in Bags, NEW chunks \in Seq(BagChunks)
  PROVE  LET c == WithChunks(b, chunks)
         IN  /\ c \in Bags /\ c.chunks = chunks /\ c.buffer = b.buffer /\ c.size = b.size
             /\ c.points = b.points /\ CallsOf(c) = CallsOf(b) /\ FileOf(c) = FileOf(b)
             /\ KeptOf(c) = KeptOf(b)
  <1> DEFINE c == WithChunks(b, chunks)
  <1>1. c \in Bags /\ c.chunks = chunks /\ c.buffer = b.buffer /\ c.size = b.size /\ c.points = b.points
    BY DEF WithChunks, Bags
  <1>2. CallsOf(c) = CallsOf(b) /\ FileOf(c) = FileOf(b) /\ KeptOf(c) = KeptOf(b)
    BY DEF WithChunks, Bags, CallsOf, FileOf, KeptOf
  <1> QED BY <1>1, <1>2

LEMMA WithBufferIs ==
  ASSUME NEW b \in Bags, NEW cells \in Seq(BagCells)
  PROVE  LET c == WithBuffer(b, cells)
         IN  /\ c \in Bags /\ c.buffer = cells /\ CallsOf(c) = CallsOf(b) /\ FileOf(c) = FileOf(b)
             /\ PlacesOf(c) = PlacesOf(b)
  <1> DEFINE c == WithBuffer(b, cells)
  <1>1. c \in Bags /\ c.buffer = cells
    BY DEF WithBuffer, Bags
  <1>2. CallsOf(c) = CallsOf(b) /\ FileOf(c) = FileOf(b) /\ PlacesOf(c) = PlacesOf(b)
    BY DEF WithBuffer, Bags, CallsOf, FileOf, PlacesOf
  <1> QED BY <1>1, <1>2

SizedBag(c, b, points, size) ==
  /\ c \in Bags /\ c.points = points /\ c.size = size /\ c.buffer = b.buffer
  /\ c.chunks = b.chunks /\ CallsOf(c) = CallsOf(b) /\ FileOf(c) = FileOf(b)
  /\ KeptOf(c) = KeptOf(b)

LEMMA SizedIs ==
  ASSUME NEW b \in Bags, NEW points \in Nat, NEW size \in Nat
  PROVE  SizedBag(Sized(b, points, size), b, points, size)
  <1> DEFINE c == Sized(b, points, size)
  <1>1. /\ c \in Bags /\ c.points = points /\ c.size = size /\ c.buffer = b.buffer
        /\ c.chunks = b.chunks
    BY DEF Sized, Bags
  <1>2. CallsOf(c) = CallsOf(b) /\ FileOf(c) = FileOf(b) /\ KeptOf(c) = KeptOf(b)
    BY DEF Sized, Bags, CallsOf, FileOf, KeptOf
  <1> QED BY <1>1, <1>2, Zenon DEF SizedBag

LEMMA IndexedBag ==
  ASSUME NEW b \in Bags, NEW index \in Nat
  PROVE  LET c == Indexed(b, index)
         IN  /\ c \in Bags /\ c.index = index /\ c.size = b.size /\ c.buffer = b.buffer
             /\ c.chunks = b.chunks /\ CallsOf(c) = CallsOf(b) /\ FileOf(c) = FileOf(b)
             /\ KeptOf(c) = KeptOf(b)
  <1> DEFINE c == Indexed(b, index)
  <1>1. /\ c \in Bags /\ c.index = index /\ c.size = b.size /\ c.buffer = b.buffer
        /\ c.chunks = b.chunks
    BY DEF Indexed, Bags
  <1>2. CallsOf(c) = CallsOf(b) /\ FileOf(c) = FileOf(b) /\ KeptOf(c) = KeptOf(b)
    BY DEF Indexed, Bags, CallsOf, FileOf, KeptOf
  <1> QED BY <1>1, <1>2

WithLength(cell, n) == [cell EXCEPT !.n = n]

LEMMA WithLengthIs ==
  ASSUME NEW c \in BagCells, NEW n \in Nat
  PROVE  CellOf(WithLength(c, n), c.kind, n, c.pos)
  BY DEF WithLength, CellOf, BagCells

(* update_ps_value_: the lengths of the chunk and of its message.          *)
LEMMA FilledIs ==
  ASSUME NEW b \in Bags, b.chunk = 0, NEW idx, Laid(b.buffer, b.message, b.points, idx)
  PROVE  \E B2 : Filled(b) = WithBuffer(b, B2) /\ Lengths(B2, b.buffer, b.message, b.points)
  <1> DEFINE B == b.buffer  m == b.message  points == b.points  n == points + m - b.chunk + 1
             B1 == [B EXCEPT ![1] = WithLength(B[1], n)]
             B2 == [B1 EXCEPT ![m + 1] = WithLength(B1[m + 1], points)]
  <1>1. B \in Seq(BagCells) /\ m \in {1, 2} /\ points \in Nat /\ Len(B) = m + 1 + points /\ b.chunk = 0
    BY Zenon DEF Laid
  <1>2. n = points + m + 1 /\ n \in Nat
    <2> HIDE DEF points, m, B
    <2> QED BY <1>1
  <1>3. Filled(b) = WithBuffer(b, B2)
    <2>1. b.chunk + 1 = 1 /\ m + 1 # 1
      BY <1>1
    <2>2. Filled(b) = [b EXCEPT !.buffer[1].n = n, !.buffer[m + 1].n = points]
      BY <2>1, Zenon DEF Filled
    <2> HIDE DEF n, points
    <2>3. [b EXCEPT !.buffer[1].n = n, !.buffer[m + 1].n = points] = WithBuffer(b, B2)
      BY DEF WithBuffer, WithLength, Bags
    <2> QED BY <2>2, <2>3, Zenon
  <1> HIDE DEF B, m, points, n
  <1>4. 1 \in 1..Len(B) /\ m + 1 \in 1..Len(B) /\ m + 1 # 1
    BY <1>1
  <1>5. CellOf(WithLength(B[1], n), B[1].kind, n, B[1].pos)
    BY <1>1, <1>2, <1>4, ElementOfSeq, WithLengthIs
  <1>6. /\ B1 \in Seq(BagCells) /\ Len(B1) = Len(B)
        /\ \A k \in 1..Len(B) : B1[k] = IF k = 1 THEN WithLength(B[1], n) ELSE B[k]
    <2> DEFINE x == WithLength(B[1], n)
    <2>1. x \in BagCells
      BY <1>5, Zenon DEF CellOf
    <2> HIDE DEF x
    <2>2. LET s == [B EXCEPT ![1] = x]
          IN  /\ s \in Seq(BagCells) /\ Len(s) = Len(B)
              /\ \A k \in 1..Len(B) : s[k] = IF k = 1 THEN x ELSE B[k]
      BY <1>1, <1>4, <2>1, ExceptSeq
    <2> QED BY <2>2, Zenon DEF x
  <1> HIDE DEF B1
  <1>7. CellOf(WithLength(B1[m + 1], points), B1[m + 1].kind, points, B1[m + 1].pos)
    <2>1. B1[m + 1] \in BagCells
      BY <1>4, <1>6, ElementOfSeq
    <2> QED BY <1>1, <2>1, WithLengthIs
  <1>8. /\ B2 \in Seq(BagCells) /\ Len(B2) = Len(B)
        /\ \A k \in 1..Len(B) : B2[k] = IF k = m + 1 THEN WithLength(B1[m + 1], points) ELSE B1[k]
    <2> DEFINE x == WithLength(B1[m + 1], points)  j == m + 1
    <2>1. x \in BagCells /\ j \in 1..Len(B1)
      BY <1>4, <1>6, <1>7, Zenon DEF CellOf
    <2> HIDE DEF x, j
    <2>2. LET s == [B1 EXCEPT ![j] = x]
          IN  /\ s \in Seq(BagCells) /\ Len(s) = Len(B1)
              /\ \A k \in 1..Len(B1) : s[k] = IF k = j THEN x ELSE B1[k]
      BY <1>6, <2>1, ExceptSeq
    <2> QED BY <1>6, <2>2, Zenon DEF x, j
  <1> HIDE DEF B2
  <1>9. ASSUME NEW k \in 1..Len(B) PROVE B2[k].kind = B[k].kind /\ B2[k].pos = B[k].pos
    <2>1. B1[k].kind = B[k].kind /\ B1[k].pos = B[k].pos
      <3>1. CASE k = 1
        BY <1>5, <1>6, <3>1, Zenon DEF CellOf
      <3>2. CASE k # 1
        BY <1>6, <3>2, Zenon
      <3> QED BY <3>1, <3>2
    <2>2. CASE k = m + 1
      BY <1>7, <1>8, <2>1, <2>2, Zenon DEF CellOf
    <2>3. CASE k # m + 1
      BY <1>8, <2>1, <2>3, Zenon
    <2> QED BY <2>2, <2>3
  <1>10. B2[1].n = points + m + 1
    <2>1. B2[1] = WithLength(B[1], n)
      BY <1>4, <1>6, <1>8, Zenon
    <2> QED BY <1>2, <1>5, <2>1, Zenon DEF CellOf
  <1>11. B2[m + 1].n = points
    BY <1>4, <1>7, <1>8, Zenon DEF CellOf
  <1>12. Lengths(B2, B, m, points)
    BY <1>8, <1>9, <1>10, <1>11, Zenon DEF Lengths
  <1> QED BY <1>3, <1>12, Zenon DEF B, m, points

EndOf(b) == IF b.last2 >= 0 THEN b.last2 ELSE b.last
ChunksEnd(b) == [b.chunks EXCEPT ![Len(b.chunks)] = [b.chunks[Len(b.chunks)] EXCEPT !.end = EndOf(b)]]

ChunkEnds(C, chunks, end) ==
  /\ C \in Seq(BagChunks) /\ Len(C) = Len(chunks)
  /\ \A i \in 1..Len(chunks) : C[i].pos = chunks[i].pos /\ C[i].start = chunks[i].start
  /\ \A i \in 1..(Len(chunks) - 1) : C[i].end = chunks[i].end
  /\ C[Len(chunks)].end = end

LEMMA ChunksEndIs ==
  ASSUME NEW b \in Bags, Len(b.chunks) >= 1
  PROVE  ChunkEnds(ChunksEnd(b), b.chunks, EndOf(b))
  <1> DEFINE chunks == b.chunks  n == Len(chunks)  x == [chunks[n] EXCEPT !.end = EndOf(b)]
             C == [chunks EXCEPT ![n] = x]
  <1>1. chunks \in Seq(BagChunks) /\ n \in Nat /\ n \in 1..n
    <2>1. chunks \in Seq(BagChunks)
      BY DEF Bags
    <2>2. n \in Nat /\ n >= 1
      BY <2>1, LenProperties
    <2> QED BY <2>1, <2>2
  <1>2. EndOf(b) \in Int
    BY DEF EndOf, Bags
  <1>3. x \in BagChunks /\ x.pos = chunks[n].pos /\ x.start = chunks[n].start /\ x.end = EndOf(b)
    <2>1. chunks[n] \in BagChunks
      BY <1>1, ElementOfSeq
    <2> HIDE DEF chunks, n
    <2> QED BY <1>2, <2>1 DEF BagChunks
  <1> HIDE DEF x, n, chunks
  <1>4. /\ C \in Seq(BagChunks) /\ Len(C) = n
        /\ \A i \in 1..n : C[i] = IF i = n THEN x ELSE chunks[i]
    <2>1. n \in 1..Len(chunks) /\ n = Len(chunks)
      BY <1>1, Zenon DEF n
    <2> QED BY <1>1, <1>3, <2>1, ExceptSeq
  <1> HIDE DEF C
  <1>5. ASSUME NEW i \in 1..n PROVE C[i].pos = chunks[i].pos /\ C[i].start = chunks[i].start
    BY <1>3, <1>4, Zenon
  <1>6. ASSUME NEW i \in 1..(n - 1) PROVE C[i].end = chunks[i].end
    <2>1. i \in 1..n /\ i # n
      BY <1>1
    <2>2. C[i] = chunks[i]
      BY <1>4, <2>1, Zenon
    <2> QED BY <2>2, Zenon
  <1>7. C[n].end = EndOf(b)
    BY <1>1, <1>3, <1>4, Zenon
  <1>8. ChunkEnds(C, chunks, EndOf(b))
    BY <1>4, <1>5, <1>6, <1>7, Zenon DEF ChunkEnds, n
  <1> QED BY <1>8, Zenon DEF C, x, n, chunks, ChunksEnd

LEMMA ChunkStops ==
  ASSUME NEW b, NEW G, NEW idx, Growing(b, G, idx)
  PROVE  LET d == StopChunk(b)
         IN  /\ BetweenChunks(d, G) /\ CallsOf(d) = CallsOf(b) /\ ChunkEnds(d.chunks, b.chunks, EndOf(b))
             /\ d.message = b.message
  <1> DEFINE f == b.file  l == Len(f)  n == Len(b.chunks)  m == b.message  C == ChunksEnd(b)
  <1>1. /\ b \in Bags /\ b.seek = l /\ b.written = l /\ b.begin + b.size = l /\ b.header = 1 /\ b.chunk = 0
        /\ HeadIs(f) /\ G \in Seq(Nat) /\ HasPoints(f \o b.buffer, G)
        /\ b.size = 0 /\ n >= 1 /\ b.chunks[n].pos = b.begin /\ ChunksWhole(b, n - 1)
        /\ m = 1 + MessagePlace(b) /\ Laid(b.buffer, m, b.points, idx)
    BY Zenon DEF Growing, BagWritten
  <1>2. f \in Seq(BagCells) /\ l \in Nat /\ b.begin \in Nat /\ b.begin = l /\ n \in Nat
    <2>1. f \in Seq(BagCells) /\ b.begin \in Nat /\ b.chunks \in Seq(BagChunks)
      BY <1>1 DEF Bags
    <2>2. l \in Nat /\ n \in Nat
      BY <2>1, LenProperties
    <2> QED BY <1>1, <2>1, <2>2
  <1>3. ChunkEnds(C, b.chunks, EndOf(b))
    BY <1>1, ChunksEndIs, Zenon
  <1> DEFINE b1 == WithChunks(b, C)
  <1>4. /\ b1 \in Bags /\ b1.chunks = C /\ b1.buffer = b.buffer /\ b1.size = 0 /\ b1.points = b.points
        /\ CallsOf(b1) = CallsOf(b) /\ FileOf(b1) = FileOf(b) /\ KeptOf(b1) = KeptOf(b)
    <2>1. C \in Seq(BagChunks)
      BY <1>3, Zenon DEF ChunkEnds
    <2> HIDE DEF C
    <2> QED BY <1>1, <2>1, WithChunksIs, Zenon
  <1> HIDE DEF C, b1
  <1>5. b1.chunk = 0 /\ b1.message = m
    BY <1>1, <1>4, Zenon DEF KeptOf
  <1>6. PICK B2 : Filled(b1) = WithBuffer(b1, B2) /\ Lengths(B2, b.buffer, m, b.points)
    <2>1. Laid(b1.buffer, b1.message, b1.points, idx)
      BY <1>1, <1>4, <1>5, Zenon
    <2>2. \E B2 : Filled(b1) = WithBuffer(b1, B2) /\ Lengths(B2, b1.buffer, b1.message, b1.points)
      BY <1>4, <1>5, <2>1, FilledIs, Zenon
    <2> QED BY <1>4, <1>5, <2>2, Zenon
  <1>7. B2 \in Seq(BagCells) /\ Len(B2) = Len(b.buffer) /\ Len(B2) \in Nat
    BY <1>6, LenProperties DEF Lengths
  <1> DEFINE b2 == Filled(b1)  dense == Cell("dense", 0, 0)
  <1>8. /\ b2 \in Bags /\ b2.buffer = B2 /\ CallsOf(b2) = CallsOf(b) /\ FileOf(b2) = FileOf(b)
        /\ KeptOf(b2) = KeptOf(b) /\ b2.chunks = C /\ b2.size = 0
    <2>1. /\ b2 \in Bags /\ b2.buffer = B2 /\ CallsOf(b2) = CallsOf(b1) /\ FileOf(b2) = FileOf(b1)
          /\ PlacesOf(b2) = PlacesOf(b1)
      BY <1>4, <1>6, <1>7, WithBufferIs, Zenon
    <2>2. KeptOf(b2) = KeptOf(b1) /\ b2.chunks = b1.chunks /\ b2.size = b1.size
      <3> HIDE DEF b2
      <3> QED BY <2>1, Zenon DEF PlacesOf, KeptOf
    <2> QED BY <1>4, <2>1, <2>2, Zenon
  <1>9. CellOf(dense, "dense", 0, 0)
    <2>1. "dense" \in BagKinds /\ 0 \in Nat
      BY DEF BagKinds
    <2> QED BY <2>1, CellIs
  <1> HIDE DEF b2, dense
  <1> DEFINE D == <<dense>>  E == B2 \o D  c == Buffered(b2, D)
  <1>10. dense \in BagCells /\ dense.kind = "dense" /\ D \in Seq(BagCells) /\ Len(D) = 1
    <2>1. dense \in BagCells /\ dense.kind = "dense"
      BY <1>9, Zenon DEF CellOf
    <2> QED BY <2>1
  <1> HIDE DEF D
  <1>11. /\ c \in Bags /\ c.buffer = E /\ CallsOf(c) = CallsOf(b) /\ FileOf(c) = FileOf(b)
         /\ KeptOf(c) = KeptOf(b) /\ c.chunks = C /\ c.size = 0
    <2>1. /\ c \in Bags /\ c.buffer = b2.buffer \o D /\ CallsOf(c) = CallsOf(b2) /\ FileOf(c) = FileOf(b2)
          /\ PlacesOf(c) = PlacesOf(b2)
      BY <1>8, <1>10, BufferedIs, Zenon
    <2>2. KeptOf(c) = KeptOf(b2) /\ c.chunks = b2.chunks /\ c.size = b2.size
      <3> HIDE DEF c
      <3> QED BY <2>1, Zenon DEF PlacesOf, KeptOf
    <2> QED BY <1>8, <2>1, <2>2, Zenon
  <1>12. E \in Seq(BagCells) /\ Len(E) = Len(B2) + 1
    <2>1. E \in Seq(BagCells) /\ Joins(E, B2, D)
      BY <1>7, <1>10, Joined
    <2> HIDE DEF E
    <2> QED BY <1>10, <2>1, Zenon DEF Joins
  <1> HIDE DEF c
  <1> DEFINE size == c.size + Len(c.buffer)  b3 == Sized(c, 0, size)  b4 == Flushed(b3)
             x == Cell("index", 0, MessagePlace(c))
  <1>13. size = Len(E) /\ size \in Nat
    <2> HIDE DEF E
    <2>1. c.size = 0 /\ Len(c.buffer) = Len(E) /\ Len(E) \in Nat
      BY <1>7, <1>11, <1>12
    <2> QED BY <2>1
  <1> HIDE DEF E, size
  <1>14. /\ b3 \in Bags /\ b3.size = Len(E) /\ b3.buffer = E /\ b3.chunks = C /\ CallsOf(b3) = CallsOf(b)
         /\ FileOf(b3) = FileOf(b) /\ KeptOf(b3) = KeptOf(b)
    <2> DEFINE none == 0
    <2>1. none \in Nat
      OBVIOUS
    <2>2. b3 = Sized(c, none, size)
      OBVIOUS
    <2> HIDE DEF none, b3
    <2>3. SizedBag(b3, c, none, size)
      BY <1>11, <1>13, <2>1, <2>2, SizedIs
    <2> QED BY <1>11, <1>13, <2>3, Zenon DEF SizedBag
  <1> HIDE DEF b3
  <1>15. b3.file = f /\ b3.seek = l /\ b3.written = l
    BY <1>1, <1>14, Zenon DEF FileOf
  <1>16. /\ b4 \in Bags /\ b4.buffer = <<>> /\ b4.file = f \o E /\ b4.seek = l + Len(E)
         /\ b4.written = l + Len(E) /\ CallsOf(b4) = CallsOf(b) /\ KeptOf(b4) = KeptOf(b)
         /\ b4.chunks = C /\ b4.size = Len(E)
    <2>1. b3.seek = Len(b3.file) /\ b3.written = Len(b3.file)
      BY <1>15, Zenon
    <2>2. /\ b4 \in Bags /\ b4.buffer = <<>> /\ b4.file = b3.file \o b3.buffer
          /\ b4.seek = Len(b3.file) + Len(b3.buffer) /\ b4.written = Len(b3.file) + Len(b3.buffer)
          /\ CallsOf(b4) = CallsOf(b3) /\ PlacesOf(b4) = PlacesOf(b3)
      BY <1>14, <2>1, FlushedIs, Zenon
    <2>3. KeptOf(b4) = KeptOf(b3) /\ b4.chunks = b3.chunks /\ b4.size = b3.size
      <3> HIDE DEF b4
      <3> QED BY <2>2, Zenon DEF PlacesOf, KeptOf
    <2> QED BY <1>14, <1>15, <2>2, <2>3, Zenon
  <1> HIDE DEF b4
  <1>17. MessagePlace(c) = m - 1 /\ MessagePlace(c) \in Nat
    <2>1. Len(c.chunks) = n
      BY <1>3, <1>11, Zenon DEF ChunkEnds
    <2>2. MessagePlace(c) = MessagePlace(b)
      BY <2>1, Zenon DEF MessagePlace
    <2>3. MessagePlace(b) \in Nat
      BY DEF MessagePlace
    <2> QED BY <1>1, <2>2, <2>3
  <1>18. CellOf(x, "index", 0, m - 1)
    <2>1. "index" \in BagKinds /\ 0 \in Nat
      BY DEF BagKinds
    <2>2. CellOf(x, "index", 0, MessagePlace(c))
      BY <1>17, <2>1, CellIs
    <2> QED BY <1>17, <2>2, Zenon
  <1> HIDE DEF x
  <1> DEFINE X == <<x>>  b5 == Buffered(b4, X)  grown == Grown(b5, Len(b5.buffer))
             b6 == Sized(b5, b5.points, grown)  b7 == Flushed(b6)  d == Indexed(b7, b7.written)
  <1>19. x \in BagCells /\ x.kind = "index" /\ x.pos = m - 1 /\ X \in Seq(BagCells) /\ Len(X) = 1
    <2>1. x \in BagCells /\ x.kind = "index" /\ x.pos = m - 1
      BY <1>18, Zenon DEF CellOf
    <2> QED BY <2>1
  <1> HIDE DEF X
  <1>20. StopChunk(b) = d
    <2>1. b1 = [b EXCEPT !.chunks[n].end = EndOf(b)]
      BY <1>1 DEF b1, WithChunks, C, ChunksEnd, Bags
    <2>2. b3 = [c EXCEPT !.points = 0, !.size = @ + Len(c.buffer)]
      BY DEF b3, Sized, size
    <2>3. b6 = [b5 EXCEPT !.size = Grown(b5, Len(b5.buffer))]
      <3>1. b5 \in Bags
        BY <1>16, <1>19, BufferedIs, Zenon
      <3> HIDE DEF b5
      <3> QED BY <3>1 DEF Sized, Bags
    <2> HIDE DEF b6, b5
    <2>4. b5 = Buffered(Flushed([c EXCEPT !.points = 0, !.size = @ + Len(c.buffer)]), <<Cell("index", 0, MessagePlace(c))>>)
      BY <2>2, Zenon DEF b5, b4, X, x
    <2>5. c = Buffered(Filled([b EXCEPT !.chunks[n].end = EndOf(b)]), <<Cell("dense", 0, 0)>>)
      BY <2>1, Zenon DEF c, b2, D, dense
    <2> HIDE DEF c
    <2>6. d = [Flushed([b5 EXCEPT !.size = Grown(b5, Len(b5.buffer))]) EXCEPT !.index = b7.written]
      BY <2>3, Zenon DEF Indexed
    <2>7. b7 = Flushed([b5 EXCEPT !.size = Grown(b5, Len(b5.buffer))])
      BY <2>3, Zenon
    <2> HIDE DEF d, b7
    <2>8. LET ended == Buffered(Filled([b EXCEPT !.chunks[n].end = EndOf(b)]), <<Cell("dense", 0, 0)>>)
              told == Buffered(Flushed([ended EXCEPT !.points = 0, !.size = @ + Len(ended.buffer)]),
                        <<Cell("index", 0, MessagePlace(ended))>>)
              done == Flushed([told EXCEPT !.size = Grown(told, Len(told.buffer))])
          IN  StopChunk(b) = [done EXCEPT !.index = done.written]
      BY Zenon DEF StopChunk, EndOf
    <2>9. StopChunk(b) = [b7 EXCEPT !.index = b7.written]
      BY <2>4, <2>5, <2>7, <2>8, Zenon
    <2>10. d = [b7 EXCEPT !.index = b7.written]
      BY <2>6, <2>7, Zenon
    <2> QED BY <2>9, <2>10, Zenon
  <1>21. /\ b5 \in Bags /\ b5.buffer = X /\ FileOf(b5) = FileOf(b4) /\ CallsOf(b5) = CallsOf(b)
         /\ KeptOf(b5) = KeptOf(b) /\ b5.chunks = C /\ b5.size = Len(E)
    <2>1. /\ b5 \in Bags /\ b5.buffer = b4.buffer \o X /\ CallsOf(b5) = CallsOf(b4) /\ FileOf(b5) = FileOf(b4)
          /\ PlacesOf(b5) = PlacesOf(b4)
      BY <1>16, <1>19, BufferedIs, Zenon
    <2>2. <<>> \o X = X
      BY <1>19, ConcatEmptySeq
    <2>3. KeptOf(b5) = KeptOf(b4) /\ b5.chunks = b4.chunks /\ b5.size = b4.size
      <3> HIDE DEF b5
      <3> QED BY <2>1, Zenon DEF PlacesOf, KeptOf
    <2> QED BY <1>16, <2>1, <2>2, <2>3, Zenon
  <1>22. /\ b5.seek = l + Len(E) /\ b5.written = l + Len(E) /\ b5.file = f \o E
    <2> HIDE DEF b5
    <2> QED BY <1>16, <1>21, Zenon DEF FileOf
  <1> HIDE DEF b5
  <1>23. Len(E) \in Nat /\ grown = Len(E) + 1 /\ grown \in Nat
    <2>1. Len(E) \in Nat /\ b5.size = Len(E) /\ Len(b5.buffer) = 1
      BY <1>12, <1>19, <1>21, LenProperties
    <2> QED BY <2>1 DEF Grown
  <1> HIDE DEF grown
  <1>24. /\ b6 \in Bags /\ b6.size = Len(E) + 1 /\ b6.buffer = X /\ b6.chunks = C /\ CallsOf(b6) = CallsOf(b)
         /\ FileOf(b6) = FileOf(b5) /\ KeptOf(b6) = KeptOf(b)
    <2>1. b5.points \in Nat
      BY <1>21 DEF Bags
    <2> DEFINE points == b5.points
    <2>2. b6 = Sized(b5, points, grown) /\ points \in Nat
      BY <2>1
    <2> HIDE DEF b6, points
    <2>3. SizedBag(b6, b5, points, grown)
      BY <1>21, <1>23, <2>2, SizedIs
    <2> QED BY <1>21, <1>23, <2>3, Zenon DEF SizedBag
  <1> HIDE DEF b6
  <1>25. b6.file = f \o E /\ b6.seek = l + Len(E) /\ b6.written = l + Len(E)
    BY <1>22, <1>24, Zenon DEF FileOf
  <1> DEFINE q == (f \o E) \o X
  <1>26. /\ q \in Seq(BagCells) /\ ChunkBehind(q, f, l, B2, Len(B2), dense, x)
         /\ q = ((f \o B2) \o D) \o X /\ f \o B2 \in Seq(BagCells)
    <2>1. Placed((f \o (B2 \o <<dense>>)) \o <<x>>, f, B2, dense, x)
      <3> HIDE DEF f
      <3> QED BY <1>2, <1>7, <1>10, <1>19, ChunkPlaced
    <2> QED BY <2>1, Zenon DEF Placed, X, D, E
  <1>27. Len(q) = l + Len(E) + 1 /\ Len(f \o E) = l + Len(E)
    <2>1. f \o E \in Seq(BagCells) /\ Joins(f \o E, f, E)
      BY <1>2, <1>12, Joined
    <2>2. Joins(q, f \o E, X)
      BY <1>19, <2>1, Joined
    <2>3. Len(f \o E) = l + Len(E)
      BY <2>1, Zenon DEF Joins
    <2>4. Len(q) = Len(f \o E) + 1
      BY <1>19, <2>2, Zenon DEF Joins
    <2> QED BY <2>3, <2>4, Zenon
  <1>28. /\ b7 \in Bags /\ b7.buffer = <<>> /\ b7.file = q /\ b7.seek = Len(q) /\ b7.written = Len(q)
         /\ CallsOf(b7) = CallsOf(b) /\ KeptOf(b7) = KeptOf(b) /\ b7.chunks = C /\ b7.size = Len(E) + 1
    <2>1. b6.seek = Len(b6.file) /\ b6.written = Len(b6.file)
      BY <1>25, <1>27, Zenon
    <2>2. /\ b7 \in Bags /\ b7.buffer = <<>> /\ b7.file = b6.file \o b6.buffer
          /\ b7.seek = Len(b6.file) + Len(b6.buffer) /\ b7.written = Len(b6.file) + Len(b6.buffer)
          /\ CallsOf(b7) = CallsOf(b6) /\ PlacesOf(b7) = PlacesOf(b6)
      BY <1>24, <2>1, FlushedIs, Zenon
    <2>3. KeptOf(b7) = KeptOf(b6) /\ b7.chunks = b6.chunks /\ b7.size = b6.size
      <3> HIDE DEF b7
      <3> QED BY <2>2, Zenon DEF PlacesOf, KeptOf
    <2>4. Len(b6.file) + Len(b6.buffer) = Len(q)
      BY <1>19, <1>24, <1>25, <1>27, Zenon
    <2> HIDE DEF b7
    <2> QED BY <1>24, <1>25, <2>2, <2>3, <2>4, Zenon
  <1> HIDE DEF b7
  <1>29. /\ d \in Bags /\ d.index = Len(q) /\ d.buffer = <<>> /\ d.file = q /\ d.seek = Len(q)
         /\ d.written = Len(q) /\ d.chunks = C /\ d.size = Len(E) + 1 /\ CallsOf(d) = CallsOf(b)
         /\ KeptOf(d) = KeptOf(b)
    <2>1. b7.written \in Nat
      BY <1>28 DEF Bags
    <2>2. /\ d \in Bags /\ d.index = b7.written /\ d.size = b7.size /\ d.buffer = b7.buffer
          /\ d.chunks = b7.chunks /\ CallsOf(d) = CallsOf(b7) /\ FileOf(d) = FileOf(b7) /\ KeptOf(d) = KeptOf(b7)
      BY <1>28, <2>1, IndexedBag, Zenon
    <2> HIDE DEF d, q
    <2> QED BY <1>28, <2>2, Zenon DEF FileOf
  <1> HIDE DEF d, q
  <1>30. /\ d.header = 1 /\ d.chunk = 0 /\ d.begin = l /\ d.message = m
    BY <1>1, <1>2, <1>29, Zenon DEF KeptOf
  <1>31. /\ \A k \in 1..l : q[k] = f[k]
         /\ Len(q) >= l /\ Len(q) \in Nat /\ Len(q) >= 3 /\ l >= 3
    <2>1. \A k \in 1..l : q[k] = f[k]
      BY <1>26, Zenon DEF ChunkBehind
    <2>2. l >= 3
      BY <1>1, Zenon DEF HeadIs
    <2> QED BY <1>2, <1>23, <1>27, <2>1, <2>2
  <1>32. HeadIs(q)
    <2>1. 1 \in 1..l /\ 2 \in 1..l /\ 3 \in 1..l
      BY <1>2, <1>31
    <2> QED BY <1>1, <1>31, <2>1, Zenon DEF HeadIs
  <1>33. HasPoints(q, G)
    <2>1. HasPoints(f \o B2, G)
      <3> DEFINE u == f \o b.buffer  v == f \o B2  B == b.buffer
      <3>1. B \in Seq(BagCells)
        BY <1>1, Zenon DEF Laid
      <3>2. u \in Seq(BagCells) /\ Joins(u, f, B) /\ Joins(v, f, B2)
        BY <1>2, <1>7, <3>1, Joined
      <3>3. HasPoints(u, G)
        BY <1>1
      <3>4. \A k \in 1..Len(B) : B2[k].kind = B[k].kind /\ B2[k].pos = B[k].pos
        BY <1>6, Zenon DEF Lengths
      <3> HIDE DEF u, v
      <3>5. /\ Len(u) = l + Len(B) /\ Len(v) = Len(u) /\ l \in Nat /\ Len(B) \in Nat
            /\ \A k \in 1..l : u[k] = f[k] /\ v[k] = f[k]
            /\ \A k \in 1..Len(B) : u[l + k] = B[k] /\ v[l + k] = B2[k]
        BY <1>7, <3>2, Zenon DEF Joins
      <3>6. ASSUME NEW k \in 1..Len(u) PROVE v[k].kind = u[k].kind /\ v[k].pos = u[k].pos
        <4>1. CASE k \in 1..l
          BY <3>5, <4>1, Zenon
        <4>2. CASE k \notin 1..l
          <5> DEFINE j == k - l
          <5>1. j \in 1..Len(B) /\ l + j = k
            <6> HIDE DEF B, l
            <6>1. Len(u) = l + Len(B) /\ l \in Nat /\ Len(B) \in Nat
              BY <3>5, Zenon
            <6> QED BY <4>2, <6>1
          <5> HIDE DEF j
          <5>2. u[k] = B[j] /\ v[k] = B2[j]
            BY <3>5, <5>1, Zenon
          <5> QED BY <3>4, <5>1, <5>2, Zenon
        <4> QED BY <4>1, <4>2
      <3>7. Len(u) \in Nat
        BY <3>2, LenProperties
      <3>8. HasPoints(v, G)
        BY <3>3, <3>5, <3>6, <3>7, SamePoints, Zenon
      <3> QED BY <3>8, Zenon DEF v
    <2>2. \A k \in 1..Len(D) : D[k].kind # "point"
      BY <1>10 DEF D
    <2>3. \A k \in 1..Len(X) : X[k].kind # "point"
      BY <1>19 DEF X
    <2> DEFINE u == f \o B2  v == u \o D
    <2>4. u \in Seq(BagCells) /\ q = v \o X /\ HasPoints(u, G)
      BY <1>26, <2>1, Zenon
    <2> HIDE DEF u
    <2>5. v \in Seq(BagCells) /\ HasPoints(v, G)
      BY <1>10, <2>2, <2>4, Joined, OtherCells
    <2> HIDE DEF v
    <2>6. HasPoints(v \o X, G)
      BY <1>19, <2>3, <2>5, OtherCells
    <2> QED BY <2>4, <2>6, Zenon
  <1>34. ASSUME NEW i \in 1..n PROVE C[i].pos >= 3 /\ ChunkIsWhole(q, C[i].pos)
    <2>1. C[i].pos = b.chunks[i].pos
      BY <1>3, Zenon DEF ChunkEnds
    <2>2. CASE i = n
      <3>1. C[i].pos = l
        BY <1>1, <1>2, <2>1, <2>2, Zenon
      <3>2. ChunkIsWhole(q, l)
        <4>1. Len(B2) = m + 1 + b.points
          BY <1>1, <1>7, Zenon DEF Laid
        <4>2. Laid(b.buffer, m, b.points, idx)
          BY <1>1, Zenon
        <4> HIDE DEF m, l, f
        <4> QED BY <1>2, <1>6, <1>10, <1>19, <1>26, <4>1, <4>2, ChunkRead
      <3> QED BY <1>31, <3>1, <3>2, Zenon
    <2>3. CASE i # n
      <3>1. i \in 1..(n - 1)
        BY <1>2, <2>3
      <3>2. b.chunks[i].pos >= 3 /\ ChunkIsWhole(f, b.chunks[i].pos)
        BY <1>1, <3>1, Zenon DEF ChunksWhole
      <3>3. b.chunks[i].pos \in Nat
        <4>1. b.chunks \in Seq(BagChunks)
          BY <1>1 DEF Bags
        <4>2. b.chunks[i] \in BagChunks
          BY <4>1, ElementOfSeq
        <4> QED BY <4>2 DEF BagChunks
      <3>4. Beyond(q, f)
        <4>1. \A k \in 4..l : k \in 1..l
          BY <1>2
        <4> QED BY <1>31, <4>1, Zenon DEF Beyond
      <3> DEFINE pos == b.chunks[i].pos
      <3>5. ChunkIsWhole(f, pos) /\ pos \in Nat /\ pos >= 3
        BY <3>2, <3>3, Zenon
      <3> HIDE DEF pos, f
      <3>6. ChunkIsWhole(q, pos)
        BY <1>2, <1>31, <3>4, <3>5, ChunkStays
      <3> QED BY <2>1, <3>2, <3>6, Zenon DEF pos
    <2> QED BY <2>2, <2>3
  <1>35. q \o <<>> = q
    BY <1>26, ConcatEmptySeq
  <1>36. d.begin + d.size = Len(d.file)
    <2>1. d.begin = l /\ d.size = Len(E) + 1 /\ Len(d.file) = l + Len(E) + 1 /\ l \in Nat /\ Len(E) \in Nat
      BY <1>2, <1>23, <1>27, <1>29, <1>30, Zenon
    <2> HIDE DEF l
    <2> QED BY <2>1
  <1>37. BagWritten(d, G)
    BY <1>1, <1>29, <1>30, <1>32, <1>33, <1>35, <1>36, Zenon DEF BagWritten
  <1>38. Len(d.chunks) = n
    BY <1>3, <1>29, Zenon DEF ChunkEnds
  <1>39. ChunksWhole(d, Len(d.chunks))
    BY <1>29, <1>34, <1>38, Zenon DEF ChunksWhole
  <1>40. BetweenChunks(d, G)
    BY <1>29, <1>37, <1>39, Zenon DEF BetweenChunks
  <1> QED BY <1>3, <1>20, <1>29, <1>30, <1>40, Zenon

(* A recorder that has written nothing.                                    *)
Fresh(b) ==
  /\ b \in Bags /\ b.buffer = <<>> /\ b.file = <<>> /\ b.seek = 0 /\ b.written = 0 /\ b.begin = 0
  /\ b.size = 0 /\ b.chunk = 0 /\ b.message = 0 /\ b.chunks = <<>>

Headed(b, header) == [b EXCEPT !.header = header]
BegunAt(b, begin) == [b EXCEPT !.begin = begin]

HeadedBag(c, b, header, begin) ==
  /\ c \in Bags /\ c.header = header /\ c.begin = begin /\ c.buffer = b.buffer /\ c.chunks = b.chunks
  /\ c.size = b.size /\ c.chunk = b.chunk /\ c.message = b.message /\ CallsOf(c) = CallsOf(b)
  /\ FileOf(c) = FileOf(b)

LEMMA HeadedIs ==
  ASSUME NEW b \in Bags, NEW header \in Nat, NEW begin \in Nat
  PROVE  /\ HeadedBag(Headed(b, header), b, header, b.begin)
         /\ HeadedBag(BegunAt(b, begin), b, b.header, begin)
  <1>1. LET c == Headed(b, header)
        IN  /\ c \in Bags /\ c.header = header /\ c.begin = b.begin /\ c.buffer = b.buffer
            /\ c.chunks = b.chunks /\ c.size = b.size /\ c.chunk = b.chunk /\ c.message = b.message
    BY DEF Headed, Bags
  <1>2. LET c == Headed(b, header) IN CallsOf(c) = CallsOf(b) /\ FileOf(c) = FileOf(b)
    BY DEF Headed, Bags, CallsOf, FileOf
  <1>3. LET c == BegunAt(b, begin)
        IN  /\ c \in Bags /\ c.header = b.header /\ c.begin = begin /\ c.buffer = b.buffer
            /\ c.chunks = b.chunks /\ c.size = b.size /\ c.chunk = b.chunk /\ c.message = b.message
    BY DEF BegunAt, Bags
  <1>4. LET c == BegunAt(b, begin) IN CallsOf(c) = CallsOf(b) /\ FileOf(c) = FileOf(b)
    BY DEF BegunAt, Bags, CallsOf, FileOf
  <1> QED BY <1>1, <1>2, <1>3, <1>4, Zenon DEF HeadedBag

LEMMA NoPoints ==
  ASSUME NEW f, Len(f) \in Nat, \A k \in 1..Len(f) : f[k].kind # "point"
  PROVE  HasPoints(f, <<>>)
  <1>1. PointsIn(f, Len(f)) = {}
    BY DEF PointsIn
  <1>2. Cardinality({}) = Len(<<>>)
    BY FS_EmptySet
  <1> QED BY <1>1, <1>2, Zenon DEF HasPoints

FirstCells(f) ==
  /\ f \in Seq(BagCells) /\ Len(f) = 3 /\ f[1].kind = "version" /\ f[2].kind = "bag" /\ f[3].kind = "padding"

LEMMA FirstCellsAre ==
  /\ <<Version>> \in Seq(BagCells) /\ <<Cell("bag", 0, 0), Padding>> \in Seq(BagCells)
  /\ Len(<<Version>>) = 1 /\ Len(<<Version>> \o <<Cell("bag", 0, 0), Padding>>) = 3
  /\ FirstCells(<<Version>> \o <<Cell("bag", 0, 0), Padding>>)
  <1> DEFINE cell == Cell("bag", 0, 0)
  <1>1. "version" \in BagKinds /\ "bag" \in BagKinds /\ "padding" \in BagKinds /\ 0 \in Nat
    BY DEF BagKinds
  <1>2. /\ CellOf(Version, "version", 0, 0) /\ CellOf(cell, "bag", 0, 0)
        /\ CellOf(Padding, "padding", 0, 0)
    BY <1>1, CellIs DEF Version, Padding
  <1>3. /\ Version \in BagCells /\ Version.kind = "version" /\ cell \in BagCells /\ cell.kind = "bag"
        /\ Padding \in BagCells /\ Padding.kind = "padding"
    BY <1>2, Zenon DEF CellOf
  <1> HIDE DEF cell
  <1>4. /\ <<Version>> \in Seq(BagCells) /\ <<cell, Padding>> \in Seq(BagCells) /\ Len(<<Version>>) = 1
        /\ LET f == <<Version>> \o <<cell, Padding>>
           IN  f \in Seq(BagCells) /\ Len(f) = 3 /\ f[1] = Version /\ f[2] = cell /\ f[3] = Padding
    BY <1>3
  <1> QED BY <1>3, <1>4, Zenon DEF cell, FirstCells

(* start_writing_: the header.                                             *)
LEMMA WritingStarts ==
  ASSUME NEW b, Fresh(b)
  PROVE  LET d == StartWriting(b)
         IN  BetweenChunks(d, <<>>) /\ CallsOf(d) = CallsOf(b) /\ d.chunks = <<>> /\ d.message = 0
  <1> DEFINE v == <<Version>>  p == <<Cell("bag", 0, 0), Padding>>  f == v \o p
             b1 == Buffered(b, v)  header == Len(b1.buffer)  b2 == Headed(b1, header)
             b3 == Buffered(b2, p)  begin == b3.begin + Len(b3.buffer)  b4 == BegunAt(b3, begin)
             b5 == Flushed(b4)  none == <<>>  d == WithBuffer(b5, none)
  <1>1. /\ b \in Bags /\ b.buffer = <<>> /\ b.file = <<>> /\ b.seek = 0 /\ b.written = 0 /\ b.begin = 0
        /\ b.size = 0 /\ b.chunk = 0 /\ b.message = 0 /\ b.chunks = <<>>
    BY Zenon DEF Fresh
  <1>2. /\ v \in Seq(BagCells) /\ p \in Seq(BagCells) /\ Len(v) = 1 /\ Len(f) = 3 /\ FirstCells(f)
    BY FirstCellsAre, Zenon
  <1>3. f \in Seq(BagCells) /\ none \in Seq(BagCells) /\ none \o v = v /\ none \o f = f
    BY <1>2, EmptySeq, ConcatEmptySeq DEF FirstCells
  <1>4. StartWriting(b) = d
    <2>1. ~(0 > 0)
      OBVIOUS
    <2> DEFINE h == [b1 EXCEPT !.header = Len(b1.buffer)]
    <2>2. StartWriting(b) = [Header(h, 0, 0) EXCEPT !.buffer = <<>>]
      BY Zenon DEF StartWriting
    <2>3. b2 = h
      BY Zenon DEF Headed
    <2> HIDE DEF h, b1
    <2>4. Header(b2, 0, 0) = Flushed([b3 EXCEPT !.begin = @ + Len(b3.buffer)])
      <3> HIDE DEF b2
      <3> QED BY <2>1, Zenon DEF Header
    <2> HIDE DEF b3
    <2>5. [b3 EXCEPT !.begin = @ + Len(b3.buffer)] = b4
      BY Zenon DEF BegunAt
    <2> HIDE DEF b4
    <2> QED BY <2>2, <2>3, <2>4, <2>5, Zenon DEF WithBuffer
  <1> HIDE DEF d, b5, b4, begin, b3, b2, header, b1, v, p, f
  <1>5. /\ b1 \in Bags /\ b1.buffer = v /\ CallsOf(b1) = CallsOf(b) /\ PlacesOf(b1) = PlacesOf(b)
        /\ FileOf(b1) = FileOf(b)
    BY <1>1, <1>2, <1>3, BufferedIs, Zenon DEF b1
  <1>6. /\ b1.size = 0 /\ b1.chunk = 0 /\ b1.message = 0 /\ b1.chunks = <<>> /\ b1.begin = 0
    BY <1>1, <1>5, Zenon DEF PlacesOf
  <1>7. header = 1 /\ header \in Nat
    BY <1>2, <1>5 DEF header
  <1>8. HeadedBag(b2, b1, header, b1.begin)
    <2>1. 0 \in Nat
      OBVIOUS
    <2> QED BY <1>5, <1>7, <2>1, HeadedIs, Zenon DEF b2
  <1>9. /\ b2 \in Bags /\ b2.header = 1 /\ b2.buffer = v /\ CallsOf(b2) = CallsOf(b)
        /\ FileOf(b2) = FileOf(b) /\ b2.begin = 0 /\ b2.chunks = <<>> /\ b2.size = 0 /\ b2.chunk = 0
        /\ b2.message = 0
    BY <1>5, <1>6, <1>7, <1>8, Zenon DEF HeadedBag
  <1>10. /\ b3 \in Bags /\ b3.buffer = f /\ CallsOf(b3) = CallsOf(b) /\ PlacesOf(b3) = PlacesOf(b2)
         /\ FileOf(b3) = FileOf(b)
    BY <1>2, <1>9, BufferedIs, Zenon DEF b3, f
  <1>11. /\ b3.header = 1 /\ b3.begin = 0 /\ b3.chunks = <<>> /\ b3.size = 0 /\ b3.chunk = 0
         /\ b3.message = 0
    BY <1>9, <1>10, Zenon DEF PlacesOf
  <1>12. begin = 3 /\ begin \in Nat
    BY <1>2, <1>10, <1>11 DEF begin
  <1>13. HeadedBag(b4, b3, b3.header, begin)
    <2>1. 0 \in Nat
      OBVIOUS
    <2> QED BY <1>10, <1>12, <2>1, HeadedIs, Zenon DEF b4
  <1>14. /\ b4 \in Bags /\ b4.header = 1 /\ b4.begin = 3 /\ b4.buffer = f /\ CallsOf(b4) = CallsOf(b)
         /\ FileOf(b4) = FileOf(b) /\ b4.chunks = <<>> /\ b4.size = 0 /\ b4.chunk = 0 /\ b4.message = 0
    BY <1>10, <1>11, <1>12, <1>13, Zenon DEF HeadedBag
  <1>15. b4.file = <<>> /\ b4.seek = 0 /\ b4.written = 0 /\ Len(b4.file) = 0
    <2>1. b4.file = <<>> /\ b4.seek = 0 /\ b4.written = 0
      BY <1>1, <1>14, Zenon DEF FileOf
    <2> QED BY <2>1
  <1>16. /\ b5 \in Bags /\ b5.file = f /\ b5.seek = 3 /\ b5.written = 3 /\ CallsOf(b5) = CallsOf(b)
         /\ PlacesOf(b5) = PlacesOf(b4)
    <2>1. /\ b5 \in Bags /\ b5.file = <<>> \o f /\ b5.seek = Len(b4.file) + Len(b4.buffer)
          /\ b5.written = Len(b4.file) + Len(b4.buffer) /\ CallsOf(b5) = CallsOf(b4) /\ PlacesOf(b5) = PlacesOf(b4)
      BY <1>14, <1>15, FlushedIs, Zenon DEF b5
    <2>2. Len(b4.file) + Len(b4.buffer) = 3
      BY <1>2, <1>14, <1>15
    <2> QED BY <1>3, <1>14, <2>1, <2>2, Zenon
  <1>17. /\ d \in Bags /\ d.buffer = <<>> /\ FileOf(d) = FileOf(b5) /\ PlacesOf(d) = PlacesOf(b4)
         /\ CallsOf(d) = CallsOf(b)
    BY <1>3, <1>16, WithBufferIs, Zenon DEF d
  <1>18. d.file = f /\ d.seek = 3 /\ d.written = 3
    BY <1>16, <1>17, Zenon DEF FileOf
  <1>19. d.header = 1 /\ d.begin = 3 /\ d.size = 0 /\ d.chunk = 0 /\ d.message = 0 /\ d.chunks = <<>>
    BY <1>14, <1>17, Zenon DEF PlacesOf
  <1>20. HeadIs(f) /\ HasPoints(f, <<>>)
    <2>1. Len(f) = 3 /\ f[1].kind = "version" /\ f[2].kind = "bag" /\ f[3].kind = "padding"
      BY <1>2, Zenon DEF FirstCells
    <2>2. \A k \in 1..Len(f) : f[k].kind # "point"
      BY <2>1
    <2>3. Len(f) \in Nat /\ Len(f) >= 3
      BY <2>1
    <2> QED BY <2>1, <2>2, <2>3, NoPoints, Zenon DEF HeadIs
  <1>21. d.begin + d.size = Len(d.file) /\ d.seek = Len(d.file) /\ d.written = Len(d.file)
    BY <1>2, <1>18, <1>19
  <1>22. d.file \o d.buffer = f /\ <<>> \in Seq(Nat)
    BY <1>3, <1>17, <1>18, ConcatEmptySeq, EmptySeq
  <1>23. BagWritten(d, <<>>)
    BY <1>17, <1>18, <1>19, <1>20, <1>21, <1>22, Zenon DEF BagWritten
  <1>24. 1..Len(d.chunks) = {} /\ ~(Len(d.chunks) > 0)
    BY <1>19
  <1>25. BetweenChunks(d, <<>>)
    BY <1>17, <1>23, <1>24, Zenon DEF BetweenChunks, ChunksWhole
  <1> QED BY <1>4, <1>17, <1>19, <1>25, Zenon

NewChunk(b) == [pos |-> b.begin + b.size, start |-> b.last, end |-> -1]

Opened(b, begin, chunks, cells) ==
  [b EXCEPT !.begin = begin, !.size = 0, !.points = 0, !.chunk = 0, !.chunks = chunks, !.buffer = cells]
Messaged(b, message) == [b EXCEPT !.message = message]

OpenedBag(c, b, begin, chunks, cells) ==
  /\ c \in Bags /\ c.header = b.header /\ c.begin = begin /\ c.size = 0 /\ c.points = 0 /\ c.chunk = 0
  /\ c.chunks = chunks /\ c.buffer = cells /\ CallsOf(c) = CallsOf(b) /\ FileOf(c) = FileOf(b)

LEMMA OpenedIs ==
  ASSUME NEW b \in Bags, NEW begin \in Nat, NEW chunks \in Seq(BagChunks), NEW cells \in Seq(BagCells)
  PROVE  OpenedBag(Opened(b, begin, chunks, cells), b, begin, chunks, cells)
  <1> DEFINE c == Opened(b, begin, chunks, cells)
  <1>1. /\ c \in Bags /\ c.header = b.header /\ c.begin = begin /\ c.size = 0 /\ c.points = 0 /\ c.chunk = 0
        /\ c.chunks = chunks /\ c.buffer = cells
    BY DEF Opened, Bags
  <1>2. CallsOf(c) = CallsOf(b) /\ FileOf(c) = FileOf(b)
    BY DEF Opened, Bags, CallsOf, FileOf
  <1> QED BY <1>1, <1>2, Zenon DEF OpenedBag

MessagedBag(c, b, message) ==
  /\ c \in Bags /\ c.message = message /\ c.header = b.header /\ c.begin = b.begin /\ c.size = b.size
  /\ c.points = b.points /\ c.chunk = b.chunk /\ c.chunks = b.chunks /\ c.buffer = b.buffer
  /\ CallsOf(c) = CallsOf(b) /\ FileOf(c) = FileOf(b)

LEMMA MessagedIs ==
  ASSUME NEW b \in Bags, NEW message \in Nat
  PROVE  MessagedBag(Messaged(b, message), b, message)
  <1> DEFINE c == Messaged(b, message)
  <1>1. /\ c \in Bags /\ c.message = message /\ c.header = b.header /\ c.begin = b.begin /\ c.size = b.size
        /\ c.points = b.points /\ c.chunk = b.chunk /\ c.chunks = b.chunks /\ c.buffer = b.buffer
    BY DEF Messaged, Bags
  <1>2. CallsOf(c) = CallsOf(b) /\ FileOf(c) = FileOf(b)
    BY DEF Messaged, Bags, CallsOf, FileOf
  <1> QED BY <1>1, <1>2, Zenon DEF MessagedBag

(* The first cells of a chunk.                                             *)
Lead(only) == IF only THEN <<Cell("chunk", 0, 0)>> \o <<Connection>> ELSE <<Cell("chunk", 0, 0)>>

LEMMA LeadIs ==
  ASSUME NEW only \in BOOLEAN, NEW idx \in Nat
  PROVE  LET m == IF only THEN 2 ELSE 1
             B == Lead(only) \o <<Cell("message", 0, idx)>>
         IN  /\ <<Cell("chunk", 0, 0)>> \in Seq(BagCells) /\ <<Connection>> \in Seq(BagCells)
             /\ <<Cell("message", 0, idx)>> \in Seq(BagCells)
             /\ Lead(only) \in Seq(BagCells) /\ Len(Lead(only)) = m /\ Laid(B, m, 0, idx)
             /\ \A k \in 1..Len(B) : B[k].kind # "point"
  <1> DEFINE chunk == Cell("chunk", 0, 0)  message == Cell("message", 0, idx)
             one == <<chunk>> \o <<message>>  two == (<<chunk>> \o <<Connection>>) \o <<message>>
  <1>1. "chunk" \in BagKinds /\ "connection" \in BagKinds /\ "message" \in BagKinds /\ 0 \in Nat
    BY DEF BagKinds
  <1>2. /\ CellOf(chunk, "chunk", 0, 0) /\ CellOf(Connection, "connection", 0, 0)
        /\ CellOf(message, "message", 0, idx)
    BY <1>1, CellIs DEF Connection
  <1>3. /\ chunk \in BagCells /\ chunk.kind = "chunk" /\ Connection \in BagCells
        /\ Connection.kind = "connection" /\ message \in BagCells /\ message.kind = "message" /\ message.pos = idx
    BY <1>2, Zenon DEF CellOf
  <1> HIDE DEF chunk, message
  <1>4. /\ <<chunk>> \in Seq(BagCells) /\ <<Connection>> \in Seq(BagCells) /\ <<message>> \in Seq(BagCells)
        /\ <<chunk>> \o <<Connection>> \in Seq(BagCells) /\ Len(<<chunk>>) = 1
        /\ Len(<<chunk>> \o <<Connection>>) = 2
        /\ one \in Seq(BagCells) /\ Len(one) = 2 /\ one[1] = chunk /\ one[2] = message
        /\ two \in Seq(BagCells) /\ Len(two) = 3 /\ two[1] = chunk /\ two[2] = Connection /\ two[3] = message
    BY <1>3
  <1> HIDE DEF one, two
  <1>5. Laid(one, 1, 0, idx) /\ \A k \in 1..Len(one) : one[k].kind # "point"
    BY <1>3, <1>4 DEF Laid
  <1>6. Laid(two, 2, 0, idx) /\ \A k \in 1..Len(two) : two[k].kind # "point"
    <2>1. Laid(two, 2, 0, idx)
      BY <1>3, <1>4 DEF Laid
    <2>2. ASSUME NEW k \in 1..Len(two) PROVE two[k].kind # "point"
      <3>1. k = 1 \/ k = 2 \/ k = 3
        BY <1>4
      <3> QED BY <1>3, <1>4, <3>1
    <2> QED BY <2>1, <2>2
  <1>7. CASE only
    BY <1>4, <1>6, <1>7 DEF Lead, two, chunk, message
  <1>8. CASE ~only
    BY <1>4, <1>5, <1>8 DEF Lead, one, chunk, message
  <1> QED BY <1>7, <1>8

(* start_writing_chunk_: the bag ends here, or a chunk begins.             *)
ChunkBegun(d, b, G, idx) ==
  /\ ~d.full /\ Growing(d, G, idx) /\ d.chunks = Append(b.chunks, NewChunk(b)) /\ CallsOf(d) = CallsOf(b)
  /\ limit > 0 => NewChunk(b).pos <= limit
BagEnded(d, b, G) ==
  d.full /\ d \in Bags /\ EndedBag(d, G) /\ d.chunks = b.chunks /\ d.last = b.last

LEMMA ChunkStarts ==
  ASSUME NEW b, NEW G, BetweenChunks(b, G), ~b.full, NEW idx \in Nat, limit \in Nat
  PROVE  LET d == StartChunk(b, idx) IN BagEnded(d, b, G) \/ ChunkBegun(d, b, G, idx)
  <1>1. CASE limit > 0 /\ TotalSize(b) > limit
    <2>1. StartChunk(b, idx) = StopWriting(b)
      BY <1>1, Zenon DEF StartChunk
    <2> QED BY <2>1, WritingStops, Zenon DEF BagEnded
  <1>2. CASE ~(limit > 0 /\ TotalSize(b) > limit)
    <2> DEFINE place == b.begin + b.size  x == NewChunk(b)  C == Append(b.chunks, x)
               chunk == <<Cell("chunk", 0, 0)>>  connection == <<Connection>>
               message == <<Cell("message", 0, idx)>>
               c == Opened(b, place, C, chunk)  only == Len(c.chunks) = 1
               d == IF only THEN Buffered(c, connection) ELSE c
               m == Len(d.buffer)  e == Messaged(d, m)  h == Buffered(e, message)
    <2>1. StartChunk(b, idx) = h
      <3>1. c = [b EXCEPT !.begin = place, !.size = 0, !.points = 0, !.chunk = 0,
                          !.chunks = Append(@, [pos |-> place, start |-> b.last, end |-> -1]),
                          !.buffer = chunk]
        BY Zenon DEF Opened, NewChunk
      <3> HIDE DEF c
      <3>2. e = [d EXCEPT !.message = Len(d.buffer)]
        BY Zenon DEF Messaged
      <3> HIDE DEF d, e
      <3> QED BY <1>2, <3>1, <3>2, Zenon DEF StartChunk, d
    <2>2. /\ b \in Bags /\ b.seek = Len(b.file) /\ b.written = Len(b.file) /\ place = Len(b.file)
          /\ b.header = 1 /\ b.chunk = 0 /\ HeadIs(b.file) /\ G \in Seq(Nat)
          /\ HasPoints(b.file \o b.buffer, G) /\ b.buffer = <<>> /\ ChunksWhole(b, Len(b.chunks))
      BY Zenon DEF BetweenChunks, BagWritten
    <2>3. /\ b.chunks \in Seq(BagChunks) /\ b.file \in Seq(BagCells) /\ Len(b.file) \in Nat /\ b.message \in Nat
          /\ b.written \in Nat /\ b.last \in Int
      <3>1. /\ b.chunks \in Seq(BagChunks) /\ b.file \in Seq(BagCells) /\ b.message \in Nat
            /\ b.written \in Nat /\ b.last \in Int
        BY <2>2 DEF Bags
      <3> QED BY <3>1, LenProperties
    <2>4. place \in Nat /\ x \in BagChunks /\ x.pos = place
      <3>1. place \in Nat
        BY <2>2, <2>3
      <3> QED BY <2>3, <3>1 DEF NewChunk, BagChunks
    <2>5. limit > 0 => place <= limit
      <3>1. Len(b.chunks) \in Nat
        BY <2>3, LenProperties
      <3>2. b.written = place /\ b.chunk = 0
        BY <2>2, Zenon
      <3> HIDE DEF place
      <3> QED BY <1>2, <2>3, <2>4, <3>1, <3>2 DEF TotalSize
    <2> HIDE DEF x, place, h, e, m, d, only, c
    <2>6. /\ C \in Seq(BagChunks) /\ Len(C) = Len(b.chunks) + 1 /\ Len(b.chunks) \in Nat
          /\ C[Len(C)] = x /\ \A i \in 1..Len(b.chunks) : C[i] = b.chunks[i]
      <3>1. /\ C \in Seq(BagChunks) /\ Len(C) = Len(b.chunks) + 1 /\ Len(b.chunks) \in Nat
            /\ C[Len(b.chunks) + 1] = x /\ \A i \in 1..Len(b.chunks) : C[i] = b.chunks[i]
        BY <2>3, <2>4, Appended
      <3> QED BY <3>1, Zenon
    <2> HIDE DEF C
    <2>7. only \in BOOLEAN
      BY DEF only
    <2> DEFINE B == Lead(only) \o message  mm == IF only THEN 2 ELSE 1
    <2>8. /\ chunk \in Seq(BagCells) /\ connection \in Seq(BagCells) /\ message \in Seq(BagCells)
          /\ Lead(only) \in Seq(BagCells) /\ Len(Lead(only)) = mm /\ Laid(B, mm, 0, idx)
          /\ \A k \in 1..Len(B) : B[k].kind # "point"
      BY <2>7, LeadIs, Zenon
    <2> HIDE DEF B, mm
    <2>9. (only => Lead(only) = chunk \o connection) /\ (~only => Lead(only) = chunk)
      BY Zenon DEF Lead
    <2> DEFINE lead == Lead(only)
    <2> HIDE DEF chunk, connection, message, lead
    <2>10. OpenedBag(c, b, place, C, chunk)
      BY <2>2, <2>4, <2>6, <2>8, OpenedIs, Zenon DEF c
    <2>11. OpenedBag(d, b, place, C, lead)
      <3>1. CASE only
        <4>1. c \in Bags /\ c.buffer = chunk
          BY <2>10, Zenon DEF OpenedBag
        <4>2. d = Buffered(c, connection)
          BY <3>1, Zenon DEF d
        <4>3. /\ d \in Bags /\ d.buffer = chunk \o connection /\ CallsOf(d) = CallsOf(c)
              /\ PlacesOf(d) = PlacesOf(c) /\ FileOf(d) = FileOf(c)
          BY <2>8, <4>1, <4>2, BufferedIs, Zenon
        <4> QED BY <2>9, <2>10, <3>1, <4>3, Zenon DEF OpenedBag, PlacesOf, lead
      <3>2. CASE ~only
        <4>1. d = c
          BY <3>2, Zenon DEF d
        <4> QED BY <2>9, <2>10, <3>2, <4>1, Zenon DEF OpenedBag, lead
      <3> QED BY <3>1, <3>2
    <2>12. d \in Bags /\ d.buffer = lead /\ m = mm /\ m \in Nat
      <3>1. d \in Bags /\ d.buffer = lead
        BY <2>11, Zenon DEF OpenedBag
      <3>2. mm \in Nat
        BY DEF mm
      <3> QED BY <2>8, <3>1, <3>2, Zenon DEF m, lead
    <2>13. MessagedBag(e, d, m)
      BY <2>12, MessagedIs, Zenon DEF e
    <2>14. e \in Bags /\ e.buffer = lead
      BY <2>12, <2>13, Zenon DEF MessagedBag
    <2>15. /\ h \in Bags /\ h.buffer = B /\ CallsOf(h) = CallsOf(e) /\ PlacesOf(h) = PlacesOf(e)
           /\ FileOf(h) = FileOf(e)
      BY <2>8, <2>14, BufferedIs, Zenon DEF h, B, lead
    <2>16. /\ h.message = mm /\ h.header = 1 /\ h.begin = place /\ h.size = 0 /\ h.points = 0
           /\ h.chunk = 0 /\ h.chunks = C /\ CallsOf(h) = CallsOf(b) /\ FileOf(h) = FileOf(b)
      <3>1. /\ e.message = mm /\ e.header = 1 /\ e.begin = place /\ e.size = 0 /\ e.points = 0
            /\ e.chunk = 0 /\ e.chunks = C /\ CallsOf(e) = CallsOf(b) /\ FileOf(e) = FileOf(b)
        BY <2>2, <2>11, <2>12, <2>13, Zenon DEF MessagedBag, OpenedBag
      <3> QED BY <2>15, <3>1, Zenon DEF PlacesOf
    <2>17. h.file = b.file /\ h.seek = Len(b.file) /\ h.written = Len(b.file)
      BY <2>2, <2>16, Zenon DEF FileOf
    <2>18. HasPoints(b.file \o B, G)
      <3>1. HasPoints(b.file, G)
        <4>1. b.file \o <<>> = b.file
          BY <2>3, ConcatEmptySeq
        <4> QED BY <2>2, <4>1, Zenon
      <3>2. B \in Seq(BagCells)
        BY <2>8, Zenon DEF Laid
      <3> QED BY <2>3, <2>8, <3>1, <3>2, OtherCells
    <2>19. h.begin + h.size = Len(h.file)
      <3>1. h.begin = place /\ h.size = 0 /\ Len(h.file) = place
        BY <2>2, <2>16, <2>17, Zenon
      <3> QED BY <2>4, <3>1
    <2>20. BagWritten(h, G)
      BY <2>2, <2>15, <2>16, <2>17, <2>18, <2>19, Zenon DEF BagWritten
    <2>21. Len(h.chunks) >= 1 /\ h.chunks[Len(h.chunks)].pos = h.begin
      <3>1. Len(C) >= 1
        BY <2>6
      <3> QED BY <2>4, <2>6, <2>16, <3>1, Zenon
    <2>22. ChunksWhole(h, Len(h.chunks) - 1)
      <3>1. Len(h.chunks) - 1 = Len(b.chunks)
        BY <2>6, <2>16
      <3>2. ASSUME NEW i \in 1..Len(b.chunks)
            PROVE  h.chunks[i].pos >= 3 /\ ChunkIsWhole(h.file, h.chunks[i].pos)
        <4>1. h.chunks[i] = b.chunks[i]
          BY <2>6, <2>16, Zenon
        <4> QED BY <2>2, <2>17, <4>1, Zenon DEF ChunksWhole
      <3> QED BY <3>1, <3>2, Zenon DEF ChunksWhole
    <2>23. h.message = 1 + MessagePlace(h)
      <3>1. only <=> Len(h.chunks) = 1
        <4>1. c.chunks = C
          BY <2>10, Zenon DEF OpenedBag
        <4> QED BY <2>16, <4>1, Zenon DEF only
      <3> QED BY <2>16, <3>1 DEF MessagePlace, mm
    <2>24. Growing(h, G, idx)
      BY <2>8, <2>15, <2>16, <2>20, <2>21, <2>22, <2>23, Zenon DEF Growing
    <2>25. ~h.full
      BY <2>16, Zenon DEF CallsOf
    <2>26. ChunkBegun(h, b, G, idx)
      BY <2>4, <2>5, <2>16, <2>24, <2>25, Zenon DEF ChunkBegun, C, x
    <2> QED BY <2>1, <2>26, Zenon
  <1> QED BY <1>1, <1>2

LEMMA GrowingStays ==
  ASSUME NEW b, NEW G, NEW idx, Growing(b, G, idx), NEW c \in Bags, PlacesOf(c) = PlacesOf(b),
         FileOf(c) = FileOf(b), c.buffer = b.buffer
  PROVE  Growing(c, G, idx)
  <1>1. /\ c.header = b.header /\ c.begin = b.begin /\ c.size = b.size /\ c.chunk = b.chunk
        /\ c.message = b.message /\ c.points = b.points /\ c.index = b.index /\ c.chunks = b.chunks
        /\ c.file = b.file /\ c.seek = b.seek /\ c.written = b.written
    BY Zenon DEF PlacesOf, FileOf
  <1>2. MessagePlace(c) = MessagePlace(b)
    BY <1>1, Zenon DEF MessagePlace
  <1> QED BY <1>1, <1>2, Zenon DEF Growing, BagWritten, ChunksWhole

PointCells(n, idx) == [i \in 1..n |-> Cell("point", 0, idx)]
MorePointed(b, points) == [b EXCEPT !.points = points]

MorePointedBag(c, b, points) ==
  /\ c \in Bags /\ c.points = points /\ c.buffer = b.buffer /\ c.size = b.size /\ c.chunks = b.chunks
  /\ CallsOf(c) = CallsOf(b) /\ FileOf(c) = FileOf(b) /\ KeptOf(c) = KeptOf(b)

LEMMA MorePointedIs ==
  ASSUME NEW b \in Bags, NEW points \in Nat
  PROVE  MorePointedBag(MorePointed(b, points), b, points)
  <1> DEFINE c == MorePointed(b, points)
  <1>1. c \in Bags /\ c.points = points /\ c.buffer = b.buffer /\ c.size = b.size /\ c.chunks = b.chunks
    BY DEF MorePointed, Bags
  <1>2. CallsOf(c) = CallsOf(b) /\ FileOf(c) = FileOf(b) /\ KeptOf(c) = KeptOf(b)
    BY DEF MorePointed, Bags, CallsOf, FileOf, KeptOf
  <1> QED BY <1>1, <1>2, Zenon DEF MorePointedBag

LEMMA PointCellsAre ==
  ASSUME NEW n \in Nat, NEW idx \in Nat
  PROVE  LET s == PointCells(n, idx)
         IN  /\ s \in Seq(BagCells) /\ Len(s) = n
             /\ \A k \in 1..n : s[k].kind = "point" /\ s[k].pos = idx
  <1> DEFINE cell == Cell("point", 0, idx)  s == PointCells(n, idx)
  <1>1. CellOf(cell, "point", 0, idx)
    <2>1. "point" \in BagKinds /\ 0 \in Nat
      BY DEF BagKinds
    <2> QED BY <2>1, CellIs
  <1>2. cell \in BagCells /\ cell.kind = "point" /\ cell.pos = idx
    BY <1>1, Zenon DEF CellOf
  <1>3. s = [i \in 1..n |-> cell]
    BY Zenon DEF PointCells
  <1> HIDE DEF cell, s
  <1>4. s \in Seq(BagCells) /\ Len(s) = n /\ \A k \in 1..n : s[k] = cell
    BY <1>2, <1>3
  <1> QED BY <1>2, <1>4, Zenon DEF s

(* The points of a packet go behind those of its frame.                    *)
LEMMA LaidOn ==
  ASSUME NEW B, NEW m, NEW points, NEW idx, Laid(B, m, points, idx), NEW n \in Nat,
         NEW s \in Seq(BagCells), Dots(s, n, idx)
  PROVE  Laid(B \o s, m, points + n, idx)
  <1> DEFINE q == B \o s
  <1>0. Len(s) = n /\ \A k \in 1..n : s[k].kind = "point" /\ s[k].pos = idx
    BY Zenon DEF Dots
  <1>1. /\ B \in Seq(BagCells) /\ m \in {1, 2} /\ points \in Nat /\ Len(B) = m + 1 + points
        /\ B[1].kind = "chunk" /\ B[m + 1].kind = "message" /\ B[m + 1].pos = idx
        /\ \A i \in 1..points : B[m + 1 + i].kind = "point" /\ B[m + 1 + i].pos = idx
    BY Zenon DEF Laid
  <1>2. q \in Seq(BagCells) /\ Joins(q, B, s)
    BY <1>1, Joined
  <1> HIDE DEF q
  <1>3. /\ Len(q) = m + 1 + points + n /\ \A k \in 1..(m + 1 + points) : q[k] = B[k]
        /\ \A k \in 1..n : q[m + 1 + points + k] = s[k]
    BY <1>0, <1>1, <1>2, Zenon DEF Joins
  <1>4. 1 \in 1..(m + 1 + points) /\ m + 1 \in 1..(m + 1 + points) /\ points + n \in Nat
    BY <1>1
  <1>5. q[1].kind = "chunk" /\ q[m + 1].kind = "message" /\ q[m + 1].pos = idx
    BY <1>1, <1>3, <1>4, Zenon
  <1>6. ASSUME NEW i \in 1..(points + n) PROVE q[m + 1 + i].kind = "point" /\ q[m + 1 + i].pos = idx
    <2>1. CASE i <= points
      <3> DEFINE k == m + 1 + i
      <3>1. k \in 1..(m + 1 + points) /\ i \in 1..points
        BY <1>1, <2>1
      <3>2. B[k].kind = "point" /\ B[k].pos = idx
        BY <1>1, <3>1, Zenon
      <3> HIDE DEF k
      <3>3. q[k] = B[k]
        BY <1>3, <3>1, Zenon
      <3> QED BY <3>2, <3>3, Zenon DEF k
    <2>2. CASE ~(i <= points)
      <3> DEFINE j == i - points
      <3>1. j \in 1..n /\ m + 1 + points + j = m + 1 + i
        BY <1>1, <2>2
      <3> HIDE DEF j
      <3>2. q[m + 1 + i] = s[j]
        BY <1>3, <3>1, Zenon
      <3> QED BY <1>0, <3>1, <3>2, Zenon
    <2> QED BY <2>1, <2>2
  <1>7. Len(q) = m + 1 + (points + n)
    BY <1>1, <1>3
  <1>8. Laid(q, m, points + n, idx)
    BY <1>1, <1>2, <1>4, <1>5, <1>6, <1>7, Zenon DEF Laid
  <1> QED BY <1>8, Zenon DEF q

PointsAddedTo(d, b, G, idx) ==
  d \in Bags /\ Growing(d, G, idx) /\ CallsOf(d) = CallsOf(b) /\ d.chunks = b.chunks

LEMMA PointsAdded ==
  ASSUME NEW b, NEW G, NEW idx \in Nat, Growing(b, G, idx), NEW n \in Nat
  PROVE  PointsAddedTo([Buffered(b, PointCells(n, idx)) EXCEPT !.points = @ + n], b,
                       G \o [i \in 1..n |-> idx], idx)
  <1> DEFINE s == PointCells(n, idx)  c == Buffered(b, s)  points == c.points + n
             d == MorePointed(c, points)  J == G \o [i \in 1..n |-> idx]  B == b.buffer  f == b.file
  <1>1. [Buffered(b, PointCells(n, idx)) EXCEPT !.points = @ + n] = d
    BY Zenon DEF MorePointed
  <1>2. /\ b \in Bags /\ b.seek = Len(f) /\ b.written = Len(f) /\ b.begin + b.size = Len(f)
        /\ b.header = 1 /\ b.chunk = 0 /\ HeadIs(f) /\ G \in Seq(Nat) /\ HasPoints(f \o B, G)
        /\ b.size = 0 /\ Len(b.chunks) >= 1 /\ b.chunks[Len(b.chunks)].pos = b.begin
        /\ ChunksWhole(b, Len(b.chunks) - 1) /\ b.message = 1 + MessagePlace(b)
        /\ Laid(B, b.message, b.points, idx)
    BY Zenon DEF Growing, BagWritten
  <1>3. f \in Seq(BagCells) /\ B \in Seq(BagCells) /\ b.points \in Nat
    BY <1>2 DEF Bags
  <1>4. s \in Seq(BagCells) /\ Len(s) = n /\ \A k \in 1..n : s[k].kind = "point" /\ s[k].pos = idx
    BY PointCellsAre
  <1> HIDE DEF d, points, c, s
  <1>5. /\ c \in Bags /\ c.buffer = B \o s /\ CallsOf(c) = CallsOf(b) /\ PlacesOf(c) = PlacesOf(b)
        /\ FileOf(c) = FileOf(b)
    BY <1>2, <1>4, BufferedIs, Zenon DEF c
  <1>6. /\ c.header = 1 /\ c.begin = b.begin /\ c.size = 0 /\ c.chunk = 0 /\ c.message = b.message
        /\ c.points = b.points /\ c.chunks = b.chunks
    BY <1>2, <1>5, Zenon DEF PlacesOf
  <1>7. points = b.points + n /\ points \in Nat
    BY <1>3, <1>6 DEF points
  <1>8. MorePointedBag(d, c, points)
    BY <1>5, <1>7, MorePointedIs, Zenon DEF d
  <1>9. /\ d \in Bags /\ d.points = points /\ d.buffer = B \o s /\ d.size = 0 /\ d.chunks = b.chunks
        /\ CallsOf(d) = CallsOf(b) /\ FileOf(d) = FileOf(b) /\ d.header = 1 /\ d.begin = b.begin
        /\ d.chunk = 0 /\ d.message = b.message
    BY <1>5, <1>6, <1>8, Zenon DEF MorePointedBag, KeptOf
  <1>10. d.file = f /\ d.seek = Len(f) /\ d.written = Len(f)
    BY <1>2, <1>9, Zenon DEF FileOf
  <1>11. HasPoints(f \o (B \o s), J) /\ J \in Seq(Nat)
    <2> DEFINE u == f \o B
    <2>1. u \in Seq(BagCells) /\ HasPoints(u, G)
      BY <1>2, <1>3, Joined
    <2>2. u \o s = f \o (B \o s)
      <3>1. s \in Seq(BagCells)
        BY <1>4, Zenon
      <3> HIDE DEF f, B
      <3> QED BY <1>3, <3>1, ConcatAssociative
    <2> HIDE DEF u
    <2>3. HasPoints(u \o s, J)
      <3>1. Dots(s, n, idx) /\ s \in Seq(BagCells)
        BY <1>4, Zenon DEF Dots
      <3>2. G \in Seq(Nat)
        BY <1>2
      <3>3. HasMore(u \o s, G, n, idx)
        BY <2>1, <3>1, <3>2, MorePoints
      <3> QED BY <3>3, Zenon DEF HasMore
    <2>4. [i \in 1..n |-> idx] \in Seq(Nat)
      OBVIOUS
    <2>5. J \in Seq(Nat)
      BY <1>2, <2>4, Joined
    <2> QED BY <2>2, <2>3, <2>5, Zenon
  <1> HIDE DEF J
  <1>12. Laid(d.buffer, d.message, d.points, idx)
    <2>1. Laid(B, b.message, b.points, idx) /\ s \in Seq(BagCells) /\ Dots(s, n, idx)
      BY <1>2, <1>4, Zenon DEF Dots
    <2>2. Laid(B \o s, b.message, b.points + n, idx)
      BY <2>1, LaidOn, Zenon
    <2> QED BY <1>7, <1>9, <2>2, Zenon
  <1>13. BagWritten(d, J)
    BY <1>2, <1>9, <1>10, <1>11, Zenon DEF BagWritten
  <1>14. ChunksWhole(d, Len(d.chunks) - 1) /\ MessagePlace(d) = MessagePlace(b)
    BY <1>2, <1>9, <1>10, Zenon DEF ChunksWhole, MessagePlace
  <1>15. Growing(d, J, idx)
    BY <1>2, <1>9, <1>12, <1>13, <1>14, Zenon DEF Growing
  <1>16. PointsAddedTo(d, b, J, idx)
    BY <1>9, <1>15, Zenon DEF PointsAddedTo
  <1> QED BY <1>1, <1>16, Zenon DEF J

(* The times of the packets, as they are recorded.                         *)
Clock(b) == b.last >= 0 /\ b.ts = b.last + b.offset
Unclocked(b) == b.last = -1 /\ b.ts = 0 /\ b.offset = 0

Retimed(b, last2, last, ts, offset) ==
  [b EXCEPT !.last2 = last2, !.last = last, !.ts = ts, !.offset = offset]

SameRecorder(c, b) ==
  /\ c \in Bags /\ (c.full <=> b.full) /\ c.buffer = b.buffer /\ PlacesOf(c) = PlacesOf(b)
  /\ FileOf(c) = FileOf(b)

TimedBag(t, b) ==
  /\ SameRecorder(t, b) /\ t.called = b.called /\ t.frame = b.frame /\ t.last2 = b.last /\ Clock(t)
  /\ t.last > b.last

LEMMA TimedIs ==
  ASSUME RosbagAssumption, NEW b \in Bags, Clock(b) \/ Unclocked(b),
         NEW ts \in {b.ts + 1, b.ts + LongGap + 2}
  PROVE  TimedBag(Timed(b, ts, 1), b)
  <1> DEFINE jumps == ts > b.last + b.offset + LongGap
             last == IF b.last < 0 THEN ts ELSE IF jumps THEN b.last + 1 ELSE ts - b.offset
             offset == IF b.last < 0 THEN b.offset ELSE ts - last  last2 == b.last
             t == Retimed(b, last2, last, ts, offset)
  <1>1. b.last \in Int /\ b.offset \in Int /\ b.ts \in Int /\ LongGap \in Nat /\ LongGap > 0
    <2>1. b.last \in Int /\ b.offset \in Int /\ b.ts \in Int
      BY DEF Bags
    <2>2. LongGap \in Nat /\ LongGap > 0
      BY DEF RosbagAssumption
    <2> QED BY <2>1, <2>2, Zenon
  <1>2. ts \in Int /\ last \in Int /\ offset \in Int /\ last2 \in Int /\ last2 = b.last
    BY <1>1
  <1>3. last > b.last /\ last >= 0 /\ ts = last + offset
    BY <1>1 DEF Clock, Unclocked
  <1>4. Timed(b, ts, 1) = t
    BY <1>1, Zenon DEF Timed, Retimed
  <1> HIDE DEF last, offset, last2
  <1>5. /\ t \in Bags /\ (t.full <=> b.full) /\ t.buffer = b.buffer /\ t.called = b.called
        /\ t.frame = b.frame /\ t.last2 = last2 /\ t.last = last /\ t.ts = ts /\ t.offset = offset
    BY <1>2 DEF Retimed, Bags
  <1>6. PlacesOf(t) = PlacesOf(b) /\ FileOf(t) = FileOf(b)
    BY <1>2 DEF Retimed, Bags, PlacesOf, FileOf
  <1> HIDE DEF t
  <1>7. Clock(t)
    BY <1>3, <1>5, Zenon DEF Clock
  <1>8. t.last > b.last
    BY <1>3, <1>5, Zenon
  <1> QED BY <1>2, <1>4, <1>5, <1>6, <1>7, <1>8, Zenon DEF TimedBag, SameRecorder

Framed(b, idx) == [b EXCEPT !.frame = idx]
Called(b, idx) == [b EXCEPT !.frame = idx, !.called = @ + 1]

FramedBag(c, b, idx) ==
  /\ SameRecorder(c, b) /\ c.frame = idx /\ c.last = b.last /\ c.last2 = b.last2 /\ c.offset = b.offset
  /\ c.ts = b.ts

LEMMA FramedIs ==
  ASSUME NEW b \in Bags, NEW idx \in Nat
  PROVE  FramedBag(Framed(b, idx), b, idx) /\ Framed(b, idx).called = b.called
  <1> DEFINE c == Framed(b, idx)
  <1>1. /\ c \in Bags /\ (c.full <=> b.full) /\ c.buffer = b.buffer /\ c.frame = idx /\ c.called = b.called
        /\ c.last = b.last /\ c.last2 = b.last2 /\ c.offset = b.offset /\ c.ts = b.ts
    BY DEF Framed, Bags
  <1>2. PlacesOf(c) = PlacesOf(b) /\ FileOf(c) = FileOf(b)
    BY DEF Framed, Bags, PlacesOf, FileOf
  <1> QED BY <1>1, <1>2, Zenon DEF FramedBag, SameRecorder

LEMMA CalledIs ==
  ASSUME NEW b \in Bags, NEW idx \in Nat
  PROVE  FramedBag(Called(b, idx), b, idx) /\ Called(b, idx).called > 0
  <1> DEFINE called == b.called + 1  c == [b EXCEPT !.frame = idx, !.called = called]
  <1>1. Called(b, idx) = c
    BY DEF Called
  <1>2. called \in Nat /\ called > 0
    <2>1. b.called \in Nat
      BY DEF Bags
    <2> QED BY <2>1
  <1> HIDE DEF called
  <1>3. /\ c \in Bags /\ (c.full <=> b.full) /\ c.buffer = b.buffer /\ c.frame = idx /\ c.called = called
        /\ c.last = b.last /\ c.last2 = b.last2 /\ c.offset = b.offset /\ c.ts = b.ts
    BY <1>2 DEF Bags
  <1>4. PlacesOf(c) = PlacesOf(b) /\ FileOf(c) = FileOf(b)
    BY <1>2 DEF Bags, PlacesOf, FileOf
  <1> HIDE DEF c
  <1> QED BY <1>1, <1>2, <1>3, <1>4, Zenon DEF FramedBag, SameRecorder

(* The chunks follow each other in time, and begin within the limit.       *)
InTime(chunks, last) ==
  \A i \in 1..Len(chunks) :
    LET c == chunks[i]
    IN  /\ i < Len(chunks) => c.start <= c.end /\ c.end <= chunks[i + 1].start
        /\ chunks[i].start <= last
Limited(chunks) == limit > 0 => \A i \in 1..Len(chunks) : chunks[i].pos <= limit
Ordered(chunks, last) == InTime(chunks, last) /\ Limited(chunks)

(* The last chunk has ended as well.                                       *)
AllInTime(chunks, last) ==
  Len(chunks) > 0 =>
    chunks[Len(chunks)].start <= chunks[Len(chunks)].end /\ chunks[Len(chunks)].end <= last

LEMMA ChunksAre ==
  ASSUME NEW chunks \in Seq(BagChunks)
  PROVE  /\ Len(chunks) \in Nat
         /\ \A i \in 1..Len(chunks) : chunks[i].pos \in Nat /\ chunks[i].start \in Int /\ chunks[i].end \in Int
  <1>1. Len(chunks) \in Nat
    BY LenProperties
  <1>2. \A i \in 1..Len(chunks) : chunks[i] \in BagChunks
    BY ElementOfSeq
  <1>3. \A c \in BagChunks : c.pos \in Nat /\ c.start \in Int /\ c.end \in Int
    BY DEF BagChunks
  <1> QED BY <1>1, <1>2, <1>3, Zenon

LEMMA OrderedLater ==
  ASSUME NEW chunks \in Seq(BagChunks), NEW last \in Int, Ordered(chunks, last), NEW later \in Int, later >= last
  PROVE  Ordered(chunks, later)
  <1>1. \A i \in 1..Len(chunks) : chunks[i].start \in Int
    BY ChunksAre
  <1>2. InTime(chunks, last) /\ Limited(chunks)
    BY Zenon DEF Ordered
  <1>3. ASSUME NEW i \in 1..Len(chunks) PROVE chunks[i].start <= later
    <2>1. chunks[i].start <= last /\ chunks[i].start \in Int
      BY <1>1, <1>2 DEF InTime
    <2> QED BY <2>1
  <1>4. InTime(chunks, later)
    BY <1>2, <1>3, Zenon DEF InTime
  <1> QED BY <1>2, <1>4, Zenon DEF Ordered

LEMMA OrderedEnds ==
  ASSUME NEW chunks \in Seq(BagChunks), NEW last \in Int, Ordered(chunks, last), NEW C, NEW end,
         ChunkEnds(C, chunks, end)
  PROVE  Ordered(C, last)
  <1>1. /\ C \in Seq(BagChunks) /\ Len(C) = Len(chunks)
        /\ \A i \in 1..Len(chunks) : C[i].pos = chunks[i].pos /\ C[i].start = chunks[i].start
        /\ \A i \in 1..(Len(chunks) - 1) : C[i].end = chunks[i].end
    BY Zenon DEF ChunkEnds
  <1>2. InTime(chunks, last) /\ Limited(chunks) /\ Len(chunks) \in Nat
    BY ChunksAre, Zenon DEF Ordered
  <1>3. ASSUME NEW i \in 1..Len(C)
        PROVE  /\ i < Len(C) => C[i].start <= C[i].end /\ C[i].end <= C[i + 1].start
               /\ C[i].start <= last
    <2>1. C[i].start = chunks[i].start /\ chunks[i].start <= last
      BY <1>1, <1>2, Zenon DEF InTime
    <2>2. CASE i < Len(C)
      <3>1. i \in 1..(Len(chunks) - 1) /\ i + 1 \in 1..Len(chunks) /\ i < Len(chunks)
        BY <1>1, <1>2, <2>2
      <3>2. C[i].end = chunks[i].end /\ C[i + 1].start = chunks[i + 1].start
        BY <1>1, <3>1, Zenon
      <3>3. chunks[i].start <= chunks[i].end /\ chunks[i].end <= chunks[i + 1].start
        BY <1>1, <1>2, <3>1, Zenon DEF InTime
      <3> QED BY <2>1, <3>2, <3>3, Zenon
    <2>3. CASE ~(i < Len(C))
      BY <2>1, <2>3, Zenon
    <2> QED BY <2>2, <2>3
  <1>4. InTime(C, last)
    BY <1>3, Zenon DEF InTime
  <1>5. Limited(C)
    BY <1>1, <1>2, Zenon DEF Limited
  <1> QED BY <1>4, <1>5, Zenon DEF Ordered

LEMMA OrderedNext ==
  ASSUME NEW chunks \in Seq(BagChunks), NEW last \in Int, Ordered(chunks, last), AllInTime(chunks, last),
         NEW x \in BagChunks, x.start = last, limit > 0 => x.pos <= limit
  PROVE  Ordered(Append(chunks, x), last)
  <1> DEFINE C == Append(chunks, x)  n == Len(chunks)
  <1>1. n \in Nat /\ \A i \in 1..n : chunks[i].start \in Int /\ chunks[i].end \in Int
    BY ChunksAre
  <1>2. /\ Len(C) = n + 1 /\ C[n + 1] = x /\ \A i \in 1..n : C[i] = chunks[i]
    BY Appended
  <1>3. InTime(chunks, last) /\ Limited(chunks)
    BY Zenon DEF Ordered
  <1> HIDE DEF C, n
  <1>4. ASSUME NEW i \in 1..(n + 1)
        PROVE  /\ i < n + 1 => C[i].start <= C[i].end /\ C[i].end <= C[i + 1].start
               /\ C[i].start <= last
    <2>1. CASE i = n + 1
      <3>1. C[i].start = last /\ ~(i < n + 1) /\ last <= last
        BY <1>1, <1>2, <2>1
      <3> QED BY <3>1, Zenon
    <2>2. CASE i = n
      <3>1. i \in 1..n /\ C[i] = chunks[i] /\ C[i + 1] = x
        BY <1>1, <1>2, <2>2
      <3>2. n > 0 /\ n = Len(chunks)
        BY <1>1, <2>2 DEF n
      <3>3. chunks[i].start <= chunks[i].end /\ chunks[i].end <= last
        BY <2>2, <3>2, Zenon DEF AllInTime
      <3>4. chunks[i].start <= last
        BY <1>3, <3>1, Zenon DEF InTime, n
      <3> QED BY <3>1, <3>3, <3>4, Zenon
    <2>3. CASE i # n + 1 /\ i # n
      <3>1. i \in 1..n /\ i + 1 \in 1..n /\ i < n
        BY <1>1, <2>3
      <3>2. C[i] = chunks[i] /\ C[i + 1] = chunks[i + 1]
        BY <1>2, <3>1, Zenon
      <3>3. /\ chunks[i].start <= chunks[i].end /\ chunks[i].end <= chunks[i + 1].start
            /\ chunks[i].start <= last
        BY <1>3, <3>1, Zenon DEF InTime, n
      <3> QED BY <3>2, <3>3, Zenon
    <2> QED BY <2>1, <2>2, <2>3
  <1>5. InTime(C, last)
    BY <1>2, <1>4, Zenon DEF InTime
  <1>6. Limited(C)
    <2>1. ASSUME limit > 0, NEW i \in 1..(n + 1) PROVE C[i].pos <= limit
      <3>1. CASE i = n + 1
        BY <1>2, <2>1, <3>1, Zenon
      <3>2. CASE i # n + 1
        <4>1. i \in 1..n
          BY <1>1, <3>2
        <4> QED BY <1>2, <1>3, <2>1, <4>1, Zenon DEF Limited, n
      <3> QED BY <3>1, <3>2
    <2> QED BY <1>2, <2>1, Zenon DEF Limited
  <1> QED BY <1>5, <1>6, Zenon DEF Ordered, C

(***************************************************************************)
(* Between two calls the recorder stands within a chunk of the frame of    *)
(* its last packet, or has not begun, or has ended its bag.                *)
(***************************************************************************)
BagStands(b, G) ==
  /\ b \in Bags /\ G \in Seq(Nat) /\ Ordered(b.chunks, b.last)
  /\ b.full => EndedBag(b, G)
  /\ ~b.full /\ b.called = 0 => b = NewBag /\ G = <<>>
  /\ ~b.full /\ b.called # 0 => Growing(b, G, b.frame) /\ Clock(b)

BagInv == limit \in Nat /\ BagStands(bag, given)

LEMMA NewBagIs ==
  NewBag \in Bags /\ Fresh(NewBag) /\ Unclocked(NewBag) /\ ~NewBag.full /\ NewBag.called = 0
  <1>1. /\ <<>> \in Seq(BagCells) /\ <<>> \in Seq(BagChunks) /\ FALSE \in BOOLEAN /\ 0 \in Nat /\ 0 \in Int
        /\ -1 \in Int
    BY EmptySeq
  <1>2. NewBag \in Bags
    BY <1>1 DEF NewBag, Bags
  <1>3. /\ NewBag.buffer = <<>> /\ NewBag.file = <<>> /\ NewBag.seek = 0 /\ NewBag.written = 0
        /\ NewBag.begin = 0 /\ NewBag.size = 0 /\ NewBag.chunk = 0 /\ NewBag.message = 0
        /\ NewBag.chunks = <<>> /\ NewBag.last = -1 /\ NewBag.ts = 0 /\ NewBag.offset = 0
        /\ ~NewBag.full /\ NewBag.called = 0
    BY DEF NewBag
  <1> QED BY <1>2, <1>3, Zenon DEF Fresh, Unclocked

LEMMA NothingOrdered ==
  ASSUME NEW last
  PROVE  Ordered(<<>>, last) /\ AllInTime(<<>>, last)
  <1>1. Len(<<>>) = 0 /\ 1..Len(<<>>) = {} /\ ~(Len(<<>>) > 0)
    OBVIOUS
  <1> QED BY <1>1, Zenon DEF Ordered, InTime, Limited, AllInTime

(* A chunk ended, in time, before the next begins.                         *)
Prepared(d, G) ==
  /\ BetweenChunks(d, G) /\ ~d.full /\ Ordered(d.chunks, d.last) /\ AllInTime(d.chunks, d.last)

(* What a chunk that begins leaves behind: the bag ended, or growing.      *)
Begins(d, G, idx, last) ==
  /\ d \in Bags /\ G \in Seq(Nat) /\ Ordered(d.chunks, d.last) /\ d.last = last
  /\ d.full => EndedBag(d, G)
  /\ ~d.full => Growing(d, G, idx)

LEMMA ChunkBegins ==
  ASSUME limit \in Nat, NEW b, NEW G, Prepared(b, G), NEW idx \in Nat
  PROVE  LET d == StartChunk(b, idx)
         IN  Begins(d, G, idx, b.last) /\ (~d.full => CallsOf(d) = CallsOf(b))
  <1> DEFINE d == StartChunk(b, idx)
  <1>1. BetweenChunks(b, G) /\ ~b.full /\ Ordered(b.chunks, b.last) /\ AllInTime(b.chunks, b.last)
    BY Zenon DEF Prepared
  <1>2. b \in Bags /\ G \in Seq(Nat)
    BY <1>1, Zenon DEF BetweenChunks, BagWritten
  <1>3. b.chunks \in Seq(BagChunks) /\ b.last \in Int /\ b.begin \in Nat /\ b.size \in Nat
    BY <1>2 DEF Bags
  <1>4. BagEnded(d, b, G) \/ ChunkBegun(d, b, G, idx)
    BY <1>1, ChunkStarts, Zenon
  <1> HIDE DEF d
  <1>5. ASSUME BagEnded(d, b, G) PROVE Begins(d, G, idx, b.last) /\ (~d.full => CallsOf(d) = CallsOf(b))
    BY <1>1, <1>2, <1>5, Zenon DEF BagEnded, Begins
  <1>6. ASSUME ChunkBegun(d, b, G, idx)
        PROVE  Begins(d, G, idx, b.last) /\ (~d.full => CallsOf(d) = CallsOf(b))
    <2> DEFINE x == NewChunk(b)
    <2>1. /\ ~d.full /\ Growing(d, G, idx) /\ d.chunks = Append(b.chunks, x) /\ CallsOf(d) = CallsOf(b)
          /\ (limit > 0 => x.pos <= limit)
      BY <1>6, Zenon DEF ChunkBegun
    <2>2. x \in BagChunks /\ x.start = b.last
      BY <1>3 DEF NewChunk, BagChunks
    <2> HIDE DEF x
    <2>3. d.last = b.last /\ d \in Bags
      BY <2>1, Zenon DEF CallsOf, Growing, BagWritten
    <2>4. Ordered(Append(b.chunks, x), b.last)
      <3> DEFINE chunks == b.chunks  last == b.last
      <3>1. /\ chunks \in Seq(BagChunks) /\ last \in Int /\ Ordered(chunks, last) /\ AllInTime(chunks, last)
            /\ x.start = last /\ (limit > 0 => x.pos <= limit)
        BY <1>1, <1>3, <2>1, <2>2, Zenon
      <3> HIDE DEF chunks, last
      <3>2. Ordered(Append(chunks, x), last)
        BY <2>2, <3>1, OrderedNext
      <3> QED BY <3>2, Zenon DEF chunks, last
    <2> QED BY <1>2, <2>1, <2>3, <2>4, Zenon DEF Begins
  <1> QED BY <1>4, <1>5, <1>6, Zenon DEF d

(* The first packet.                                                       *)
LEMMA BagBegins ==
  ASSUME RosbagAssumption, limit \in Nat, NEW idx \in Nat, NEW ts \in {NewBag.ts + 1, NewBag.ts + LongGap + 2}
  PROVE  LET d == StartChunk(StartWriting([Timed(NewBag, ts, 1) EXCEPT !.frame = idx]), idx)
         IN  \E last : Begins(d, <<>>, idx, last) /\ (~d.full => Clock(d) /\ d.frame = idx)
  <1> DEFINE t == Timed(NewBag, ts, 1)  u == Framed(t, idx)  a == StartWriting(u)  d == StartChunk(a, idx)
  <1>1. TimedBag(t, NewBag)
    BY NewBagIs, TimedIs, Zenon
  <1>2. t \in Bags /\ ~t.full /\ Clock(t)
    BY <1>1, NewBagIs, Zenon DEF TimedBag, SameRecorder
  <1> HIDE DEF t
  <1>3. FramedBag(u, t, idx)
    BY <1>2, FramedIs, Zenon
  <1> HIDE DEF u
  <1>4. Fresh(u) /\ ~u.full /\ Clock(u) /\ u.frame = idx
    BY <1>1, <1>2, <1>3, NewBagIs, Zenon DEF FramedBag, TimedBag, SameRecorder, Fresh, PlacesOf, FileOf, Clock
  <1>5. BetweenChunks(a, <<>>) /\ CallsOf(a) = CallsOf(u) /\ a.chunks = <<>>
    BY <1>4, WritingStarts, Zenon
  <1> HIDE DEF a
  <1>6. ~a.full /\ Clock(a) /\ a.frame = idx
    BY <1>4, <1>5, Zenon DEF CallsOf, Clock
  <1>7. Prepared(a, <<>>)
    BY <1>5, <1>6, NothingOrdered, Zenon DEF Prepared
  <1>8. Begins(d, <<>>, idx, a.last) /\ (~d.full => CallsOf(d) = CallsOf(a))
    BY <1>7, ChunkBegins, Zenon
  <1> HIDE DEF d
  <1>9. ~d.full => Clock(d) /\ d.frame = idx
    BY <1>6, <1>8, Zenon DEF CallsOf, Clock
  <1> QED BY <1>8, <1>9, Zenon DEF d, a, u, t, Framed

(* A packet of another frame.                                              *)
LEMMA FrameChanges ==
  ASSUME limit \in Nat, NEW t, NEW b, TimedBag(t, b), NEW G, Growing(t, G, b.frame), NEW idx \in Nat,
         ~t.full, Clock(b), Ordered(b.chunks, b.last), b \in Bags
  PROVE  LET d == StartChunk(StopChunk(t), idx)
         IN  \E last : Begins(d, G, idx, last) /\ (~d.full => Clock(d))
  <1> DEFINE a == StopChunk(t)  d == StartChunk(a, idx)
  <1>1. /\ t \in Bags /\ t.chunks = b.chunks /\ t.last2 = b.last /\ t.last > b.last /\ Clock(t)
    BY Zenon DEF TimedBag, SameRecorder, PlacesOf
  <1>2. BetweenChunks(a, G) /\ CallsOf(a) = CallsOf(t) /\ ChunkEnds(a.chunks, t.chunks, EndOf(t))
    BY ChunkStops, Zenon
  <1> HIDE DEF a
  <1>3. ~a.full /\ a.last = t.last /\ Clock(a)
    BY <1>1, <1>2, Zenon DEF CallsOf, Clock
  <1>4. b.chunks \in Seq(BagChunks) /\ b.last \in Int /\ t.last \in Int /\ b.last >= 0 /\ t.last >= b.last
    <2>1. b.chunks \in Seq(BagChunks) /\ b.last \in Int /\ t.last \in Int
      BY <1>1 DEF Bags
    <2>2. b.last >= 0 /\ t.last > b.last
      BY <1>1, Zenon DEF Clock
    <2> QED BY <2>1, <2>2
  <1>5. EndOf(t) = b.last
    BY <1>1, <1>4, Zenon DEF EndOf
  <1> DEFINE chunks == b.chunks  C == a.chunks  last == b.last  later == t.last
  <1>6. /\ ChunkEnds(C, chunks, last) /\ chunks \in Seq(BagChunks) /\ last \in Int /\ later \in Int
        /\ later >= last /\ Ordered(chunks, last)
    BY <1>1, <1>2, <1>4, <1>5, Zenon
  <1> HIDE DEF chunks, C, last, later
  <1>7. Ordered(C, last) /\ C \in Seq(BagChunks) /\ Len(C) = Len(chunks)
    <2>1. Ordered(C, last)
      BY <1>6, OrderedEnds
    <2> QED BY <1>6, <2>1, Zenon DEF ChunkEnds
  <1>8. Ordered(C, later)
    BY <1>6, <1>7, OrderedLater
  <1>9. AllInTime(C, later)
    <2>1. ASSUME Len(C) > 0 PROVE C[Len(C)].start <= C[Len(C)].end /\ C[Len(C)].end <= later
      <3>1. Len(C) \in 1..Len(C)
        <4>1. Len(C) \in Nat
          BY <1>7, LenProperties
        <4> QED BY <2>1, <4>1
      <3>2. C[Len(C)].end = last
        BY <1>6, <1>7, Zenon DEF ChunkEnds
      <3>3. C[Len(C)].start <= last
        BY <1>7, <3>1, Zenon DEF Ordered, InTime
      <3> QED BY <1>6, <3>2, <3>3, Zenon
    <2> QED BY <2>1, Zenon DEF AllInTime
  <1>10. Prepared(a, G)
    BY <1>2, <1>3, <1>8, <1>9, Zenon DEF Prepared, C, later
  <1>11. Begins(d, G, idx, a.last) /\ (~d.full => CallsOf(d) = CallsOf(a))
    BY <1>10, ChunkBegins, Zenon
  <1> HIDE DEF d
  <1>12. ~d.full => Clock(d)
    BY <1>3, <1>11, Zenon DEF CallsOf, Clock
  <1> QED BY <1>11, <1>12, Zenon DEF d, a

(* A packet into the chunk: its points, or nothing when they do not fit.   *)
LEMMA PacketTaken ==
  ASSUME NEW b \in Bags, NEW G \in Seq(Nat), NEW idx \in Nat, Growing(b, G, idx), Clock(b),
         Ordered(b.chunks, b.last), ~b.full, NEW n \in Nat
  PROVE  LET c == [b EXCEPT !.frame = idx, !.called = @ + 1]
         IN  /\ BagStands(c, G)
             /\ BagStands([Buffered(c, PointCells(n, idx)) EXCEPT !.points = @ + n], G \o [i \in 1..n |-> idx])
  <1> DEFINE c == Called(b, idx)  J == G \o [i \in 1..n |-> idx]
             d == [Buffered(c, PointCells(n, idx)) EXCEPT !.points = @ + n]
  <1>1. FramedBag(c, b, idx) /\ c.called > 0
    BY CalledIs, Zenon
  <1>2. /\ c \in Bags /\ ~c.full /\ c.frame = idx /\ Clock(c) /\ c.chunks = b.chunks /\ c.last = b.last
        /\ PlacesOf(c) = PlacesOf(b) /\ FileOf(c) = FileOf(b) /\ c.buffer = b.buffer
    BY <1>1, Zenon DEF FramedBag, SameRecorder, PlacesOf, Clock
  <1> HIDE DEF c
  <1>3. c.called # 0
    BY <1>1
  <1>4. Growing(c, G, idx)
    BY <1>2, GrowingStays, Zenon
  <1>5. BagStands(c, G)
    BY <1>2, <1>3, <1>4, Zenon DEF BagStands
  <1>6. PointsAddedTo(d, c, J, idx)
    BY <1>4, PointsAdded, Zenon
  <1> HIDE DEF d, J
  <1>7. d \in Bags /\ Growing(d, J, idx) /\ CallsOf(d) = CallsOf(c) /\ d.chunks = c.chunks
    BY <1>6, Zenon DEF PointsAddedTo
  <1>8. ~d.full /\ d.frame = idx /\ Clock(d) /\ d.last = b.last /\ d.called = c.called
    BY <1>2, <1>7, Zenon DEF CallsOf, Clock
  <1>9. J \in Seq(Nat)
    BY <1>7, Zenon DEF Growing, BagWritten
  <1>10. BagStands(d, J)
    BY <1>2, <1>3, <1>7, <1>8, <1>9, Zenon DEF BagStands
  <1> QED BY <1>5, <1>10, Zenon DEF d, J, c, Called

(* add_block with a packet.                                                *)
LEMMA BagAddsBlock ==
  ASSUME RosbagAssumption, BagInv, NEW idx \in {bag.frame, bag.frame + 1}, NEW n \in 0..MaxPoints,
         NEW ts \in {bag.ts + 1, bag.ts + LongGap + 2}, AddBlock(idx, n, ts)
  PROVE  BagStands(bag', given')
  <1> DEFINE t == Timed(bag, ts, 1)
             a == IF t.called = 0 THEN StartChunk(StartWriting([t EXCEPT !.frame = idx]), idx) ELSE t
             b == IF ~a.full /\ a.frame # idx THEN StartChunk(StopChunk(a), idx) ELSE a
             c == [b EXCEPT !.frame = idx, !.called = @ + 1]
             d == [Buffered(c, PointCells(n, idx)) EXCEPT !.points = @ + n]
             J == given \o [i \in 1..n |-> idx]
  <1>1. limit \in Nat /\ BagStands(bag, given) /\ ~bag.full
    BY Zenon DEF BagInv, AddBlock
  <1>2. bag \in Bags /\ given \in Seq(Nat) /\ Ordered(bag.chunks, bag.last)
    BY <1>1, Zenon DEF BagStands
  <1>3. idx \in Nat /\ n \in Nat
    <2>1. bag.frame \in Nat
      BY <1>2 DEF Bags
    <2>2. MaxPoints \in Nat
      BY DEF RosbagAssumption
    <2> QED BY <2>1, <2>2
  <1>4. \/ b.full /\ bag' = b /\ given' = given
        \/ ~b.full /\ bag' = d /\ given' = J
        \/ ~b.full /\ bag' = c /\ given' = given
    BY Zenon DEF AddBlock, PointCells
  <1>5. \E last : Begins(b, given, idx, last) /\ (~b.full => Clock(b))
    <2>1. CASE bag.called = 0
      <3>1. bag = NewBag /\ given = <<>>
        BY <1>1, <2>1, Zenon DEF BagStands
      <3>2. TimedBag(t, bag)
        <4>1. Unclocked(bag)
          BY <3>1, NewBagIs, Zenon
        <4> QED BY <1>2, <4>1, TimedIs, Zenon
      <3>3. t.called = 0
        BY <2>1, <3>2, Zenon DEF TimedBag
      <3>4. a = StartChunk(StartWriting([Timed(NewBag, ts, 1) EXCEPT !.frame = idx]), idx)
        BY <3>1, <3>3, Zenon
      <3>5. \E last : Begins(a, <<>>, idx, last) /\ (~a.full => Clock(a) /\ a.frame = idx)
        <4>1. ts \in {NewBag.ts + 1, NewBag.ts + LongGap + 2}
          BY <3>1, Zenon
        <4> HIDE DEF a
        <4> QED BY <1>1, <1>3, <3>4, <4>1, BagBegins, Zenon
      <3> HIDE DEF a
      <3>6. b = a
        BY <3>5, Zenon
      <3> HIDE DEF b
      <3> QED BY <3>1, <3>5, <3>6, Zenon
    <2>2. CASE bag.called # 0
      <3>1. Growing(bag, given, bag.frame) /\ Clock(bag)
        BY <1>1, <2>2, Zenon DEF BagStands
      <3>2. TimedBag(t, bag)
        BY <1>2, <3>1, TimedIs, Zenon
      <3>3. /\ t \in Bags /\ ~t.full /\ t.called # 0 /\ t.frame = bag.frame /\ Clock(t) /\ t.last > bag.last
            /\ t.chunks = bag.chunks
        BY <1>1, <2>2, <3>2, Zenon DEF TimedBag, SameRecorder, PlacesOf
      <3>4. a = t
        BY <3>3, Zenon
      <3>5. Growing(t, given, bag.frame)
        BY <3>1, <3>2, <3>3, GrowingStays, Zenon DEF TimedBag, SameRecorder
      <3> HIDE DEF t, a
      <3>6. CASE t.frame # idx
        <4>1. b = StartChunk(StopChunk(t), idx)
          BY <3>3, <3>4, <3>6, Zenon
        <4> HIDE DEF b
        <4> QED BY <1>1, <1>2, <1>3, <3>1, <3>2, <3>3, <3>5, <4>1, FrameChanges, Zenon
      <3>7. CASE t.frame = idx
        <4>1. b = t
          BY <3>4, <3>7, Zenon
        <4> HIDE DEF b
        <4>2. Ordered(t.chunks, t.last)
          <5> DEFINE chunks == bag.chunks  last == bag.last  later == t.last
          <5>1. chunks \in Seq(BagChunks) /\ last \in Int /\ later \in Int /\ Ordered(chunks, last)
            BY <1>2, <3>3 DEF Bags
          <5>2. later >= last
            BY <3>3, <5>1
          <5> HIDE DEF chunks, last, later
          <5>3. Ordered(chunks, later)
            BY <5>1, <5>2, OrderedLater
          <5> QED BY <3>3, <5>3, Zenon DEF chunks, later
        <4>3. Begins(b, given, idx, t.last)
          BY <1>2, <3>3, <3>5, <3>7, <4>1, <4>2, Zenon DEF Begins
        <4> QED BY <3>3, <4>1, <4>3, Zenon
      <3> QED BY <3>6, <3>7
    <2> QED BY <2>1, <2>2
  <1> HIDE DEF b
  <1>6. /\ b \in Bags /\ Ordered(b.chunks, b.last) /\ (b.full => EndedBag(b, given))
        /\ (~b.full => Growing(b, given, idx) /\ Clock(b))
    BY <1>5, Zenon DEF Begins
  <1>7. CASE b.full /\ bag' = b /\ given' = given
    <2>1. BagStands(b, given)
      BY <1>2, <1>6, <1>7, Zenon DEF BagStands
    <2> QED BY <1>7, <2>1, Zenon
  <1>8. ASSUME ~b.full PROVE BagStands(c, given) /\ BagStands(d, J)
    BY <1>2, <1>3, <1>6, <1>8, PacketTaken, Zenon
  <1> HIDE DEF c, d, J
  <1> QED BY <1>4, <1>7, <1>8, Zenon

(* add_block without one.                                                  *)
LEMMA BagEnds ==
  ASSUME BagInv, End
  PROVE  BagStands(bag', given')
  <1> DEFINE a == StopChunk(bag)  d == StopWriting(a)
  <1>1. /\ limit \in Nat /\ BagStands(bag, given) /\ ~bag.full /\ bag.called > 0 /\ bag' = d
        /\ given' = given
    BY Zenon DEF BagInv, End
  <1>2. bag.called # 0
    BY <1>1
  <1>3. /\ bag \in Bags /\ given \in Seq(Nat) /\ Ordered(bag.chunks, bag.last)
        /\ Growing(bag, given, bag.frame)
    BY <1>1, <1>2, Zenon DEF BagStands
  <1>4. /\ BetweenChunks(a, given) /\ CallsOf(a) = CallsOf(bag)
        /\ ChunkEnds(a.chunks, bag.chunks, EndOf(bag))
    BY <1>3, ChunkStops, Zenon
  <1> HIDE DEF a
  <1>5. d \in Bags /\ d.full /\ EndedBag(d, given) /\ d.chunks = a.chunks /\ d.last = a.last
    BY <1>4, WritingStops, Zenon
  <1> HIDE DEF d
  <1>6. a.last = bag.last
    BY <1>4, Zenon DEF CallsOf
  <1>7. Ordered(a.chunks, bag.last)
    <2> DEFINE chunks == bag.chunks  C == a.chunks  last == bag.last  end == EndOf(bag)
    <2>1. chunks \in Seq(BagChunks) /\ last \in Int
      BY <1>3 DEF Bags
    <2>2. ChunkEnds(C, chunks, end) /\ Ordered(chunks, last)
      BY <1>3, <1>4, Zenon
    <2> HIDE DEF chunks, C, last, end
    <2>3. Ordered(C, last)
      BY <2>1, <2>2, OrderedEnds
    <2> QED BY <2>3, Zenon DEF C, last
  <1> QED BY <1>1, <1>3, <1>5, <1>6, <1>7, Zenon DEF BagStands

LEMMA BagStep == RosbagAssumption /\ BagInv /\ [RosbagNext]_rosbagVars => BagInv'
  <1> SUFFICES ASSUME RosbagAssumption, BagInv, [RosbagNext]_rosbagVars PROVE BagInv'
    OBVIOUS
  <1>1. limit' = limit
    <2>1. End => limit' = limit
      BY Zenon DEF End
    <2>2. ASSUME NEW idx, NEW n, NEW ts, AddBlock(idx, n, ts) PROVE limit' = limit
      <3> DEFINE same == UNCHANGED limit
      <3>1. same
        BY <2>2, Zenon DEF AddBlock
      <3> QED BY <3>1
    <2>3. UNCHANGED rosbagVars => limit' = limit
      BY Zenon DEF rosbagVars
    <2> QED BY <2>1, <2>2, <2>3, Zenon DEF RosbagNext
  <1>2. BagStands(bag', given')
    <2>1. CASE End
      BY <2>1, BagEnds
    <2>2. CASE \E idx \in {bag.frame, bag.frame + 1}, n \in 0..MaxPoints, ts \in {bag.ts + 1, bag.ts + LongGap + 2} :
                 AddBlock(idx, n, ts)
      BY <2>2, BagAddsBlock, Zenon
    <2>3. CASE UNCHANGED rosbagVars
      BY <2>3, Zenon DEF BagInv, rosbagVars
    <2> QED BY <2>1, <2>2, <2>3, Zenon DEF RosbagNext
  <1>3. BagStands(bag, given)'
    BY <1>1, <1>2, Zenon DEF BagStands, Ordered, Limited
  <1>4. limit' \in Nat
    BY <1>1, Zenon DEF BagInv
  <1> QED BY <1>3, <1>4, Zenon DEF BagInv

LEMMA BagStart == RosbagAssumption /\ RosbagInit => BagInv
  <1> SUFFICES ASSUME RosbagAssumption, RosbagInit PROVE BagInv
    OBVIOUS
  <1>1. bag = NewBag /\ given = <<>> /\ limit \in Nat
    BY DEF RosbagInit, RosbagAssumption
  <1>2. NewBag.chunks = <<>> /\ <<>> \in Seq(Nat)
    BY NewBagIs, EmptySeq, Zenon DEF Fresh
  <1> QED BY <1>1, <1>2, NewBagIs, NothingOrdered, Zenon DEF BagInv, BagStands

LEMMA BagSound == RosbagAssumption /\ BagInv => BagsAreSound
  <1> SUFFICES ASSUME RosbagAssumption, BagInv PROVE BagsAreSound
    OBVIOUS
  <1>1. limit \in Nat /\ bag \in Bags /\ Ordered(bag.chunks, bag.last) /\ (bag.full => EndedBag(bag, given))
    BY Zenon DEF BagInv, BagStands
  <1>2. InTime(bag.chunks, bag.last) /\ Limited(bag.chunks)
    BY <1>1, Zenon DEF Ordered
  <1>3. BagIsWhole
    BY <1>1, Zenon DEF BagIsWhole, EndedBag
  <1>4. ChunksInTime
    BY <1>2, Zenon DEF ChunksInTime, InTime
  <1>5. LimitIsKept
    <2>1. Len(bag.chunks) \in Nat
      BY <1>1, LenProperties DEF Bags
    <2>2. CASE Len(bag.chunks) = 0
      <3>1. 0 <= limit
        BY <1>1
      <3> QED BY <2>2, <3>1, Zenon DEF LimitIsKept
    <2>3. CASE Len(bag.chunks) # 0
      <3>1. Len(bag.chunks) \in 1..Len(bag.chunks)
        BY <2>1, <2>3
      <3> QED BY <1>2, <2>3, <3>1, Zenon DEF LimitIsKept, Limited
    <2> QED BY <2>2, <2>3
  <1> QED BY <1>3, <1>4, <1>5, Zenon DEF BagsAreSound

(* Whatever packets come, however the clock of the lidar jumps and         *)
(* wherever the limit ends the bag: a bag that was ended is read as it was *)
(* written, with every point that was taken in it once, its chunks follow  *)
(* each other in time, and none begins behind the limit.                   *)
THEOREM BagsStaySound ==
  ASSUME RosbagAssumption
  PROVE  RosbagSpec => []BagsAreSound
  <1>1. RosbagInit => BagInv
    BY BagStart
  <1>2. BagInv /\ [RosbagNext]_rosbagVars => BagInv'
    BY BagStep
  <1>3. BagInv => BagsAreSound
    BY BagSound
  <1> QED BY <1>1, <1>2, <1>3, PTL DEF RosbagSpec
=============================================================================
