--------------------------- MODULE DataPathProofs ---------------------------
(***************************************************************************)
(* The way of a packet from the read stage to the published cloud.         *)
(*                                                                         *)
(* The reordering (Misorder): as long as the network does not deliver a    *)
(* packet twice and no other socket's thread writes first_step_, packets   *)
(* leave the read stage in order, for any size of the queue, any number of *)
(* frames and any losses and delays.                                       *)
(*                                                                         *)
(* The deliver stages (Deliver), for any number of frames and of packets   *)
(* in them, and pools of any size larger than the queues: no buffer is     *)
(* lost but in the case Deliver names, and frames are delivered whole and  *)
(* in order.                                                               *)
(*                                                                         *)
(* The driver (DriverFrames): how it makes frames, scans and tables of     *)
(* packets, for any number of packets of a frame, packets of a scan,       *)
(* frames between two tables, depth of the topic and garbage in the        *)
(* uninitialized counters.                                                 *)
(*                                                                         *)
(* The node (DriverNode): what it makes of points, IMU messages and the    *)
(* parameters of the transform, for any angles and sets of parameters.     *)
(***************************************************************************)
EXTENDS Misorder, Deliver, DriverFrames, DriverNode,
        FiniteSetTheorems, FunctionTheorems, SequenceTheorems, TLAPS

-----------------------------------------------------------------------------
(* The reordering.                                                         *)

(* The environment of the theorem: at most one packet per position and     *)
(* pass of the file, and one socket.                                       *)
OneOfEach == ~OtherSockets /\ (IsFile \/ Copies = 1)

Pass == IF IsFile THEN restarts + 1 ELSE 1

(* What waits and what is in hand are different packets of this pass.      *)
OfThisPass ==
  /\ misorder_que \subseteq arrived
  /\ pc = "tested" => data_packet \in arrived \ misorder_que
  /\ \A p \in misorder_que \cup ({data_packet} \ {None}) : p.copy = Pass

(* expected separates what was handed on from what waits.                  *)
Separated ==
  /\ \A i \in DOMAIN stream : Before(stream[i], expected)
  /\ \A p \in misorder_que : ~Before(p, expected)

ResetIsEmpty == pc = "tested" /\ first_step => misorder_que = {}

Typed ==
  /\ data_packet \in Packets \cup {None}
  /\ (pc = "tested") = (data_packet # None)
  /\ expected \in Positions
  /\ misorder_que \subseteq Packets /\ stream \in Seq(Packets)
  /\ restarts \in Nat

IInv == Typed /\ OfThisPass /\ Separated /\ ResetIsEmpty /\ InOrder

-----------------------------------------------------------------------------
(* The order of positions that the comparator of the queue defines.        *)
LEMMA PositionOfPacket == Packets \subseteq [idx : Nat, sub : 0..LastSub, copy : 1..Copies]
BY ConstantAssumption DEF Packets

LEMMA NextIsAfter ==
  ASSUME NEW p \in Packets
  PROVE  NextExpected(p) \in Positions /\ Before(p, NextExpected(p))
BY PositionOfPacket, ConstantAssumption DEF NextExpected, Before, Positions

LEMMA NothingBetween ==
  ASSUME NEW p \in Packets, NEW q \in Packets, Before(p, q)
  PROVE  ~Before(q, NextExpected(p))
BY PositionOfPacket, ConstantAssumption DEF NextExpected, Before

LEMMA Total ==
  ASSUME NEW p \in Packets, NEW q \in Packets, ~Before(q, p), p.copy = q.copy, p # q
  PROVE  Before(p, q)
BY PositionOfPacket, ConstantAssumption DEF Before, Packets

LEMMA AcrossExpected ==
  ASSUME NEW p \in Packets, NEW e \in Positions, NEW q \in Packets,
         Before(p, e), ~Before(q, e)
  PROVE  Before(p, q)
BY PositionOfPacket, ConstantAssumption DEF Before, Positions

LEMMA Transitive ==
  ASSUME NEW p \in Packets, NEW q \in Packets, NEW e \in Positions,
         Before(p, q), Before(q, e)
  PROVE  Before(p, e)
BY PositionOfPacket, ConstantAssumption DEF Before, Positions

(* Handing on a packet that nothing that waits precedes keeps the order.   *)
LEMMA HandOn ==
  ASSUME NEW s \in Seq(Packets), NEW e \in Positions, NEW p \in Packets,
         NEW Q \in SUBSET Packets,
         \A i \in DOMAIN s : Before(s[i], e),
         \A i, j \in DOMAIN s : i < j => Before(s[i], s[j]),
         ~Before(p, e),
         \A q \in Q : q # p /\ q.copy = p.copy /\ ~Before(q, p)
  PROVE  LET t == Append(s, p)
         IN /\ t \in Seq(Packets)
            /\ \A i \in DOMAIN t : Before(t[i], NextExpected(p))
            /\ \A i, j \in DOMAIN t : i < j => Before(t[i], t[j])
            /\ \A q \in Q : ~Before(q, NextExpected(p))
<1> DEFINE t == Append(s, p)
<1>1. t \in Seq(Packets) /\ DOMAIN t = DOMAIN s \cup {Len(s) + 1}
      /\ t[Len(s) + 1] = p /\ (\A i \in DOMAIN s : t[i] = s[i] /\ s[i] \in Packets)
      /\ DOMAIN s = 1..Len(s) /\ Len(s) \in Nat
  OBVIOUS
<1> HIDE DEF t
<1>2. \A i \in DOMAIN s : Before(s[i], p)
  BY <1>1, AcrossExpected
<1>3. \A i \in DOMAIN t : Before(t[i], NextExpected(p))
  BY <1>1, <1>2, NextIsAfter, Transitive
<1>4. ASSUME NEW i \in DOMAIN t, NEW j \in DOMAIN t, i < j PROVE Before(t[i], t[j])
  <2>1. i \in DOMAIN s
    BY <1>1, <1>4
  <2>2. CASE j \in DOMAIN s
    BY <2>1, <2>2, <1>1, <1>4
  <2>3. CASE j = Len(s) + 1
    BY <2>1, <2>3, <1>1, <1>2
  <2> QED
    BY <2>2, <2>3, <1>1
<1>5. \A q \in Q : ~Before(q, NextExpected(p))
  BY Total, NothingBetween
<1> QED
  BY <1>1, <1>3, <1>4, <1>5 DEF t

-----------------------------------------------------------------------------
LEMMA InitIInv == Init => IInv
BY DEF Init, IInv, Typed, OfThisPass, Separated, ResetIsEmpty, InOrder, Positions

LEMMA ReceiveKeeps ==
  ASSUME OneOfEach, IInv, NEW p \in Packets, Receive(p)
  PROVE  IInv'
<1>1. p # None /\ p \notin misorder_que /\ data_packet = None
  BY NoneAssumption DEF IInv, Typed, OfThisPass, Receive
<1>2. p.copy = Pass /\ Pass' = Pass
  BY DEF OneOfEach, Receive, Packets, Pass
<1>3. Typed'
  BY <1>1 DEF IInv, Typed, Receive, FreeCached
<1>4. OfThisPass'
  BY <1>1, <1>2 DEF IInv, OfThisPass, Receive, FreeCached
<1>5. Separated' /\ ResetIsEmpty' /\ InOrder'
  BY DEF IInv, Separated, ResetIsEmpty, InOrder, Receive, FreeCached
<1> QED
  BY <1>3, <1>4, <1>5 DEF IInv

LEMMA AcceptKeeps ==
  ASSUME OneOfEach, IInv, Accept
  PROVE  IInv'
<1> DEFINE p == data_packet
<1>1. p \in Packets /\ p # None /\ p \notin misorder_que /\ p.copy = Pass /\ Pass' = Pass
  BY NoneAssumption DEF IInv, Typed, OfThisPass, Accept, Pass
<1>2. OfThisPass'
  BY <1>1 DEF IInv, OfThisPass, Accept
<1>3. ResetIsEmpty'
  BY DEF Accept, ResetIsEmpty
<1>4. expected' \in Positions /\ expected' = NextExpected(p)
  BY <1>1, NextIsAfter DEF Accept
<1>5. CASE first_step
  <2>1. misorder_que' = {} /\ stream' = <<p>>
    BY <1>5 DEF Accept, IInv, ResetIsEmpty
  <2>2. Separated' /\ InOrder'
    BY <2>1, <1>1, <1>4, NextIsAfter DEF Separated, InOrder
  <2>3. Typed'
    BY <2>1, <1>1, <1>4 DEF IInv, Typed, Accept
  <2> QED
    BY <1>2, <1>3, <2>2, <2>3 DEF IInv
<1>6. CASE ~first_step
  <2>1. SamePosition(p, expected) /\ stream' = Append(stream, p) /\ misorder_que' = misorder_que
    BY <1>6 DEF Accept, IsExpected
  <2>2. ~Before(p, expected) /\ expected \in Positions
    BY <2>1, <1>1, PositionOfPacket DEF SamePosition, Before, IInv, Typed, Positions
  <2>3. \A q \in misorder_que : q # p /\ q.copy = p.copy /\ ~Before(q, p)
    BY <2>1, <1>1 DEF SamePosition, Before, IInv, OfThisPass, Separated
  <2>4. /\ stream' \in Seq(Packets) /\ InOrder'
        /\ \A i \in DOMAIN stream' : Before(stream'[i], NextExpected(p))
        /\ \A q \in misorder_que : ~Before(q, NextExpected(p))
    BY <2>1, <2>2, <2>3, <1>1, HandOn DEF IInv, Typed, Separated, InOrder
  <2>5. Separated'
    BY <2>1, <2>4, <1>4 DEF Separated
  <2>6. Typed'
    BY <2>1, <2>4, <1>1, <1>4 DEF IInv, Typed, Accept
  <2> QED
    BY <1>2, <1>3, <2>4, <2>5, <2>6 DEF IInv
<1> QED
  BY <1>5, <1>6

LEMMA KeepKeeps ==
  ASSUME OneOfEach, IInv, Keep
  PROVE  IInv'
<1>1. data_packet \in Packets /\ data_packet # None /\ Pass' = Pass
  BY DEF IInv, Typed, Keep, Pass
<1>2. ~Before(data_packet, expected)
  BY <1>1, PositionOfPacket DEF Keep, Before, IInv, Typed, Positions
<1>3. Typed'
  BY <1>1 DEF IInv, Typed, Keep, AfterKeeping
<1>4. OfThisPass'
  BY <1>1 DEF IInv, OfThisPass, Keep, AfterKeeping
<1>5. Separated'
  BY <1>2 DEF IInv, Separated, Keep
<1>6. ResetIsEmpty' /\ InOrder'
  BY DEF IInv, ResetIsEmpty, InOrder, Keep, AfterKeeping
<1> QED
  BY <1>3, <1>4, <1>5, <1>6 DEF IInv

LEMMA DropKeeps ==
  ASSUME OneOfEach, IInv, DropUnexpected
  PROVE  IInv'
<1>1. Pass' = Pass
  BY DEF DropUnexpected, Pass
<1>2. Typed'
  BY DEF IInv, Typed, DropUnexpected, AfterKeeping
<1>3. OfThisPass'
  BY <1>1 DEF IInv, OfThisPass, DropUnexpected, AfterKeeping
<1>4. Separated' /\ ResetIsEmpty' /\ InOrder'
  BY DEF IInv, Separated, ResetIsEmpty, InOrder, DropUnexpected, AfterKeeping
<1> QED
  BY <1>2, <1>3, <1>4 DEF IInv

(* GiveUpGap and Drain both hand on the packet on top of the queue.        *)
LEMMA TopKeeps ==
  ASSUME OneOfEach, IInv, NEW p \in Tops,
         pc # "tested", pc' # "tested", data_packet' = data_packet,
         misorder_que' = misorder_que \ {p}, Deliver(p),
         arrived' = arrived, restarts' = restarts
  PROVE  IInv'
<1>1. p \in Packets /\ p \in misorder_que /\ data_packet = None /\ Pass' = Pass
  BY DEF IInv, Typed, Tops, Pass
<1>2. ~Before(p, expected) /\ expected \in Positions
  BY <1>1 DEF IInv, Typed, Separated
<1>3. \A q \in misorder_que \ {p} : q # p /\ q.copy = p.copy /\ ~Before(q, p)
  BY <1>1 DEF Tops, IInv, OfThisPass
<1>4. /\ stream' \in Seq(Packets) /\ InOrder'
      /\ \A i \in DOMAIN stream' : Before(stream'[i], NextExpected(p))
      /\ \A q \in misorder_que \ {p} : ~Before(q, NextExpected(p))
  BY <1>1, <1>2, <1>3, HandOn DEF IInv, Typed, Separated, InOrder, Deliver
<1>5. Typed'
  BY <1>1, <1>4, NextIsAfter DEF IInv, Typed, Deliver
<1>6. OfThisPass' /\ ResetIsEmpty'
  BY <1>1 DEF IInv, OfThisPass, ResetIsEmpty
<1>7. Separated'
  BY <1>4 DEF Separated, Deliver
<1> QED
  BY <1>4, <1>5, <1>6, <1>7 DEF IInv

LEMMA RestartKeeps ==
  ASSUME OneOfEach, IInv, Timeout \/ Rewind
  PROVE  IInv'
<1>1. pc = "idle" /\ pc' = "idle" /\ data_packet' = None
  BY DEF OneOfEach, Timeout, Rewind, IInv, Typed
<1>2. Typed'
  BY <1>1 DEF IInv, Typed, Timeout, Rewind, FreeCached
<1>3. OfThisPass'
  BY <1>1 DEF IInv, OfThisPass, Timeout, Rewind, FreeCached, Pass
<1>4. Separated' /\ ResetIsEmpty' /\ InOrder'
  BY <1>1 DEF IInv, Separated, ResetIsEmpty, InOrder, Timeout, Rewind, FreeCached
<1> QED
  BY <1>2, <1>3, <1>4 DEF IInv

LEMMA StepKeeps ==
  ASSUME OneOfEach, IInv, [Next]_vars
  PROVE  IInv'
<1>1. ASSUME NEW p \in Packets, Receive(p) PROVE IInv'
  BY <1>1, ReceiveKeeps
<1>2. CASE Accept
  BY <1>2, AcceptKeeps
<1>3. CASE Keep
  BY <1>3, KeepKeeps
<1>4. CASE DropUnexpected
  BY <1>4, DropKeeps
<1>5. CASE GiveUpGap
  BY <1>5, TopKeeps DEF GiveUpGap
<1>6. CASE Drain
  BY <1>6, TopKeeps DEF Drain
<1>7. CASE DrainEnds
  <2>1. Typed'
    BY <1>7 DEF IInv, Typed, DrainEnds
  <2>2. OfThisPass'
    BY <1>7 DEF IInv, OfThisPass, DrainEnds, Pass
  <2>3. Separated' /\ ResetIsEmpty' /\ InOrder'
    BY <1>7 DEF IInv, Separated, ResetIsEmpty, InOrder, DrainEnds
  <2> QED
    BY <2>1, <2>2, <2>3 DEF IInv
<1>8. CASE Timeout \/ Rewind
  BY <1>8, RestartKeeps
<1>9. CASE UNCHANGED vars
  BY <1>9 DEF vars, IInv, Typed, OfThisPass, Separated, ResetIsEmpty, InOrder, Pass
<1> QED
  BY <1>1, <1>2, <1>3, <1>4, <1>5, <1>6, <1>7, <1>8, <1>9 DEF Next, Handle

(* Between two resets the deliver stage gets the packets in the order of   *)
(* their indices, if the network delivers each at most once and only one   *)
(* socket's thread writes first_step_.  The run misorder_duplicate shows   *)
(* what a second delivery does.                                            *)
THEOREM PacketsStayInOrder ==
  ASSUME OneOfEach
  PROVE  Spec => []InOrder
<1>1. Init => IInv
  BY InitIInv
<1>2. IInv /\ [Next]_vars => IInv'
  BY OneOfEach, StepKeeps
<1>3. IInv => InOrder
  BY DEF IInv
<1> QED
  BY <1>1, <1>2, <1>3, PTL DEF Spec

-----------------------------------------------------------------------------
(* TypeOK holds in every environment.  Its bound on the queue needs the    *)
(* sharper one that holds whenever no gap is to be given up.               *)
Sized == /\ TypeOK /\ IsFiniteSet(misorder_que)
         /\ pc # "full" => Cardinality(misorder_que) <= MaxQueue

LEMMA EmptyQueue == IsFiniteSet({}) /\ Cardinality({}) = 0
BY FS_EmptySet

LEMMA OneMore ==
  ASSUME NEW Q, NEW p, IsFiniteSet(Q), Cardinality(Q) <= MaxQueue
  PROVE  IsFiniteSet(Q \cup {p}) /\ Cardinality(Q \cup {p}) <= MaxQueue + 1
<1> DEFINE c == Cardinality(Q)
           d == Cardinality(Q \cup {p})
<1>1. IsFiniteSet(Q \cup {p}) /\ (d = c \/ d = c + 1)
  BY FS_AddElement
<1>2. c \in Nat /\ c <= MaxQueue /\ MaxQueue \in Nat
  BY FS_CardinalityType, ConstantAssumption
<1> HIDE DEF c, d
<1>3. d <= MaxQueue + 1
  BY <1>1, <1>2
<1> QED
  BY <1>1, <1>3 DEF d

LEMMA OneLess ==
  ASSUME NEW Q, NEW p \in Q, IsFiniteSet(Q), Cardinality(Q) <= MaxQueue + 1
  PROVE  IsFiniteSet(Q \ {p}) /\ Cardinality(Q \ {p}) <= MaxQueue
<1> DEFINE c == Cardinality(Q)
           d == Cardinality(Q \ {p})
<1>1. IsFiniteSet(Q \ {p}) /\ d = c - 1
  BY FS_RemoveElement
<1>2. c \in Nat /\ c <= MaxQueue + 1 /\ MaxQueue \in Nat
  BY FS_CardinalityType, ConstantAssumption
<1> HIDE DEF c, d
<1>3. d <= MaxQueue
  BY <1>1, <1>2
<1> QED
  BY <1>1, <1>3 DEF d

LEMMA InitSized == Init => Sized
BY EmptyQueue, ConstantAssumption DEF Init, Sized, TypeOK, Positions

LEMMA StepSized ==
  ASSUME Sized, [Next]_vars
  PROVE  Sized'
<1> USE DEF Sized, TypeOK
<1>1. ASSUME NEW p \in Packets, Receive(p) PROVE Sized'
  <2>1. IsFiniteSet(misorder_que') /\ Cardinality(misorder_que') <= MaxQueue
    <3>1. CASE first_step \/ JumpsTooFar(p)
      <4>1. misorder_que' = {}
        BY <1>1, <3>1 DEF Receive, FreeCached
      <4> QED
        BY <4>1, EmptyQueue, ConstantAssumption
    <3>2. CASE ~(first_step \/ JumpsTooFar(p))
      BY <1>1, <3>2 DEF Receive
    <3> QED
      BY <3>1, <3>2
  <2>2. Cardinality(misorder_que') \in Nat
    BY <2>1, FS_CardinalityType
  <2>3. Cardinality(misorder_que') <= MaxQueue + 1
    BY <2>1, <2>2, ConstantAssumption
  <2> QED
    BY <1>1, <2>1, <2>3, NoneAssumption DEF Receive, FreeCached
<1>2. CASE Accept
  <2>1. data_packet \in Packets
    BY <1>2 DEF Accept
  <2>2. expected' \in Positions /\ stream' \in Seq(Packets)
    BY <1>2, <2>1, NextIsAfter DEF Accept
  <2> QED
    BY <1>2, <2>1, <2>2 DEF Accept
<1>3. CASE Keep
  <2>1. data_packet \in Packets /\ Cardinality(misorder_que) <= MaxQueue
    BY <1>3 DEF Keep
  <2>2. IsFiniteSet(misorder_que') /\ Cardinality(misorder_que') <= MaxQueue + 1
    BY <1>3, <2>1, OneMore DEF Keep
  <2>3. Cardinality(misorder_que') \in Nat
    BY <2>2, FS_CardinalityType
  <2> QED
    BY <1>3, <2>1, <2>2, <2>3, ConstantAssumption DEF Keep, AfterKeeping
<1>4. CASE DropUnexpected
  <2>1. data_packet \in Packets /\ Cardinality(misorder_que) \in Nat
    BY <1>4, FS_CardinalityType DEF DropUnexpected
  <2> QED
    BY <1>4, <2>1, ConstantAssumption DEF DropUnexpected, AfterKeeping
<1>5. ASSUME NEW p \in Tops, pc' = "draining", misorder_que' = misorder_que \ {p}, Deliver(p),
             UNCHANGED <<data_packet, first_step, freed, late, arrived, restarts>>,
             pc # "tested"
      PROVE  Sized'
  <2>1. p \in misorder_que /\ p \in Packets
    BY DEF Tops
  <2>2. IsFiniteSet(misorder_que') /\ Cardinality(misorder_que') <= MaxQueue
    BY <1>5, <2>1, OneLess
  <2>3. Cardinality(misorder_que') \in Nat
    BY <2>2, FS_CardinalityType
  <2>4. expected' \in Positions /\ stream' \in Seq(Packets)
    BY <1>5, <2>1, NextIsAfter DEF Deliver
  <2> QED
    BY <1>5, <2>1, <2>2, <2>3, <2>4, ConstantAssumption DEF Deliver
<1>6. CASE GiveUpGap
  BY <1>5, <1>6 DEF GiveUpGap
<1>7. CASE Drain
  BY <1>5, <1>7 DEF Drain
<1>8. CASE DrainEnds
  BY <1>8 DEF DrainEnds
<1>9. CASE Timeout \/ Rewind
  <2>1. restarts' \in 0..MaxRestarts
    BY <1>9, ConstantAssumption DEF Timeout, Rewind
  <2>2. CASE Timeout
    BY <2>1, <2>2 DEF Timeout
  <2>3. CASE Rewind
    <3>1. Cardinality(misorder_que') = 0 /\ IsFiniteSet(misorder_que')
      BY <2>3, EmptyQueue DEF Rewind, FreeCached
    <3> QED
      BY <2>1, <2>3, <3>1, ConstantAssumption DEF Rewind, FreeCached
  <2> QED
    BY <1>9, <2>2, <2>3
<1>10. CASE UNCHANGED vars
  BY <1>10 DEF vars
<1> QED
  BY <1>1, <1>2, <1>3, <1>4, <1>6, <1>7, <1>8, <1>9, <1>10 DEF Next, Handle

(* The state is well typed, and the queue of waiting packets never grows   *)
(* beyond one more than max_q_len_.                                        *)
THEOREM TypeCorrect == Spec => []TypeOK
<1>1. Init => Sized
  BY InitSized
<1>2. Sized /\ [Next]_vars => Sized'
  BY StepSized
<1>3. Sized => TypeOK
  BY DEF Sized
<1> QED
  BY <1>1, <1>2, <1>3, PTL DEF Spec

-----------------------------------------------------------------------------
(* Outside the draining loop no packet waits at the expected position.     *)
Settled == pc # "draining" => \A p \in misorder_que : Before(expected, p)

LEMMA StepSettled ==
  ASSUME OneOfEach, IInv, Settled, [Next]_vars
  PROVE  Settled'
<1>1. CASE DrainEnds
  <2>1. ASSUME NEW p \in misorder_que PROVE Before(expected, p)
    <3>1. p \in Packets /\ expected \in Positions /\ ~Before(p, expected)
      BY DEF IInv, Typed, Separated
    <3>2. ASSUME SamePosition(p, expected) PROVE FALSE
      BY <1>1, <3>2 DEF DrainEnds, Tops, SamePosition, Before, IInv, Separated
    <3> QED
      BY <3>1, <3>2, PositionOfPacket DEF SamePosition, Before, Positions
  <2> QED
    BY <1>1, <2>1 DEF DrainEnds, Settled
<1>2. CASE (\E p \in Packets : Receive(p)) \/ Timeout \/ Rewind
  BY <1>2 DEF Settled, Receive, Timeout, Rewind, FreeCached, OneOfEach
<1>3. CASE Accept \/ GiveUpGap \/ Drain
  BY <1>3 DEF Settled, Accept, GiveUpGap, Drain
<1>4. CASE Keep \/ DropUnexpected
  BY <1>4 DEF Settled, Keep, DropUnexpected
<1>5. CASE UNCHANGED vars
  BY <1>5 DEF Settled, vars
<1> QED
  BY <1>1, <1>2, <1>3, <1>4, <1>5 DEF Next, Handle

(* When the handler returns nothing waits that could be handed on: every   *)
(* packet in the queue is after the expected one, and the queue is not     *)
(* over its limit.                                                         *)
THEOREM NothingWaitsInVain ==
  ASSUME OneOfEach
  PROVE  Spec => []WaitsOnlyForGap
<1> DEFINE I == Sized /\ IInv /\ Settled
<1>1. Init => I
  BY InitSized, InitIInv DEF Init, Settled
<1>2. I /\ [Next]_vars => I'
  BY OneOfEach, StepSized, StepKeeps, StepSettled
<1>3. I => WaitsOnlyForGap
  <2> SUFFICES ASSUME I, pc = "idle" PROVE ~Full /\ \A p \in misorder_que : Before(expected, p)
    BY DEF WaitsOnlyForGap
  <2>1. Cardinality(misorder_que) \in Nat /\ Cardinality(misorder_que) <= MaxQueue
    BY FS_CardinalityType DEF Sized
  <2> QED
    BY <2>1, ConstantAssumption DEF Full, Settled
<1> QED
  BY <1>1, <1>2, <1>3, PTL DEF Spec

-----------------------------------------------------------------------------
(* BuffersAccounted, in any environment: a packet comes once, and each     *)
(* step moves it from one place to the next.                               *)
InHand == {data_packet} \ {None}

Accounted ==
  /\ arrived = InHand \cup misorder_que \cup sent \cup freed
  /\ InHand \cap (misorder_que \cup sent \cup freed) = {}
  /\ misorder_que \cap (sent \cup freed) = {}
  /\ sent \cap freed = {}

AccountInv == Accounted /\ (pc = "tested" <=> data_packet # None)

LEMMA StepAccounted ==
  ASSUME AccountInv, [Next]_vars
  PROVE  AccountInv'
<1> USE DEF AccountInv, Accounted, InHand
<1>1. ASSUME NEW p \in Packets, Receive(p) PROVE AccountInv'
  <2>1. p # None /\ p \notin arrived /\ data_packet = None /\ data_packet' = p /\ pc' = "tested"
        /\ arrived' = arrived \cup {p} /\ sent' = sent
    BY <1>1, NoneAssumption DEF Receive
  <2>2. \/ misorder_que' = {} /\ freed' = freed \cup misorder_que
        \/ misorder_que' = misorder_que /\ freed' = freed
    BY <1>1 DEF Receive, FreeCached
  <2> QED
    BY <2>1, <2>2
<1>2. CASE Accept
  <2>1. data_packet # None /\ data_packet' = None /\ pc' = "draining" /\ sent' = sent \cup {data_packet}
        /\ UNCHANGED <<misorder_que, freed, arrived>>
    BY <1>2 DEF Accept
  <2> QED
    BY <2>1
<1>3. CASE Keep
  <2>1. data_packet # None /\ data_packet' = None /\ pc' # "tested"
        /\ misorder_que' = misorder_que \cup {data_packet} /\ UNCHANGED <<sent, freed, arrived>>
    BY <1>3 DEF Keep, AfterKeeping
  <2> QED
    BY <2>1
<1>4. CASE DropUnexpected
  <2>1. data_packet # None /\ data_packet' = None /\ pc' # "tested"
        /\ freed' = freed \cup {data_packet} /\ UNCHANGED <<sent, misorder_que, arrived>>
    BY <1>4 DEF DropUnexpected, AfterKeeping
  <2> QED
    BY <2>1
<1>5. CASE GiveUpGap \/ Drain
  <2>1. PICK p \in misorder_que : misorder_que' = misorder_que \ {p} /\ sent' = sent \cup {p}
    BY <1>5 DEF GiveUpGap, Drain, Deliver, Tops
  <2>2. pc # "tested" /\ pc' # "tested" /\ UNCHANGED <<data_packet, freed, arrived>>
    BY <1>5 DEF GiveUpGap, Drain
  <2> QED
    BY <2>1, <2>2
<1>6. CASE DrainEnds \/ Timeout \/ UNCHANGED vars
  BY <1>6 DEF DrainEnds, Timeout, vars
<1>7. CASE Rewind
  BY <1>7 DEF Rewind, FreeCached
<1> QED
  BY <1>1, <1>2, <1>3, <1>4, <1>5, <1>6, <1>7 DEF Next, Handle

(* Every buffer the stage received is in hand, waits, was handed on or was *)
(* freed, and only one of these, in any environment: resets, timeouts,     *)
(* other sockets and repeated packets included.                            *)
THEOREM NoBufferIsLost == Spec => []BuffersAccounted
<1>1. Init => AccountInv
  BY DEF Init, AccountInv, Accounted, InHand
<1>2. AccountInv /\ [Next]_vars => AccountInv'
  BY StepAccounted
<1>3. AccountInv => BuffersAccounted
  BY DEF AccountInv, Accounted, InHand, BuffersAccounted
<1> QED
  BY <1>1, <1>2, <1>3, PTL DEF Spec

-----------------------------------------------------------------------------
(* LateOnlyBeyondWindow.  Unless a reset is due, a packet before the       *)
(* expected position that was not handed on lies before the packet the     *)
(* stage started from, or more than max_q_len_ packets that follow it came *)
(* first.  Giving up a gap is what makes it so: the queue is full then.    *)
SentOrWaits == sent \cup misorder_que
After(p)    == {q \in SentOrWaits : Before(p, q)}
Beyond(p)   == Before(p, stream[1]) \/ Cardinality(After(p)) > MaxQueue

StreamBegun == stream = <<>> =>
           first_step /\ late = {} /\ pc \in {"idle", "tested"} /\ misorder_que = {}

GapInv ==
  /\ IsFiniteSet(arrived) /\ arrived \subseteq Packets /\ late \subseteq Packets
  /\ StreamBegun
  /\ pc = "full" => Full
  /\ \A p \in late : Beyond(p)
  /\ ~first_step =>
       \A p \in Packets : p.copy = Pass /\ p \notin sent /\ Before(p, expected) => Beyond(p)

LEMMA MoreAfter ==
  ASSUME NEW S, NEW T, IsFiniteSet(T), S \subseteq T, Cardinality(S) > MaxQueue
  PROVE  Cardinality(T) > MaxQueue
<1>1. IsFiniteSet(S) /\ Cardinality(S) <= Cardinality(T)
  BY FS_Subset
<1>2. Cardinality(S) \in Nat /\ Cardinality(T) \in Nat /\ MaxQueue \in Nat
  BY <1>1, FS_CardinalityType, ConstantAssumption
<1> DEFINE c == Cardinality(S)
           d == Cardinality(T)
<1> HIDE DEF c, d
<1>3. c \in Nat /\ d \in Nat /\ c <= d /\ c > MaxQueue /\ MaxQueue \in Nat => d > MaxQueue
  OBVIOUS
<1> QED
  BY <1>1, <1>2, <1>3 DEF c, d

(* What is beyond stays so while packets come and are handed on.           *)
LEMMA BeyondStays ==
  ASSUME IsFiniteSet(arrived'), SentOrWaits' \subseteq arrived', SentOrWaits \subseteq SentOrWaits',
         stream \in Seq(Packets), stream # <<>>,
         stream' = stream \/ (\E q \in Packets : stream' = Append(stream, q)),
         NEW p \in Packets, Beyond(p)
  PROVE  Beyond(p)'
<1>1. stream'[1] = stream[1]
  OBVIOUS
<1>2. CASE Before(p, stream[1])
  BY <1>1, <1>2 DEF Beyond
<1>3. CASE Cardinality(After(p)) > MaxQueue
  <2>1. After(p) \subseteq After(p)' /\ After(p)' \subseteq arrived'
    BY DEF After
  <2>2. IsFiniteSet(After(p)')
    BY <2>1, FS_Subset
  <2>3. Cardinality(After(p)') > MaxQueue
    BY <1>3, <2>1, <2>2, MoreAfter
  <2> QED
    BY <2>3 DEF Beyond
<1> QED
  BY <1>2, <1>3 DEF Beyond

LEMMA StepGap ==
  ASSUME OneOfEach, IInv, Sized, AccountInv, AccountInv', GapInv, [Next]_vars
  PROVE  GapInv'
<1>1. /\ stream \in Seq(Packets) /\ misorder_que \subseteq Packets /\ expected \in Positions
      /\ data_packet \in Packets \cup {None} /\ IsFiniteSet(misorder_que)
      /\ SentOrWaits \subseteq arrived /\ SentOrWaits' \subseteq arrived'
  BY DEF IInv, Typed, Sized, AccountInv, Accounted, SentOrWaits
<1>2. ASSUME NEW r \in Packets, NEW p \in Packets, r # p, r.copy = p.copy, Before(r, NextExpected(p))
      PROVE  Before(r, p)
  BY <1>2, NothingBetween, Total
<1>3. stream = <<>> => first_step /\ late = {} /\ pc \in {"idle", "tested"} /\ misorder_que = {}
  BY DEF GapInv, StreamBegun
<1>4. ASSUME arrived' = arrived, SentOrWaits \subseteq SentOrWaits', stream # <<>>,
             stream' = stream \/ (\E q \in Packets : stream' = Append(stream, q)),
             NEW p \in Packets, Beyond(p)
      PROVE  Beyond(p)'
  BY <1>1, <1>4, BeyondStays DEF GapInv
<1>5. ASSUME NEW p \in Packets, Receive(p) PROVE GapInv'
  <2>1. IsFiniteSet(arrived') /\ arrived' \subseteq Packets
    BY <1>5, FS_AddElement DEF Receive, GapInv
  <2>2. pc' = "tested" /\ stream' = stream /\ Pass' = Pass /\ sent' = sent /\ expected' = expected
    BY <1>5 DEF Receive, Pass
  <2>3. CASE first_step \/ JumpsTooFar(p)
    BY <1>5, <2>1, <2>2, <2>3 DEF Receive, FreeCached, GapInv, StreamBegun
  <2>4. CASE ~(first_step \/ JumpsTooFar(p))
    <3>1. UNCHANGED <<misorder_que, first_step, late>> /\ stream # <<>> /\ SentOrWaits' = SentOrWaits
      BY <1>3, <1>5, <2>2, <2>4 DEF Receive, SentOrWaits
    <3>2. \A r \in Packets : Beyond(r) => Beyond(r)'
      BY <1>1, <2>1, <2>2, <3>1, BeyondStays
    <3> QED
      BY <2>1, <2>2, <3>1, <3>2 DEF GapInv, StreamBegun
  <2> QED
    BY <2>3, <2>4
<1>6. CASE Accept
  <2> DEFINE p == data_packet
  <2>1. p \in Packets /\ p.copy = Pass /\ Pass' = Pass /\ sent' = sent \cup {p} /\ pc' = "draining"
        /\ expected' = NextExpected(p) /\ arrived' = arrived /\ first_step' = FALSE
        /\ misorder_que' = misorder_que
    BY <1>6, <1>1 DEF Accept, Pass, IInv, Typed, OfThisPass
  <2>2. \A r \in Packets : r.copy = Pass /\ r \notin sent' /\ Before(r, expected') => Before(r, p)
    BY <2>1, <1>2
  <2>3. CASE first_step
    <3>1. stream' = <<p>> /\ late' = {}
      BY <1>6, <2>3 DEF Accept
    <3>2. \A r \in Packets : Before(r, p) => Beyond(r)'
      BY <3>1 DEF Beyond
    <3>3. stream' # <<>>
      BY <3>1
    <3> QED
      BY <2>1, <2>2, <3>1, <3>2, <3>3 DEF GapInv, StreamBegun
  <2>4. CASE ~first_step
    <3>1. stream' = Append(stream, p) /\ late' = late /\ SamePosition(p, expected) /\ stream # <<>>
      BY <1>3, <1>6, <2>4 DEF Accept, IsExpected
    <3>2. \A r \in Packets : Before(r, p) => Before(r, expected)
      BY <3>1 DEF SamePosition, Before
    <3>3. \A r \in Packets : Beyond(r) => Beyond(r)'
      BY <1>4, <2>1, <3>1 DEF SentOrWaits
    <3>4. stream' # <<>>
      BY <3>1, <1>1, <2>1
    <3> QED
      BY <2>1, <2>2, <2>4, <3>1, <3>2, <3>3, <3>4 DEF GapInv, StreamBegun
  <2> QED
    BY <2>3, <2>4
<1>7. CASE Keep \/ DropUnexpected
  <2>1. ~first_step /\ stream # <<>> /\ data_packet \in Packets /\ data_packet.copy = Pass
        /\ Pass' = Pass /\ data_packet \notin sent
        /\ UNCHANGED <<first_step, stream, sent, expected, arrived>>
    BY <1>7, <1>1, <1>3
    DEF Keep, DropUnexpected, IsExpected, Pass, IInv, Typed, OfThisPass, AccountInv, Accounted, InHand
  <2>2. misorder_que \subseteq misorder_que' /\ pc' = AfterKeeping
        /\ (late' = late \/ late' = late \cup {data_packet})
        /\ (late' # late => ~Before(expected, data_packet) /\ ~SamePosition(data_packet, expected))
    BY <1>7 DEF Keep, DropUnexpected, IsExpected
  <2>3. pc' = "full" => Full'
    BY <2>2 DEF AfterKeeping, Full
  <2>4. \A r \in Packets : Beyond(r) => Beyond(r)'
    BY <1>4, <2>1, <2>2 DEF SentOrWaits
  <2>5. late' # late => Before(data_packet, expected)
    BY <1>1, <2>1, <2>2, PositionOfPacket DEF Before, SamePosition, Positions
  <2>6. late' # late => Beyond(data_packet)
    BY <2>1, <2>5 DEF GapInv
  <2>7. \A r \in late' : Beyond(r)'
    BY <2>1, <2>2, <2>4, <2>6 DEF GapInv
  <2>8. \A r \in Packets : r.copy = Pass /\ r \notin sent /\ Before(r, expected) => Beyond(r)'
    BY <2>1, <2>4 DEF GapInv
  <2> QED
    BY <2>1, <2>2, <2>3, <2>7, <2>8 DEF GapInv, StreamBegun
<1>8. ASSUME NEW p \in Tops, misorder_que' = misorder_que \ {p}, Deliver(p), pc' = "draining",
             UNCHANGED <<first_step, late, arrived, restarts>>, pc \in {"full", "draining"},
             ~first_step => \A r \in Packets : r.copy = Pass /\ r \notin sent /\ Before(r, p)
                                              => Beyond(r) \/ (pc = "full" /\ Full)
      PROVE  GapInv'
  <2>1. p \in misorder_que /\ p \in Packets /\ p.copy = Pass /\ Pass' = Pass /\ stream # <<>>
    BY <1>1, <1>3, <1>8 DEF Tops, IInv, OfThisPass, Pass
  <2>2. stream' = Append(stream, p) /\ sent' = sent \cup {p} /\ expected' = NextExpected(p)
    BY <1>8 DEF Deliver
  <2>3. SentOrWaits' = SentOrWaits /\ misorder_que \subseteq SentOrWaits
    BY <1>8, <2>1, <2>2 DEF SentOrWaits
  <2>4. \A r \in Packets : Beyond(r) => Beyond(r)'
    BY <1>4, <1>8, <2>1, <2>2, <2>3
  <2>5. \A r \in Packets : r.copy = Pass /\ r \notin sent' /\ Before(r, expected') => Before(r, p)
    BY <1>2, <2>1, <2>2
  <2>6. ASSUME NEW r \in Packets, Before(r, p), Full PROVE Beyond(r)'
    <3>1. \A q \in misorder_que : Before(r, q)
      BY <1>1, <2>1, <2>6, PositionOfPacket, ConstantAssumption, SMTT(30) DEF Tops, Before
    <3>2. misorder_que \subseteq After(r)' /\ After(r)' \subseteq arrived'
      BY <1>1, <2>3, <3>1 DEF After
    <3>3. IsFiniteSet(After(r)')
      BY <1>8, <3>2, FS_Subset DEF GapInv
    <3>4. Cardinality(After(r)') > MaxQueue
      BY <2>6, <3>2, <3>3, MoreAfter DEF Full
    <3> QED
      BY <3>4 DEF Beyond
  <2>7. ~first_step =>
          \A r \in Packets : r.copy = Pass /\ r \notin sent' /\ Before(r, expected') => Beyond(r)'
    BY <1>8, <2>2, <2>4, <2>5, <2>6
  <2>8. \A r \in late : Beyond(r)'
    BY <2>4 DEF GapInv
  <2>9. stream' # <<>>
    BY <1>1, <2>1, <2>2
  <2> QED
    BY <1>8, <2>1, <2>7, <2>8, <2>9 DEF GapInv, StreamBegun
<1>9. CASE GiveUpGap
  BY <1>8, <1>9 DEF GiveUpGap, GapInv
<1>10. CASE Drain
  <2>1. PICK p \in Tops : pc = "draining" /\ SamePosition(p, expected)
                          /\ misorder_que' = misorder_que \ {p} /\ Deliver(p)
                          /\ UNCHANGED <<pc, data_packet, first_step, freed, late, arrived, restarts>>
    BY <1>10 DEF Drain
  <2>2. \A r \in Packets : Before(r, p) => Before(r, expected)
    BY <2>1 DEF SamePosition, Before
  <2>3. ~first_step => \A r \in Packets : r.copy = Pass /\ r \notin sent /\ Before(r, p) => Beyond(r)
    BY <2>2 DEF GapInv
  <2> QED
    BY <1>8, <2>1, <2>3
<1>11. CASE DrainEnds \/ UNCHANGED vars
  BY <1>11 DEF DrainEnds, vars, GapInv, StreamBegun, Full, Beyond, After, SentOrWaits, Pass
<1>12. CASE Timeout
  BY <1>12 DEF Timeout, GapInv, StreamBegun, Full, Beyond, After, SentOrWaits, OneOfEach
<1>13. CASE Rewind
  BY <1>13 DEF Rewind, FreeCached, GapInv, StreamBegun
<1> QED
  BY <1>5, <1>6, <1>7, <1>9, <1>10, <1>11, <1>12, <1>13 DEF Next, Handle

(* A packet is thrown away as unexpected only when it is older than the    *)
(* packet the stage started from, or more than max_q_len_ packets that     *)
(* follow it came before it: for any size of the queue and of the frames.  *)
THEOREM OnlyTheTooLateAreDropped ==
  ASSUME OneOfEach
  PROVE  Spec => []LateOnlyBeyondWindow
<1> DEFINE I == IInv /\ Sized /\ AccountInv /\ GapInv
<1>1. Init => I
  <2>1. Init => GapInv
    BY FS_EmptySet DEF Init, GapInv, StreamBegun
  <2>2. Init => AccountInv
    BY DEF Init, AccountInv, Accounted, InHand
  <2> QED
    BY <2>1, <2>2, InitIInv, InitSized
<1>2. I /\ [Next]_vars => I'
  BY OneOfEach, StepKeeps, StepSized, StepAccounted, StepGap
<1>3. I => LateOnlyBeyondWindow
  <2> SUFFICES ASSUME I, NEW p \in late
               PROVE  \/ Before(p, stream[1])
                      \/ Cardinality({q \in arrived : q \in sent \cup misorder_que /\ Before(p, q)})
                           > MaxQueue
    BY DEF LateOnlyBeyondWindow
  <2>1. {q \in arrived : q \in sent \cup misorder_que /\ Before(p, q)} = After(p)
    BY DEF AccountInv, Accounted, After, SentOrWaits
  <2> QED
    BY <2>1 DEF GapInv, Beyond
<1> QED
  BY <1>1, <1>2, <1>3, PTL DEF Spec

-----------------------------------------------------------------------------
(* The deliver stages.                                                     *)

-----------------------------------------------------------------------------
(* Buffers.                                                                *)
IsPartition(f) ==
  /\ \A i, j \in DOMAIN f : i # j => f[i] \cap f[j] = {}
  /\ UNION {f[i] : i \in DOMAIN f} = Buffers

Distinct  == \A i, j \in DOMAIN deliver : i # j => deliver[i].buf # deliver[j].buf
Distinct2 == \A i, j \in DOMAIN deliver2 : i # j => deliver2[i] # deliver2[j]

(* A queue holds a buffer once; a job that is not handed over owns its     *)
(* buffer; jobs are handed over only to a second stage that is on.         *)
BufferInv ==
  /\ Len(deliver) <= MaxWaiting /\ Len(deliver2) <= MaxWaiting
  /\ Distinct /\ Distinct2 /\ IsPartition(Places)
  /\ job # NoPacket => job.need_free_buffer \/ job.handed
  /\ job # NoPacket /\ job.handed => settings.deliver2
  /\ ~settings.deliver2 => leaked = {} /\ ~stale_read
  /\ crashed => leaked # {}

-----------------------------------------------------------------------------
(* Frames.  Data packets wait in the order in which they were sent, but    *)
(* for the late one, which is of the frame before the one in xyz.          *)
Behind(p)    == p.idx + 1 = last_frame_idx
Ahead(p)     == p.idx >= last_frame_idx /\ \A c \in Came : Before(c, p)
InTurn(p, q) == Before(p, q) \/ (Behind(q) /\ p.idx = last_frame_idx)
Placed(p)    == /\ last_sent # NoPacket /\ ~Before(last_sent, p)
                /\ Ahead(p) \/ (Behind(p) /\ late_sent)

IsData(p) == p.kind = "data"

Line ==
  /\ \A k \in DOMAIN deliver : IsData(deliver[k].pkt) => Placed(deliver[k].pkt)
  /\ \A k, l \in DOMAIN deliver :
       k < l /\ IsData(deliver[k].pkt) /\ IsData(deliver[l].pkt) => InTurn(deliver[k].pkt, deliver[l].pkt)
  /\ job # NoPacket /\ IsData(job.pkt) =>
       /\ Placed(job.pkt)
       /\ \A k \in DOMAIN deliver : IsData(deliver[k].pkt) => InTurn(job.pkt, deliver[k].pkt)

LineInv == settings.callback = "xyz_frame" => Line

(* What was collected came, and is not ahead of the frame in xyz.          *)
CollectedInv ==
  /\ \A c \in Came : c.idx <= last_frame_idx
  /\ last_frame_idx # 0 => \E c \in Came : c.idx = last_frame_idx
  /\ last_sent = NoPacket => last_frame_idx = 0 /\ Came = {}
  /\ last_sent # NoPacket =>
       last_frame_idx <= last_sent.idx /\ \A c \in Came : ~Before(last_sent, c)

(* The frame f has the index n and what came of it, in order.              *)
FrameType == [idx : 0..MaxIdx \cup {NoPacket}, is_last_sub_frame : BOOLEAN, packets : Seq(Data)]

FrameOf(f, n, came) ==
  /\ f \in FrameType /\ Index(f) = n /\ f.idx = (IF n = 0 THEN NoPacket ELSE n)
  /\ {f.packets[k] : k \in DOMAIN f.packets} = {p \in came : p.idx = n}
  /\ \A k, l \in DOMAIN f.packets : k < l => f.packets[k].sub < f.packets[l].sub

LastIn(came, n) == \E p \in came : p.idx = n /\ IsLastSubFrame(p)

(* The frames fs are whole, and in order, and none is behind top.          *)
WholeUpTo(fs, top, came) ==
  /\ fs \in Seq(FrameType)
  /\ \A i \in DOMAIN fs : \E n \in 0..top : FrameOf(fs[i], n, came)
  /\ \A i, j \in DOMAIN fs : i < j => Index(fs[i]) < Index(fs[j])

Due(n, came) ==
  (\E p \in came : p.idx = n) /\ (LastIn(came, n) \/ (n # 0 /\ \E p \in came : p.idx = n + 1))

Indices(fs) == {Index(fs[i]) : i \in DOMAIN fs}

(* The frame in xyz is open until its last packet comes; until then the    *)
(* ones that were delivered are before it.                                 *)
FrameInv ==
  LET ended == LastIn(Came, last_frame_idx)
  IN  /\ FrameOf(xyz, last_frame_idx, Came)
      /\ ended => xyz.is_last_sub_frame
      /\ last_frame_idx # 0 /\ xyz.is_last_sub_frame => ended
      /\ WholeUpTo(frames, IF ended THEN last_frame_idx ELSE last_frame_idx - 1, Came)
      /\ \A n \in 0..MaxIdx : Due(n, Came) => n \in Indices(frames)

FramesInv == LineInv /\ CollectedInv /\ FrameInv

-----------------------------------------------------------------------------
(* Types.                                                                  *)
LEMMA DataFields ==
  ASSUME StagesAssumption
  PROVE  /\ \A p \in Data : p.kind = "data" /\ p.idx \in 0..MaxIdx /\ p.sub \in 1..MaxSubIdx
         /\ \A p \in Controls : p.kind # "data" /\ (p.kind = "status" => p.mode \in Modes)
  BY DEF StagesAssumption, Data, Controls

LEMMA JobFields ==
  \A x \in Jobs : /\ x.buf \in Buffers /\ x.pkt \in Data \cup Controls /\ x.need_free_buffer \in BOOLEAN
                  /\ x.handed \in BOOLEAN /\ x.given \in Buffers \cup {NoPacket}
  BY DEF Jobs

LEMMA UnitOfPool == pool # {} => Unit \in pool
  BY DEF Unit

Waiting == [buf : Buffers, pkt : Data \cup Controls]

LEMMA TypesInit == StagesAssumption /\ StagesInit => StagesTypeOK
  <1>1. 0 \in 0..MaxIdx \/ ~StagesAssumption
    BY DEF StagesAssumption
  <1>2. <<>> \in Seq(Data) /\ <<>> \in Seq(Buffers) /\ <<>> \in Seq([buf : Buffers, pkt : Data \cup Controls])
    BY EmptySeq
  <1> QED BY <1>1, <1>2 DEF StagesInit, StagesTypeOK, StagesAssumption

LEMMA TypesStep ==
  ASSUME StagesAssumption, StagesTypeOK, [StagesNext]_stagesVars
  PROVE  StagesTypeOK'
  <1> USE DEF StagesTypeOK, inputVars, frameVars, controlVars, secondVars, bufferVars
  <1>1. ASSUME NEW p \in Data \cup Controls, AddDeliverJob(p) PROVE StagesTypeOK'
    <2>1. Unit \in Buffers
      BY <1>1, UnitOfPool DEF AddDeliverJob
    <2>2. deliver' \in Seq([buf : Buffers, pkt : Data \cup Controls]) /\ pool' \subseteq Buffers
      BY <1>1, <2>1, AppendProperties DEF AddDeliverJob
    <2>3. last_sent' \in Data \cup {NoPacket} /\ late_sent' \in BOOLEAN
      BY <1>1, DataFields DEF AddDeliverJob, Send
    <2> QED BY <1>1, <2>2, <2>3 DEF AddDeliverJob
  <1>2. CASE TakeJob
    <2>1. Head(deliver) \in [buf : Buffers, pkt : Data \cup Controls]
          /\ Tail(deliver) \in Seq([buf : Buffers, pkt : Data \cup Controls])
      BY <1>2, HeadTailProperties DEF TakeJob
    <2>2. job' \in Jobs
      BY <1>2, <2>1 DEF TakeJob, Jobs
    <2> QED BY <1>2, <2>1, <2>2 DEF TakeJob
  <1>3. CASE DropJob \/ CallBackPacket
    BY <1>3, JobFields DEF DropJob, CallBackPacket, Working, FreeJob, DataJob
  <1>4. CASE ProcessControl
    <2>1. job \in Jobs /\ job.pkt \in Controls
      BY <1>4, JobFields, DataFields DEF ProcessControl, Working
    <2>2. cur_lidar_mode' \in Modes /\ ring_id_table' \in Modes \cup {NoPacket}
      BY <1>4, <2>1, DataFields DEF ProcessControl, TableAfterStatus
    <2> QED BY <1>4, <2>1, <2>2, JobFields DEF ProcessControl, FreeJob
  <1>5. CASE HandOverPacket
    <2>1. job \in Jobs /\ job.buf \in Buffers
      BY <1>5, JobFields DEF HandOverPacket, DataJob, Working
    <2>2. job' \in Jobs
      BY <1>5, <2>1 DEF HandOverPacket, GivenAway, Jobs
    <2>3. deliver2' \in Seq(Buffers)
      BY <1>5, <2>1, AppendProperties DEF HandOverPacket, AddDeliver2Job
    <2> QED BY <1>5, <2>2, <2>3 DEF HandOverPacket, AddDeliver2Job
  <1>6. CASE HandOverXyz
    <2>1. job \in Jobs /\ Unit \in Buffers
      BY <1>6, UnitOfPool DEF HandOverXyz, DataJob, Working
    <2>2. job' \in Jobs
      BY <1>6, <2>1 DEF HandOverXyz, Jobs
    <2>3. \/ deliver2' = Append(deliver2, Unit) /\ job2' = job2 /\ leaked' = leaked
          \/ deliver2' = deliver2 /\ job2' = job2 /\ leaked' = leaked \cup {Unit}
      BY <1>6, Zenon DEF HandOverXyz, AddDeliver2Job
    <2>4. Append(deliver2, Unit) \in Seq(Buffers)
      BY <2>1, AppendProperties
    <2>5. deliver2' \in Seq(Buffers) /\ leaked' \subseteq Buffers /\ job2' = job2
      BY <2>1, <2>3, <2>4
    <2> QED BY <1>6, <2>2, <2>5 DEF HandOverXyz
  <1>7. CASE ConvertIntoNothing
    BY <1>7 DEF ConvertIntoNothing
  <1>8. CASE FinishHandedOver
    <2>1. stale_read' \in BOOLEAN
      BY <1>8, Zenon DEF FinishHandedOver
    <2> QED BY <1>8, <2>1, JobFields DEF FinishHandedOver
  <1>9. CASE TakeJob2
    BY <1>9, HeadTailProperties DEF TakeJob2
  <1>10. CASE ProcessJob2
    BY <1>10 DEF ProcessJob2
  <1>11. CASE CollectIntoFrame
    <2>1. job \in Jobs /\ job.pkt \in Data
      BY <1>11, JobFields, DataFields DEF CollectIntoFrame, DataJob, Working
    <2>2. \/ collected' = collected /\ last_frame_idx' = last_frame_idx
          \/ collected' = Append(collected, job.pkt) /\ last_frame_idx' = job.pkt.idx
      BY <1>11, Zenon DEF CollectIntoFrame
    <2>3. Append(collected, job.pkt) \in Seq(Data) /\ job.pkt.idx \in 0..MaxIdx
      BY <2>1, DataFields, AppendProperties
    <2>4. collected' \in Seq(Data) /\ last_frame_idx' \in 0..MaxIdx
      BY <2>2, <2>3
    <2> QED BY <1>11, <2>1, <2>4, JobFields DEF CollectIntoFrame, FreeJob
  <1>12. CASE UNCHANGED stagesVars
    BY <1>12 DEF stagesVars
  <1> QED BY <1>1, <1>2, <1>3, <1>4, <1>5, <1>6, <1>7, <1>8, <1>9, <1>10, <1>11, <1>12 DEF StagesNext, Running


-----------------------------------------------------------------------------
(* A buffer that goes from one place to another leaves the pool as it was. *)
LEMMA Moves ==
  ASSUME NEW f \in [1..6 -> SUBSET Buffers], NEW g, DOMAIN g = 1..6,
         NEW x \in 1..6, NEW y \in 1..6, x # y, NEW b \in f[x], IsPartition(f),
         g[x] = f[x] \ {b}, g[y] = f[y] \cup {b}, \A z \in (1..6) \ {x, y} : g[z] = f[z]
  PROVE  IsPartition(g)
  <1>1. \A z \in 1..6 : z # x => b \notin f[z]
    BY DEF IsPartition
  <1>2. \A c : c # b => \A z \in 1..6 : c \in g[z] <=> c \in f[z]
    OBVIOUS
  <1>3. \A z \in 1..6 : b \in g[z] <=> z = y
    BY <1>1
  <1>4. ASSUME NEW i \in 1..6, NEW j \in 1..6, i # j PROVE g[i] \cap g[j] = {}
    <2>1. ASSUME NEW c, c \in g[i], c \in g[j] PROVE FALSE
      <3>1. c # b
        BY <1>3, <1>4, <2>1
      <3>2. c \in f[i] /\ c \in f[j]
        BY <1>2, <2>1, <3>1
      <3> QED BY <1>4, <3>2 DEF IsPartition
    <2> QED BY <2>1
  <1>5. UNION {g[i] : i \in 1..6} = Buffers
    <2>1. ASSUME NEW c \in Buffers PROVE \E z \in 1..6 : c \in g[z]
      <3>1. CASE c = b
        BY <1>3, <3>1
      <3>2. CASE c # b
        <4>1. PICK z \in 1..6 : c \in f[z]
          BY DEF IsPartition
        <4> QED BY <1>2, <3>2, <4>1
      <3> QED BY <3>1, <3>2
    <2>2. ASSUME NEW z \in 1..6, NEW c \in g[z] PROVE c \in Buffers
      <3>1. c = b \/ c \in f[z]
        BY <1>2
      <3> QED BY <3>1
    <2> QED BY <2>1, <2>2
  <1> QED BY <1>4, <1>5 DEF IsPartition

LEMMA PlacesAre ==
  /\ DOMAIN Places = 1..6 /\ Places[1] = pool /\ Places[2] = Queued /\ Places[3] = Queued2
  /\ Places[4] = Held /\ Places[5] = Held2 /\ Places[6] = leaked
  BY DEF Places

LEMMA PlacesAreNext ==
  /\ DOMAIN Places' = 1..6 /\ Places'[1] = pool' /\ Places'[2] = Queued' /\ Places'[3] = Queued2'
  /\ Places'[4] = Held' /\ Places'[5] = Held2' /\ Places'[6] = leaked'
  BY DEF Places

LEMMA PlacesType ==
  ASSUME StagesTypeOK
  PROVE  Places \in [1..6 -> SUBSET Buffers]
  <1>1. \A i \in DOMAIN deliver : deliver[i] \in [buf : Buffers, pkt : Data \cup Controls]
    BY LenProperties, ElementOfSeq DEF StagesTypeOK
  <1>2. Queued \subseteq Buffers
    BY <1>1 DEF Queued
  <1>3. \A i \in DOMAIN deliver2 : deliver2[i] \in Buffers
    BY LenProperties, ElementOfSeq DEF StagesTypeOK
  <1>4. Queued2 \subseteq Buffers
    BY <1>3 DEF Queued2
  <1>5. Held \subseteq Buffers /\ Held2 \subseteq Buffers
    BY JobFields DEF Held, Held2, StagesTypeOK
  <1> QED BY <1>2, <1>4, <1>5 DEF Places, StagesTypeOK

LEMMA Enqueued ==
  ASSUME StagesTypeOK, NEW x \in Waiting, deliver' = Append(deliver, x)
  PROVE  Queued' = Queued \cup {x.buf} /\ (Distinct /\ x.buf \notin Queued => Distinct')
         /\ Len(deliver') = Len(deliver) + 1
  <1> DEFINE n == Len(deliver)
  <1>1. /\ n \in Nat /\ DOMAIN deliver = 1..n /\ DOMAIN deliver' = 1..(n + 1) /\ Len(deliver') = n + 1
        /\ deliver'[n + 1] = x /\ \A i \in 1..n : deliver'[i] = deliver[i]
    BY LenProperties, AppendProperties DEF StagesTypeOK, Waiting
  <1> HIDE DEF n
  <1>2. \A i : i \in 1..(n + 1) <=> i = n + 1 \/ i \in 1..n
    BY <1>1
  <1>3. Queued' = Queued \cup {x.buf}
    BY <1>1, <1>2 DEF Queued
  <1>4. Distinct /\ x.buf \notin Queued => Distinct'
    BY <1>1, <1>2 DEF Queued, Distinct
  <1> QED BY <1>1, <1>3, <1>4 DEF n

LEMMA Enqueued2 ==
  ASSUME StagesTypeOK, NEW x \in Buffers, deliver2' = Append(deliver2, x)
  PROVE  Queued2' = Queued2 \cup {x} /\ (Distinct2 /\ x \notin Queued2 => Distinct2')
         /\ Len(deliver2') = Len(deliver2) + 1
  <1> DEFINE n == Len(deliver2)
  <1>1. /\ n \in Nat /\ DOMAIN deliver2 = 1..n /\ DOMAIN deliver2' = 1..(n + 1) /\ Len(deliver2') = n + 1
        /\ deliver2'[n + 1] = x /\ \A i \in 1..n : deliver2'[i] = deliver2[i]
    BY LenProperties, AppendProperties DEF StagesTypeOK
  <1> HIDE DEF n
  <1>2. \A i : i \in 1..(n + 1) <=> i = n + 1 \/ i \in 1..n
    BY <1>1
  <1>3. Queued2' = Queued2 \cup {x}
    BY <1>1, <1>2 DEF Queued2
  <1>4. Distinct2 /\ x \notin Queued2 => Distinct2'
    BY <1>1, <1>2 DEF Queued2, Distinct2
  <1> QED BY <1>1, <1>3, <1>4 DEF n

LEMMA Dequeued ==
  ASSUME StagesTypeOK, Distinct, deliver # <<>>, deliver' = Tail(deliver)
  PROVE  /\ Queued' = Queued \ {Head(deliver).buf} /\ Head(deliver).buf \in Queued /\ Distinct'
         /\ Len(deliver') = Len(deliver) - 1
  <1> DEFINE n == Len(deliver)
  <1>1. /\ n \in Nat \ {0} /\ DOMAIN deliver = 1..n /\ DOMAIN deliver' = 1..(n - 1) /\ Len(deliver') = n - 1
        /\ Head(deliver) = deliver[1] /\ \A i \in 1..(n - 1) : deliver'[i] = deliver[i + 1]
    BY LenProperties, HeadTailProperties, EmptySeq DEF StagesTypeOK
  <1> HIDE DEF n
  <1>2. \A i : i \in 1..n <=> i = 1 \/ \E j \in 1..(n - 1) : i = j + 1
    <2>1. \A i \in 1..n : i = 1 \/ (i - 1 \in 1..(n - 1) /\ i = (i - 1) + 1)
      BY <1>1
    <2>2. \A j \in 1..(n - 1) : j + 1 \in 1..n
      BY <1>1
    <2> QED BY <1>1, <2>1, <2>2
  <1>3. \A j \in 1..(n - 1) : j + 1 \in 1..n /\ 1 # j + 1 /\ 1 \in 1..n
    BY <1>1
  <1>4. \A b : b \in Queued <=> b = deliver[1].buf \/ \E j \in 1..(n - 1) : b = deliver[j + 1].buf
    BY <1>1, <1>2 DEF Queued
  <1>5. \A b : b \in Queued' <=> \E j \in 1..(n - 1) : b = deliver[j + 1].buf
    <2>1. Queued' = {deliver'[j].buf : j \in 1..(n - 1)}
      BY <1>1 DEF Queued
    <2> QED BY <1>1, <2>1
  <1>6. \A j \in 1..(n - 1) : deliver[j + 1].buf # deliver[1].buf
    BY <1>1, <1>3 DEF Distinct
  <1>7. Queued' = Queued \ {Head(deliver).buf} /\ Head(deliver).buf \in Queued
    BY <1>1, <1>4, <1>5, <1>6
  <1>8. Distinct'
    <2>1. \A i, j \in 1..(n - 1) : i # j => i + 1 # j + 1
      BY <1>1
    <2> QED BY <1>1, <1>3, <2>1 DEF Distinct
  <1> QED BY <1>1, <1>7, <1>8 DEF n

LEMMA Dequeued2 ==
  ASSUME StagesTypeOK, Distinct2, deliver2 # <<>>, deliver2' = Tail(deliver2)
  PROVE  /\ Queued2' = Queued2 \ {Head(deliver2)} /\ Head(deliver2) \in Queued2 /\ Distinct2'
         /\ Len(deliver2') = Len(deliver2) - 1
  <1> DEFINE n == Len(deliver2)
  <1>1. /\ n \in Nat \ {0} /\ DOMAIN deliver2 = 1..n /\ DOMAIN deliver2' = 1..(n - 1) /\ Len(deliver2') = n - 1
        /\ Head(deliver2) = deliver2[1] /\ \A i \in 1..(n - 1) : deliver2'[i] = deliver2[i + 1]
    BY LenProperties, HeadTailProperties, EmptySeq DEF StagesTypeOK
  <1> HIDE DEF n
  <1>2. \A i : i \in 1..n <=> i = 1 \/ \E j \in 1..(n - 1) : i = j + 1
    <2>1. \A i \in 1..n : i = 1 \/ (i - 1 \in 1..(n - 1) /\ i = (i - 1) + 1)
      BY <1>1
    <2>2. \A j \in 1..(n - 1) : j + 1 \in 1..n
      BY <1>1
    <2> QED BY <1>1, <2>1, <2>2
  <1>3. \A j \in 1..(n - 1) : j + 1 \in 1..n /\ 1 # j + 1 /\ 1 \in 1..n
    BY <1>1
  <1>4. \A b : b \in Queued2 <=> b = deliver2[1] \/ \E j \in 1..(n - 1) : b = deliver2[j + 1]
    BY <1>1, <1>2 DEF Queued2
  <1>5. \A b : b \in Queued2' <=> \E j \in 1..(n - 1) : b = deliver2[j + 1]
    BY <1>1 DEF Queued2
  <1>6. \A j \in 1..(n - 1) : deliver2[j + 1] # deliver2[1]
    BY <1>1, <1>3 DEF Distinct2
  <1>7. Queued2' = Queued2 \ {Head(deliver2)} /\ Head(deliver2) \in Queued2
    BY <1>1, <1>4, <1>5, <1>6
  <1>8. Distinct2'
    <2>1. \A i, j \in 1..(n - 1) : i # j => i + 1 # j + 1
      BY <1>1
    <2> QED BY <1>1, <1>3, <2>1 DEF Distinct2
  <1> QED BY <1>1, <1>7, <1>8 DEF n


(* The steps that give back the buffer of the job.                         *)
LEMMA JobFreed ==
  ASSUME StagesTypeOK, StagesTypeOK', BufferInv, Working \/ (job # NoPacket /\ job.need_free_buffer), FreeJob,
         UNCHANGED <<settings, deliver, deliver2, job2, leaked, stale_read, crashed>>
  PROVE  BufferInv'
  <1>1. job # NoPacket /\ job.need_free_buffer /\ job.buf \in Buffers /\ job' = NoPacket
    BY JobFields DEF Working, FreeJob, BufferInv, StagesTypeOK
  <1>2. Held = {job.buf} /\ Held' = {} /\ pool' = pool \cup {job.buf}
        /\ UNCHANGED <<Queued, Queued2, Held2, leaked>>
    BY <1>1 DEF Held, Held2, Queued, Queued2, FreeJob
  <1>3. IsPartition(Places')
    <2> DEFINE f == Places
               g == Places'
    <2>1. /\ DOMAIN g = 1..6 /\ job.buf \in f[4] /\ f \in [1..6 -> SUBSET Buffers] /\ IsPartition(f)
          /\ g[4] = f[4] \ {job.buf} /\ g[1] = f[1] \cup {job.buf}
          /\ g[2] = f[2] /\ g[3] = f[3] /\ g[5] = f[5] /\ g[6] = f[6]
      BY <1>2, PlacesAre, PlacesAreNext, PlacesType DEF BufferInv
    <2> HIDE DEF f, g
    <2>2. \A z \in (1..6) \ {4, 1} : g[z] = f[z]
      BY <2>1
    <2>3. IsPartition(g)
      BY <2>1, <2>2, Moves
    <2> QED BY <2>3 DEF g
  <1>4. IsPartition(Places)'
    BY <1>3 DEF IsPartition
  <1> QED BY <1>1, <1>4 DEF BufferInv, Distinct, Distinct2

LEMMA BuffersAtFirst == StagesAssumption /\ StagesInit => BufferInv
  <1> SUFFICES ASSUME StagesAssumption, StagesInit PROVE BufferInv
    OBVIOUS
  <1>1. /\ deliver = <<>> /\ deliver2 = <<>> /\ job = NoPacket /\ job2 = NoPacket /\ pool = Buffers
        /\ leaked = {} /\ stale_read = FALSE /\ crashed = FALSE
    BY DEF StagesInit
  <1>2. DOMAIN deliver = {} /\ DOMAIN deliver2 = {} /\ Len(deliver) = 0 /\ Len(deliver2) = 0
    BY <1>1
  <1>3. Queued = {} /\ Queued2 = {} /\ Held = {} /\ Held2 = {}
    BY <1>1, <1>2 DEF Queued, Queued2, Held, Held2
  <1>4. IsPartition(Places)
    <2>1. DOMAIN Places = 1..6 /\ Places[1] = Buffers /\ \A z \in 2..6 : Places[z] = {}
      BY <1>1, <1>3, PlacesAre
    <2>2. \A i, j \in 1..6 : i # j => i \in 2..6 \/ j \in 2..6
      OBVIOUS
    <2>3. \A z \in 1..6 : z = 1 \/ z \in 2..6
      OBVIOUS
    <2>4. \A i, j \in 1..6 : i # j => Places[i] \cap Places[j] = {}
      BY <2>1, <2>2
    <2>5. UNION {Places[i] : i \in 1..6} = Buffers
      BY <2>1, <2>3
    <2> QED BY <2>1, <2>4, <2>5 DEF IsPartition
  <1> QED BY <1>1, <1>2, <1>4 DEF BufferInv, Distinct, Distinct2, StagesAssumption


(* A queue has as many buffers as jobs, so that the queues and the stages  *)
(* hold no more than 2 * MaxWaiting + 2: a pool that is larger is empty    *)
(* only when a buffer is lost.                                             *)
LEMMA IntervalSize ==
  ASSUME NEW n \in Nat
  PROVE  IsFiniteSet(1..n) /\ Cardinality(1..n) = n
  <1>1. IsFiniteSet(1..n) /\ Cardinality(1..n) = (IF 1 > n THEN 0 ELSE n - 1 + 1)
    BY FS_Interval
  <1> QED BY <1>1

LEMMA OncePerPlace ==
  ASSUME NEW n \in Nat, NEW T, NEW f \in [1..n -> T], \A t \in T : \E i \in 1..n : f[i] = t,
         \A i, j \in 1..n : i # j => f[i] # f[j]
  PROVE  IsFiniteSet(T) /\ Cardinality(T) = n
  <1> DEFINE N == 1..n
  <1>1. IsFiniteSet(N) /\ Cardinality(N) = n
    BY IntervalSize
  <1> HIDE DEF N
  <1>2. f \in Bijection(N, T)
    BY Fun_IsBij, Zenon DEF N
  <1>3. ExistsBijection(N, T)
    BY <1>2, Zenon DEF ExistsBijection
  <1> QED BY <1>1, <1>3, FS_Bijection

LEMMA QueueSizes ==
  ASSUME StagesTypeOK, Distinct, Distinct2
  PROVE  /\ IsFiniteSet(Queued) /\ Cardinality(Queued) = Len(deliver)
         /\ IsFiniteSet(Queued2) /\ Cardinality(Queued2) = Len(deliver2)
  <1>1. Len(deliver) \in Nat /\ DOMAIN deliver = 1..Len(deliver)
        /\ Len(deliver2) \in Nat /\ DOMAIN deliver2 = 1..Len(deliver2)
    BY LenProperties DEF StagesTypeOK
  <1>2. IsFiniteSet(Queued) /\ Cardinality(Queued) = Len(deliver)
    <2> DEFINE n == Len(deliver)
               f == [i \in 1..n |-> deliver[i].buf]
    <2>1. f \in [1..n -> Queued] /\ \A t \in Queued : \E i \in 1..n : f[i] = t
      BY <1>1 DEF Queued
    <2>2. \A i, j \in 1..n : i # j => f[i] # f[j]
      BY <1>1 DEF Distinct
    <2> HIDE DEF f
    <2> QED BY <1>1, <2>1, <2>2, OncePerPlace
  <1>3. IsFiniteSet(Queued2) /\ Cardinality(Queued2) = Len(deliver2)
    <2> DEFINE n == Len(deliver2)
               f == [i \in 1..n |-> deliver2[i]]
    <2>1. f \in [1..n -> Queued2] /\ \A t \in Queued2 : \E i \in 1..n : f[i] = t
      BY <1>1 DEF Queued2
    <2>2. \A i, j \in 1..n : i # j => f[i] # f[j]
      BY <1>1 DEF Distinct2
    <2> HIDE DEF f
    <2> QED BY <1>1, <2>1, <2>2, OncePerPlace
  <1> QED BY <1>2, <1>3

LEMMA AtMostOne ==
  ASSUME NEW T, NEW x, T \subseteq {x}
  PROVE  IsFiniteSet(T) /\ Cardinality(T) \in 0..1
  <1>1. T = {} \/ T = {x}
    OBVIOUS
  <1>2. IsFiniteSet({}) /\ Cardinality({}) = 0 /\ IsFiniteSet({x}) /\ Cardinality({x}) = 1
    BY FS_EmptySet, FS_Singleton, Zenon
  <1>3. IsFiniteSet(T) /\ (Cardinality(T) = 0 \/ Cardinality(T) = 1)
    BY <1>1, <1>2, Zenon
  <1> QED BY <1>3

LEMMA UnionSize ==
  ASSUME NEW S, NEW T, IsFiniteSet(S), IsFiniteSet(T)
  PROVE  /\ IsFiniteSet(S \cup T) /\ Cardinality(S \cup T) <= Cardinality(S) + Cardinality(T)
         /\ {Cardinality(S), Cardinality(T), Cardinality(S \cup T)} \subseteq Nat
  <1>1. IsFiniteSet(S \cup T) /\ Cardinality(S \cup T) = Cardinality(S) + Cardinality(T) - Cardinality(S \cap T)
    BY FS_Union
  <1>2. IsFiniteSet(S \cap T)
    BY FS_Intersection
  <1> QED BY <1>1, <1>2, FS_CardinalityType

LEMMA PoolLasts ==
  ASSUME StagesAssumption, StagesTypeOK, BufferInv, pool = {}
  PROVE  leaked # {}
  <1> SUFFICES ASSUME leaked = {} PROVE FALSE
    OBVIOUS
  <1>1. Buffers = (Queued \cup Queued2) \cup (Held \cup Held2)
    <2>1. UNION {Places[i] : i \in 1..6} = Buffers
      BY PlacesAre DEF BufferInv, IsPartition
    <2>2. \A i \in 1..6 : Places[i] \subseteq (Queued \cup Queued2) \cup (Held \cup Held2)
      BY PlacesAre
    <2>3. Queued \subseteq Buffers /\ Queued2 \subseteq Buffers /\ Held \subseteq Buffers /\ Held2 \subseteq Buffers
      BY PlacesAre, PlacesType
    <2>4. \A b \in Buffers : \E i \in 1..6 : b \in Places[i]
      BY <2>1
    <2> QED BY <2>2, <2>3, <2>4
  <1>2. /\ IsFiniteSet(Queued) /\ Cardinality(Queued) = Len(deliver)
        /\ IsFiniteSet(Queued2) /\ Cardinality(Queued2) = Len(deliver2)
    BY QueueSizes DEF BufferInv
  <1>3. /\ IsFiniteSet(Held) /\ Cardinality(Held) \in 0..1
        /\ IsFiniteSet(Held2) /\ Cardinality(Held2) \in 0..1
    <2>1. Held \subseteq {job.buf} /\ Held2 \subseteq {job2}
      BY DEF Held, Held2
    <2> QED BY <2>1, AtMostOne
  <1>4. Cardinality(Queued \cup Queued2) <= Len(deliver) + Len(deliver2)
        /\ IsFiniteSet(Queued \cup Queued2) /\ Cardinality(Queued \cup Queued2) \in Nat
    BY <1>2, UnionSize
  <1>5. Cardinality(Held \cup Held2) <= 2 /\ IsFiniteSet(Held \cup Held2) /\ Cardinality(Held \cup Held2) \in Nat
    BY <1>3, UnionSize
  <1>6. Cardinality(Buffers) <= Cardinality(Queued \cup Queued2) + Cardinality(Held \cup Held2)
        /\ Cardinality(Buffers) \in Nat
    BY <1>1, <1>4, <1>5, UnionSize
  <1>7. /\ Len(deliver) \in Nat /\ Len(deliver2) \in Nat /\ Len(deliver) <= MaxWaiting
        /\ Len(deliver2) <= MaxWaiting /\ MaxWaiting \in Nat /\ Cardinality(Buffers) > 2 * MaxWaiting + 2
    BY LenProperties DEF StagesTypeOK, BufferInv, StagesAssumption
  <1> HIDE DEF Queued, Queued2, Held, Held2
  <1> QED BY <1>4, <1>5, <1>6, <1>7

(* A buffer b goes from the place x to the place y.                        *)
LEMMA Moved ==
  ASSUME StagesTypeOK, IsPartition(Places), NEW x \in 1..6, NEW y \in 1..6, x # y,
         NEW b \in Places[x], Places'[x] = Places[x] \ {b}, Places'[y] = Places[y] \cup {b},
         \A z \in (1..6) \ {x, y} : Places'[z] = Places[z]
  PROVE  IsPartition(Places)'
  <1> DEFINE f == Places
             g == Places'
  <1>1. /\ DOMAIN g = 1..6 /\ f \in [1..6 -> SUBSET Buffers] /\ IsPartition(f) /\ b \in f[x]
        /\ g[x] = f[x] \ {b} /\ g[y] = f[y] \cup {b} /\ \A z \in (1..6) \ {x, y} : g[z] = f[z]
    BY PlacesAreNext, PlacesType
  <1> HIDE DEF f, g
  <1>2. IsPartition(g)
    BY <1>1, Moves
  <1>3. IsPartition(Places')
    BY <1>2 DEF g
  <1> QED BY <1>3 DEF IsPartition

LEMMA Apart ==
  ASSUME IsPartition(Places), NEW x \in 1..6, NEW y \in 1..6, x # y, NEW b \in Places[x]
  PROVE  b \notin Places[y]
  BY PlacesAre DEF IsPartition

LEMMA BuffersStep ==
  ASSUME StagesAssumption, StagesTypeOK, StagesTypeOK', BufferInv, [StagesNext]_stagesVars
  PROVE  BufferInv'
  <1> USE DEF inputVars, frameVars, controlVars, secondVars, bufferVars
  <1>1. ASSUME NEW p \in Data \cup Controls, AddDeliverJob(p) PROVE BufferInv'
    <2>1. Unit \in pool /\ Unit \in Buffers /\ pool' = pool \ {Unit}
          /\ deliver' = Append(deliver, [buf |-> Unit, pkt |-> p]) /\ Len(deliver) < MaxWaiting
          /\ UNCHANGED <<settings, job, deliver2, job2, leaked, stale_read, crashed>>
      BY <1>1, UnitOfPool DEF AddDeliverJob, Send, StagesTypeOK
    <2>2. [buf |-> Unit, pkt |-> p] \in Waiting
      BY <2>1 DEF Waiting
    <2>3. Unit \notin Queued
      BY <2>1, PlacesAre, Apart DEF BufferInv
    <2>4. Queued' = Queued \cup {Unit} /\ Distinct' /\ Len(deliver') = Len(deliver) + 1
      BY <2>1, <2>2, <2>3, Enqueued DEF BufferInv
    <2>5. UNCHANGED <<Queued2, Held, Held2>> /\ Distinct2'
      BY <2>1 DEF Queued2, Held, Held2, Distinct2, BufferInv
    <2>6. IsPartition(Places)'
      <3>1. /\ Places'[1] = Places[1] \ {Unit} /\ Places'[2] = Places[2] \cup {Unit} /\ Unit \in Places[1]
            /\ \A z \in (1..6) \ {1, 2} : Places'[z] = Places[z]
        BY <2>1, <2>4, <2>5, PlacesAre, PlacesAreNext
      <3> QED BY <3>1, Moved DEF BufferInv
    <2>7. Len(deliver') <= MaxWaiting /\ Len(deliver2') <= MaxWaiting
      BY <2>1, <2>4, LenProperties DEF BufferInv, StagesTypeOK, StagesAssumption
    <2> QED BY <2>1, <2>4, <2>5, <2>6, <2>7 DEF BufferInv
  <1>2. CASE TakeJob
    <2>1. /\ job = NoPacket /\ deliver # <<>> /\ deliver' = Tail(deliver)
          /\ UNCHANGED <<settings, pool, deliver2, job2, leaked, stale_read, crashed>>
          /\ job' = [buf |-> Head(deliver).buf, pkt |-> Head(deliver).pkt,
                     need_free_buffer |-> TRUE, handed |-> FALSE, given |-> NoPacket]
      BY <1>2 DEF TakeJob
    <2>2. /\ Queued' = Queued \ {Head(deliver).buf} /\ Head(deliver).buf \in Queued /\ Distinct'
          /\ Len(deliver') = Len(deliver) - 1
      BY <2>1, Dequeued DEF BufferInv
    <2>3. Head(deliver) \in Waiting
      BY <2>1, HeadTailProperties DEF StagesTypeOK, Waiting
    <2>4. job' \in Jobs /\ job'.buf = Head(deliver).buf /\ job'.need_free_buffer /\ ~job'.handed
      BY <2>1, <2>3 DEF Jobs, Waiting
    <2>5. job' # NoPacket
      BY <2>4 DEF StagesAssumption
    <2>6. Held = {} /\ Held' = {Head(deliver).buf} /\ UNCHANGED <<Queued2, Held2>> /\ Distinct2'
      BY <2>1, <2>4, <2>5 DEF Queued2, Held, Held2, Distinct2, BufferInv
    <2>7. IsPartition(Places)'
      <3> DEFINE b == Head(deliver).buf
      <3> HIDE DEF b
      <3>1. /\ Places'[2] = Places[2] \ {b} /\ Places'[4] = Places[4] \cup {b} /\ b \in Places[2]
            /\ \A z \in (1..6) \ {2, 4} : Places'[z] = Places[z]
        BY <2>1, <2>2, <2>6, PlacesAre, PlacesAreNext DEF b
      <3> QED BY <3>1, Moved DEF BufferInv
    <2>8. Len(deliver') <= MaxWaiting /\ Len(deliver2') <= MaxWaiting
      BY <2>1, <2>2, LenProperties DEF BufferInv, StagesTypeOK, StagesAssumption
    <2> QED BY <2>1, <2>2, <2>4, <2>6, <2>7, <2>8 DEF BufferInv
  <1>3. CASE DropJob \/ CallBackPacket \/ ProcessControl \/ CollectIntoFrame
    <2>1. Working /\ FreeJob /\ UNCHANGED <<settings, deliver, deliver2, job2, leaked, stale_read, crashed>>
      BY <1>3 DEF DropJob, CallBackPacket, ProcessControl, CollectIntoFrame, DataJob
    <2> QED BY <2>1, JobFreed
  <1>4. CASE HandOverPacket
    <2>1. /\ job \in Jobs /\ job # NoPacket /\ ~job.handed /\ settings.deliver2
          /\ Len(deliver2) < MaxWaiting /\ deliver2' = Append(deliver2, job.buf) /\ job' = GivenAway
          /\ UNCHANGED <<settings, pool, deliver, job2, leaked, stale_read, crashed>>
      BY <1>4 DEF HandOverPacket, DataJob, Working, AddDeliver2Job, StagesTypeOK
    <2>2. job.need_free_buffer /\ job.buf \in Buffers
      BY <2>1, JobFields DEF BufferInv
    <2>3. job'.handed /\ ~job'.need_free_buffer
      BY <2>1 DEF GivenAway, Jobs
    <2>4. Held = {job.buf} /\ Held' = {} /\ UNCHANGED <<Queued, Held2>> /\ Distinct'
      BY <2>1, <2>2, <2>3 DEF Held, Held2, Queued, Distinct, BufferInv
    <2>5. job.buf \notin Queued2
      BY <2>4, PlacesAre, Apart DEF BufferInv
    <2>6. Queued2' = Queued2 \cup {job.buf} /\ Distinct2' /\ Len(deliver2') = Len(deliver2) + 1
      BY <2>1, <2>2, <2>5, Enqueued2 DEF BufferInv
    <2>7. IsPartition(Places)'
      <3>1. /\ Places'[4] = Places[4] \ {job.buf} /\ Places'[3] = Places[3] \cup {job.buf}
            /\ job.buf \in Places[4] /\ \A z \in (1..6) \ {4, 3} : Places'[z] = Places[z]
        BY <2>1, <2>4, <2>6, PlacesAre, PlacesAreNext
      <3> QED BY <3>1, Moved DEF BufferInv
    <2>8. Len(deliver') <= MaxWaiting /\ Len(deliver2') <= MaxWaiting
      BY <2>1, <2>6, LenProperties DEF BufferInv, StagesTypeOK, StagesAssumption
    <2> QED BY <2>1, <2>3, <2>4, <2>6, <2>7, <2>8 DEF BufferInv
  <1>5. CASE HandOverXyz
    <2>1. /\ job \in Jobs /\ job # NoPacket /\ ~job.handed /\ settings.deliver2
          /\ Unit \in pool /\ Unit \in Buffers /\ pool' = pool \ {Unit}
          /\ UNCHANGED <<settings, deliver, stale_read, crashed>>
      BY <1>5, UnitOfPool DEF HandOverXyz, DataJob, Working, StagesTypeOK
    <2>2. job'.handed /\ job'.buf = job.buf /\ job'.need_free_buffer = job.need_free_buffer
      BY <1>5, <2>1 DEF HandOverXyz, Jobs
    <2>3. job.need_free_buffer
      BY <2>1 DEF BufferInv
    <2>4. job' # NoPacket
      <3>1. job' \in Jobs
        BY <1>5, <2>1 DEF HandOverXyz, Jobs
      <3> QED BY <3>1 DEF StagesAssumption
    <2>5. Held' = Held /\ Queued' = Queued /\ Distinct'
      BY <2>1, <2>2, <2>3, <2>4 DEF Held, Queued, Distinct, BufferInv
    <2>6. CASE deliver2' = Append(deliver2, Unit) /\ Len(deliver2) < MaxWaiting /\ UNCHANGED <<job2, leaked>>
      <3>1. Unit \notin Queued2 /\ Held2' = Held2
        BY <2>1, <2>6, PlacesAre, Apart DEF BufferInv, Held2
      <3>2. Queued2' = Queued2 \cup {Unit} /\ Distinct2' /\ Len(deliver2') = Len(deliver2) + 1
        BY <2>1, <2>6, <3>1, Enqueued2 DEF BufferInv
      <3>3. IsPartition(Places)'
        <4>1. /\ Places'[1] = Places[1] \ {Unit} /\ Places'[3] = Places[3] \cup {Unit} /\ Unit \in Places[1]
              /\ \A z \in (1..6) \ {1, 3} : Places'[z] = Places[z]
          BY <2>1, <2>5, <2>6, <3>1, <3>2, PlacesAre, PlacesAreNext
        <4> QED BY <4>1, Moved DEF BufferInv
      <3>4. Len(deliver') <= MaxWaiting /\ Len(deliver2') <= MaxWaiting
        BY <2>1, <2>6, <3>2, LenProperties DEF BufferInv, StagesTypeOK, StagesAssumption
      <3> QED BY <2>1, <2>2, <2>5, <2>6, <3>2, <3>3, <3>4 DEF BufferInv
    <2>7. CASE leaked' = leaked \cup {Unit} /\ UNCHANGED secondVars
      <3>1. Held2' = Held2 /\ Queued2' = Queued2 /\ Distinct2'
        BY <2>7 DEF Held2, Queued2, Distinct2, BufferInv
      <3>2. IsPartition(Places)'
        <4>1. /\ Places'[1] = Places[1] \ {Unit} /\ Places'[6] = Places[6] \cup {Unit} /\ Unit \in Places[1]
              /\ \A z \in (1..6) \ {1, 6} : Places'[z] = Places[z]
          BY <2>1, <2>5, <2>7, <3>1, PlacesAre, PlacesAreNext
        <4> QED BY <4>1, Moved DEF BufferInv
      <3> QED BY <2>1, <2>2, <2>5, <2>7, <3>1, <3>2 DEF BufferInv
    <2>8. \/ deliver2' = Append(deliver2, Unit) /\ Len(deliver2) < MaxWaiting /\ UNCHANGED <<job2, leaked>>
          \/ leaked' = leaked \cup {Unit} /\ UNCHANGED secondVars
      BY <1>5, Zenon DEF HandOverXyz, AddDeliver2Job
    <2> QED BY <2>6, <2>7, <2>8
  <1>6. CASE ConvertIntoNothing
    <2>1. pool = {} /\ settings.deliver2
          /\ UNCHANGED <<settings, pool, deliver, job, deliver2, job2, leaked, stale_read>>
      BY <1>6 DEF ConvertIntoNothing
    <2>2. leaked # {}
      BY <2>1, PoolLasts
    <2>3. UNCHANGED <<Places, Distinct, Distinct2>>
      BY <2>1 DEF Places, Distinct, Distinct2, Queued, Queued2, Held, Held2
    <2>4. IsPartition(Places)'
      BY <2>3 DEF IsPartition, BufferInv
    <2> QED BY <2>1, <2>2, <2>3, <2>4 DEF BufferInv
  <1>7. CASE FinishHandedOver
    <2>1. job # NoPacket /\ job.handed /\ settings.deliver2 /\ job' = NoPacket
          /\ UNCHANGED <<settings, deliver, deliver2, job2, leaked, crashed>>
      BY <1>7 DEF FinishHandedOver, BufferInv
    <2>2. CASE job.need_free_buffer
      <3>1. Held = {job.buf} /\ Held' = {} /\ pool' = pool \cup {job.buf}
            /\ UNCHANGED <<Queued, Queued2, Held2, Distinct, Distinct2>>
        BY <1>7, <2>1, <2>2 DEF FinishHandedOver, Held, Held2, Queued, Queued2, Distinct, Distinct2
      <3>2. IsPartition(Places)'
        <4>1. /\ Places'[4] = Places[4] \ {job.buf} /\ Places'[1] = Places[1] \cup {job.buf}
              /\ job.buf \in Places[4] /\ \A z \in (1..6) \ {4, 1} : Places'[z] = Places[z]
          BY <2>1, <3>1, PlacesAre, PlacesAreNext
        <4> QED BY <4>1, Moved DEF BufferInv
      <3> QED BY <2>1, <3>1, <3>2 DEF BufferInv
    <2>3. CASE ~job.need_free_buffer
      <3>1. UNCHANGED <<Places, Distinct, Distinct2>>
        BY <1>7, <2>1, <2>3
           DEF FinishHandedOver, Places, Held, Held2, Queued, Queued2, Distinct, Distinct2
      <3>2. IsPartition(Places)'
        BY <3>1 DEF IsPartition, BufferInv
      <3> QED BY <2>1, <3>1, <3>2 DEF BufferInv
    <2> QED BY <2>2, <2>3
  <1>8. CASE TakeJob2
    <2>1. /\ job2 = NoPacket /\ deliver2 # <<>> /\ deliver2' = Tail(deliver2) /\ job2' = Head(deliver2)
          /\ UNCHANGED <<settings, pool, deliver, job, leaked, stale_read, crashed>>
      BY <1>8 DEF TakeJob2
    <2>2. /\ Queued2' = Queued2 \ {Head(deliver2)} /\ Head(deliver2) \in Queued2 /\ Distinct2'
          /\ Len(deliver2') = Len(deliver2) - 1
      BY <2>1, Dequeued2 DEF BufferInv
    <2>3. Head(deliver2) # NoPacket
      BY <2>1, HeadTailProperties DEF StagesTypeOK, StagesAssumption
    <2>4. Held2 = {} /\ Held2' = {Head(deliver2)} /\ UNCHANGED <<Queued, Held>> /\ Distinct'
      BY <2>1, <2>3 DEF Queued, Held, Held2, Distinct, BufferInv
    <2>5. IsPartition(Places)'
      <3> DEFINE b == Head(deliver2)
      <3> HIDE DEF b
      <3>1. /\ Places'[3] = Places[3] \ {b} /\ Places'[5] = Places[5] \cup {b} /\ b \in Places[3]
            /\ \A z \in (1..6) \ {3, 5} : Places'[z] = Places[z]
        BY <2>1, <2>2, <2>4, PlacesAre, PlacesAreNext DEF b
      <3> QED BY <3>1, Moved DEF BufferInv
    <2>6. Len(deliver') <= MaxWaiting /\ Len(deliver2') <= MaxWaiting
      BY <2>1, <2>2, LenProperties DEF BufferInv, StagesTypeOK, StagesAssumption
    <2> QED BY <2>1, <2>2, <2>4, <2>5, <2>6 DEF BufferInv
  <1>9. CASE ProcessJob2
    <2>1. /\ job2 # NoPacket /\ job2 \in Buffers /\ pool' = pool \cup {job2} /\ job2' = NoPacket
          /\ UNCHANGED <<settings, deliver, job, deliver2, leaked, stale_read, crashed>>
      BY <1>9 DEF ProcessJob2, StagesTypeOK
    <2>2. Held2 = {job2} /\ Held2' = {} /\ UNCHANGED <<Queued, Queued2, Held, Distinct, Distinct2>>
      BY <2>1 DEF Queued, Queued2, Held, Held2, Distinct, Distinct2
    <2>3. IsPartition(Places)'
      <3>1. /\ Places'[5] = Places[5] \ {job2} /\ Places'[1] = Places[1] \cup {job2} /\ job2 \in Places[5]
            /\ \A z \in (1..6) \ {5, 1} : Places'[z] = Places[z]
        BY <2>1, <2>2, PlacesAre, PlacesAreNext
      <3> QED BY <3>1, Moved DEF BufferInv
    <2> QED BY <2>1, <2>2, <2>3 DEF BufferInv
  <1>10. CASE UNCHANGED stagesVars
    <2>1. UNCHANGED <<settings, pool, deliver, job, deliver2, job2, leaked, stale_read, crashed>>
      BY <1>10 DEF stagesVars
    <2>2. UNCHANGED <<Places, Distinct, Distinct2>>
      BY <2>1 DEF Places, Distinct, Distinct2, Queued, Queued2, Held, Held2
    <2>3. IsPartition(Places)'
      BY <2>2 DEF IsPartition, BufferInv
    <2> QED BY <2>1, <2>2, <2>3 DEF BufferInv
  <1> QED BY <1>1, <1>2, <1>3, <1>4, <1>5, <1>6, <1>7, <1>8, <1>9, <1>10 DEF StagesNext, Running


-----------------------------------------------------------------------------
(* Frames.  Those that are whole stay so when a packet of a later frame    *)
(* comes, and a frame behind them may follow.                              *)
LEMMA WholeLasts ==
  ASSUME StagesAssumption, NEW fs, NEW B \in Int, NEW came, NEW p \in Data, WholeUpTo(fs, B, came), p.idx > B
  PROVE  WholeUpTo(fs, B, came \cup {p})
  <1>1. ASSUME NEW n \in 0..B, NEW f, FrameOf(f, n, came) PROVE FrameOf(f, n, came \cup {p})
    <2>1. p.idx # n
      BY DataFields
    <2>2. {c \in came \cup {p} : c.idx = n} = {c \in came : c.idx = n}
      BY <2>1
    <2> QED BY <1>1, <2>2 DEF FrameOf
  <1> QED BY <1>1 DEF WholeUpTo

LEMMA WholeBelow ==
  ASSUME NEW fs, NEW came, NEW B \in Int, NEW top \in Int, B <= top, WholeUpTo(fs, B, came)
  PROVE  WholeUpTo(fs, top, came)
  <1>1. 0..B \subseteq 0..top
    OBVIOUS
  <1> QED BY <1>1 DEF WholeUpTo

LEMMA WholeMore ==
  ASSUME NEW fs, NEW came, NEW B \in Int, NEW n \in Nat, B < n, WholeUpTo(fs, B, came), NEW x, FrameOf(x, n, came)
  PROVE  WholeUpTo(Append(fs, x), n, came) /\ Indices(Append(fs, x)) = Indices(fs) \cup {n}
  <1> DEFINE gs == Append(fs, x)
             m == Len(fs)
  <1>1. /\ m \in Nat /\ DOMAIN fs = 1..m /\ DOMAIN gs = 1..(m + 1) /\ gs[m + 1] = x
        /\ gs \in Seq(FrameType) /\ \A i \in 1..m : gs[i] = fs[i]
    BY LenProperties, AppendProperties DEF WholeUpTo, FrameOf
  <1> HIDE DEF gs, m
  <1>2. \A i : i \in 1..(m + 1) <=> i = m + 1 \/ i \in 1..m
    BY <1>1
  <1>3. Index(x) = n /\ \A i \in 1..m : Index(fs[i]) \in 0..B
    BY <1>1 DEF WholeUpTo, FrameOf
  <1>4. \A i \in 1..(m + 1) : \E k \in 0..n : FrameOf(gs[i], k, came)
    <2>1. \A i \in 1..m : \E k \in 0..n : FrameOf(gs[i], k, came)
      <3>1. 0..B \subseteq 0..n
        OBVIOUS
      <3> QED BY <1>1, <3>1 DEF WholeUpTo
    <2>2. n \in 0..n /\ FrameOf(gs[m + 1], n, came)
      BY <1>1
    <2> QED BY <1>2, <2>1, <2>2
  <1>5. ASSUME NEW i \in 1..(m + 1), NEW j \in 1..(m + 1), i < j PROVE Index(gs[i]) < Index(gs[j])
    <2>1. i \in 1..m
      BY <1>1, <1>5
    <2>2. CASE j \in 1..m
      BY <1>1, <1>5, <2>1, <2>2 DEF WholeUpTo
    <2>3. CASE j = m + 1
      BY <1>1, <1>3, <2>1, <2>3
    <2> QED BY <1>2, <2>2, <2>3
  <1>6. Indices(gs) = Indices(fs) \cup {n}
    BY <1>1, <1>2, <1>3 DEF Indices
  <1> QED BY <1>1, <1>4, <1>5, <1>6 DEF WholeUpTo, gs

LEMMA BegunHolds ==
  ASSUME StagesAssumption, NEW p \in Data, p.idx # 0, NEW came, \A c \in came : c.idx # p.idx
  PROVE  /\ FrameOf(Begun(p), p.idx, came \cup {p})
         /\ Begun(p).is_last_sub_frame <=> IsLastSubFrame(p)
  <1>1. /\ <<p>> \in Seq(Data) /\ Len(<<p>>) = 1 /\ <<p>>[1] = p /\ <<p>> # <<>> /\ DOMAIN <<p>> = {1}
    OBVIOUS
  <1>2. /\ Begun(p) \in FrameType /\ Begun(p).packets = <<p>> /\ Begun(p).idx = p.idx
        /\ Begun(p).is_last_sub_frame = IsLastSubFrame(p)
    BY <1>1, DataFields DEF Begun, FrameType, IsLastSubFrame
  <1>3. Index(Begun(p)) = p.idx
    BY <1>1, <1>2 DEF Index
  <1>4. {c \in came \cup {p} : c.idx = p.idx} = {p}
    OBVIOUS
  <1>5. {<<p>>[k] : k \in DOMAIN <<p>>} = {p}
    BY <1>1
  <1>6. \A k, l \in DOMAIN <<p>> : ~(k < l)
    BY <1>1
  <1> QED BY <1>2, <1>3, <1>4, <1>5, <1>6 DEF FrameOf

LEMMA ContinuedHolds ==
  ASSUME StagesAssumption, NEW p \in Data, Came \subseteq Data, FrameOf(xyz, p.idx, Came), \A c \in Came : Before(c, p)
  PROVE  /\ FrameOf(Continued(p), p.idx, Came \cup {p})
         /\ Continued(p).is_last_sub_frame <=> xyz.is_last_sub_frame \/ IsLastSubFrame(p)
  <1> DEFINE s == xyz.packets
             m == Len(s)
             t == Append(s, p)
  <1>1. s \in Seq(Data) /\ xyz \in FrameType
    BY DEF FrameOf, FrameType
  <1>2. /\ m \in Nat /\ DOMAIN s = 1..m /\ DOMAIN t = 1..(m + 1) /\ t[m + 1] = p /\ t \in Seq(Data)
        /\ t # <<>> /\ \A i \in 1..m : t[i] = s[i]
    BY <1>1, LenProperties, AppendProperties
  <1>3. /\ Continued(p).packets = t /\ Continued(p).idx = xyz.idx /\ Continued(p) \in FrameType
    BY <1>1, <1>2 DEF Continued, FrameType, IsLastSubFrame
  <1>4. Continued(p).is_last_sub_frame <=> xyz.is_last_sub_frame \/ IsLastSubFrame(p)
    BY <1>1 DEF Continued, FrameType, IsLastSubFrame
  <1> HIDE DEF s, m, t
  <1>5. \A i : i \in 1..(m + 1) <=> i = m + 1 \/ i \in 1..m
    BY <1>2
  <1>6. {s[k] : k \in DOMAIN s} = {c \in Came : c.idx = p.idx}
    BY DEF FrameOf, s
  <1>7. {t[k] : k \in DOMAIN t} = {c \in Came \cup {p} : c.idx = p.idx}
    BY <1>2, <1>5, <1>6
  <1>8. \A k \in 1..m : s[k] \in Data /\ s[k].idx = p.idx /\ s[k].sub < p.sub
    <2>1. \A k \in 1..m : s[k] \in Came /\ s[k].idx = p.idx
      BY <1>2, <1>6
    <2> QED BY <2>1, DataFields DEF Before
  <1>9. \A k, l \in 1..(m + 1) : k < l => t[k].sub < t[l].sub
    <2> SUFFICES ASSUME NEW k \in 1..(m + 1), NEW l \in 1..(m + 1), k < l PROVE t[k].sub < t[l].sub
      OBVIOUS
    <2>1. k \in 1..m
      BY <1>2
    <2>2. CASE l \in 1..m
      BY <1>2, <2>1, <2>2 DEF FrameOf, s
    <2>3. CASE l = m + 1
      BY <1>2, <1>8, <2>1, <2>3
    <2> QED BY <1>5, <2>2, <2>3
  <1>10. Index(Continued(p)) = p.idx
    <2>1. 1 \in DOMAIN t
      BY <1>2
    <2>2. t[1].idx = p.idx
      BY <1>7, <2>1
    <2> QED BY <1>2, <1>3, <2>2 DEF Index
  <1>11. xyz.idx = IF p.idx = 0 THEN NoPacket ELSE p.idx
    BY DEF FrameOf
  <1> QED BY <1>2, <1>3, <1>4, <1>7, <1>9, <1>10, <1>11 DEF FrameOf

-----------------------------------------------------------------------------
(* The line of packets that wait.                                          *)
LEMMA CameIsData == StagesTypeOK => Came \subseteq Data
  BY LenProperties, ElementOfSeq DEF StagesTypeOK, Came

LEMMA CameMore ==
  ASSUME StagesTypeOK, NEW p \in Data, collected' = Append(collected, p)
  PROVE  Came' = Came \cup {p}
  <1> DEFINE n == Len(collected)
  <1>1. /\ n \in Nat /\ DOMAIN collected = 1..n /\ DOMAIN collected' = 1..(n + 1)
        /\ collected'[n + 1] = p /\ \A i \in 1..n : collected'[i] = collected[i]
    BY LenProperties, AppendProperties DEF StagesTypeOK
  <1> HIDE DEF n
  <1>2. \A i : i \in 1..(n + 1) <=> i = n + 1 \/ i \in 1..n
    BY <1>1
  <1>3. Came' = {collected'[i] : i \in 1..(n + 1)}
    BY <1>1 DEF Came
  <1>4. Came = {collected[i] : i \in 1..n}
    BY <1>1 DEF Came
  <1> QED BY <1>1, <1>2, <1>3, <1>4

LEMMA WaitingPackets ==
  ASSUME StagesAssumption, StagesTypeOK
  PROVE  /\ \A k \in DOMAIN deliver : IsData(deliver[k].pkt) => deliver[k].pkt \in Data
         /\ job # NoPacket /\ IsData(job.pkt) => job.pkt \in Data
         /\ last_frame_idx \in Nat /\ last_sent \in Data \cup {NoPacket}
  <1>1. \A p \in Data \cup Controls : IsData(p) => p \in Data
    BY DataFields DEF IsData
  <1>2. \A k \in DOMAIN deliver : deliver[k].pkt \in Data \cup Controls
    <2>1. \A k \in DOMAIN deliver : deliver[k] \in [buf : Buffers, pkt : Data \cup Controls]
      BY LenProperties, ElementOfSeq DEF StagesTypeOK
    <2> QED BY <2>1
  <1>3. job # NoPacket => job.pkt \in Data \cup Controls
    BY JobFields DEF StagesTypeOK
  <1> QED BY <1>1, <1>2, <1>3 DEF StagesTypeOK, StagesAssumption

(* A packet joins the line at its end.                                     *)
LEMMA LineJoined ==
  ASSUME StagesAssumption, StagesTypeOK, Line, NEW x \in Waiting, deliver' = Append(deliver, x),
         UNCHANGED <<job, collected, last_frame_idx>>,
         \A q \in Data : Placed(q) => Placed(q)',
         IsData(x.pkt) => Placed(x.pkt)' /\ \A q \in Data : Placed(q) => InTurn(q, x.pkt)
  PROVE  Line'
  <1> DEFINE n == Len(deliver)
  <1>1. /\ n \in Nat /\ DOMAIN deliver = 1..n /\ DOMAIN deliver' = 1..(n + 1)
        /\ deliver'[n + 1] = x /\ \A i \in 1..n : deliver'[i] = deliver[i]
    BY LenProperties, AppendProperties DEF StagesTypeOK, Waiting
  <1> HIDE DEF n
  <1>2. \A i : i \in 1..(n + 1) <=> i = n + 1 \/ i \in 1..n
    BY <1>1
  <1>3. \A k \in 1..n : IsData(deliver[k].pkt) => deliver[k].pkt \in Data /\ Placed(deliver[k].pkt)
    BY <1>1, WaitingPackets DEF Line
  <1>4. \A p, q : InTurn(p, q)' <=> InTurn(p, q)
    BY DEF InTurn, Behind
  <1>5. ASSUME NEW k \in 1..(n + 1), IsData(deliver'[k].pkt) PROVE Placed(deliver[k].pkt)'
    <2>1. \E q \in Data : q = deliver'[k].pkt /\ Placed(q)'
      <3>1. CASE k \in 1..n
        BY <1>1, <1>3, <1>5, <3>1
      <3>2. CASE k = n + 1
        BY <1>1, <1>5, <3>2, DataFields DEF IsData, Waiting
      <3> QED BY <1>2, <3>1, <3>2
    <2> QED BY <2>1, Zenon DEF Placed, Ahead, Behind
  <1>6. ASSUME NEW k \in 1..(n + 1), NEW l \in 1..(n + 1), k < l, IsData(deliver'[k].pkt), IsData(deliver'[l].pkt)
        PROVE  InTurn(deliver'[k].pkt, deliver'[l].pkt)
    <2>1. k \in 1..n
      BY <1>1, <1>6
    <2>2. CASE l \in 1..n
      BY <1>1, <1>6, <2>1, <2>2 DEF Line
    <2>3. CASE l = n + 1
      BY <1>1, <1>3, <1>6, <2>1, <2>3
    <2> QED BY <1>2, <2>2, <2>3
  <1>7. ASSUME job # NoPacket, IsData(job.pkt)
        PROVE  Placed(job.pkt)' /\ \A k \in 1..(n + 1) : IsData(deliver'[k].pkt) => InTurn(job.pkt, deliver'[k].pkt)
    <2>1. job.pkt \in Data /\ Placed(job.pkt)
      BY <1>7, WaitingPackets DEF Line
    <2> QED BY <1>1, <1>2, <1>7, <2>1 DEF Line
  <1> HIDE DEF Placed, InTurn
  <1> QED BY <1>1, <1>4, <1>5, <1>6, <1>7 DEF Line

LEMMA LineAdds ==
  ASSUME StagesAssumption, StagesTypeOK, LineInv, CollectedInv, NEW p \in Data \cup Controls, AddDeliverJob(p)
  PROVE  LineInv' /\ CollectedInv'
  <1>1. /\ deliver' = Append(deliver, [buf |-> Unit, pkt |-> p]) /\ Unit \in Buffers /\ Send(p)
        /\ UNCHANGED <<settings, job, collected, last_frame_idx>>
    BY UnitOfPool DEF AddDeliverJob, frameVars, StagesTypeOK
  <1>2. [buf |-> Unit, pkt |-> p] \in Waiting
    BY <1>1 DEF Waiting
  <1>3. UNCHANGED Came
    BY <1>1 DEF Came
  <1>4. last_frame_idx \in Nat /\ Came \subseteq Data /\ last_sent \in Data \cup {NoPacket}
    BY WaitingPackets, CameIsData
  <1>5. CASE UNCHANGED <<last_sent, late_sent>> /\ (settings.callback = "xyz_frame" => ~IsData(p))
    <2>1. CollectedInv'
      BY <1>1, <1>3, <1>5 DEF CollectedInv
    <2>2. \A q \in Data : Placed(q) => Placed(q)'
      BY <1>1, <1>3, <1>5 DEF Placed, Ahead, Behind
    <2>3. LineInv'
      BY <1>1, <1>2, <1>5, <2>2, LineJoined DEF LineInv
    <2> QED BY <2>1, <2>3
  <1>6. CASE IsData(p) /\ Follows(p) /\ last_sent' = p /\ UNCHANGED late_sent
    <2>1. p \in Data /\ p # NoPacket
      BY <1>6, DataFields DEF IsData, StagesAssumption
    <2>2. \A q \in Data : last_sent # NoPacket /\ ~Before(last_sent, q) => Before(q, p)
      BY <1>4, <1>6, <2>1, DataFields DEF Follows, Before
    <2>3. \A c \in Came : Before(c, p)
      BY <1>4, <2>2 DEF CollectedInv
    <2>4. last_frame_idx <= p.idx
      BY <1>4, <1>6, <2>1, DataFields DEF CollectedInv, Follows
    <2>5. \A q \in Data : Before(q, p) => ~Before(p, q)
      BY <2>1, DataFields DEF Before
    <2>6. CollectedInv'
      BY <1>1, <1>3, <1>4, <1>6, <2>1, <2>3, <2>4, <2>5 DEF CollectedInv
    <2>7. \A q \in Data : Placed(q) => Placed(q)'
      BY <1>1, <1>3, <1>6, <2>1, <2>2, <2>5 DEF Placed, Ahead, Behind
    <2>8. Placed(p)'
      <3>1. ~Before(p, p)
        BY <2>1, DataFields DEF Before
      <3> QED BY <1>1, <1>3, <1>6, <2>1, <2>3, <2>4, <3>1, DataFields DEF Placed, Ahead
    <2>9. \A q \in Data : Placed(q) => InTurn(q, p)
      BY <2>2 DEF Placed, InTurn
    <2>10. LineInv'
      BY <1>1, <1>2, <2>7, <2>8, <2>9, LineJoined DEF LineInv
    <2> QED BY <2>6, <2>10
  <1>7. CASE IsData(p) /\ IsLate(p) /\ late_sent' = TRUE /\ UNCHANGED last_sent
    <2>1. p \in Data
      BY <1>7, DataFields DEF IsData
    <2>2. CollectedInv'
      BY <1>1, <1>3, <1>7 DEF CollectedInv
    <2>3. \A q \in Data : Placed(q) => Placed(q)'
      BY <1>1, <1>3, <1>7 DEF Placed, Ahead, Behind
    <2>4. Placed(p)'
      <3>1. ~Before(last_sent, p)
        BY <1>4, <1>7, <2>1, DataFields DEF IsLate, Before
      <3> QED BY <1>1, <1>7, <3>1 DEF Placed, Behind, IsLate
    <2>5. \A q \in Data : Placed(q) => InTurn(q, p)
      <3> SUFFICES ASSUME NEW q \in Data, Placed(q) PROVE InTurn(q, p)
        OBVIOUS
      <3>1. Ahead(q) /\ ~Before(last_sent, q)
        BY <1>7 DEF Placed, IsLate
      <3>2. q.idx >= last_frame_idx /\ q.idx <= last_sent.idx
        BY <1>4, <1>7, <3>1, DataFields DEF Ahead, Before, IsLate
      <3> QED BY <1>4, <1>7, <3>2, DataFields DEF InTurn, Behind, IsLate
    <2>6. LineInv'
      BY <1>1, <1>2, <2>3, <2>4, <2>5, LineJoined DEF LineInv
    <2> QED BY <2>2, <2>6
  <1>8. \/ UNCHANGED <<last_sent, late_sent>> /\ (settings.callback = "xyz_frame" => ~IsData(p))
        \/ IsData(p) /\ Follows(p) /\ last_sent' = p /\ UNCHANGED late_sent
        \/ IsData(p) /\ IsLate(p) /\ late_sent' = TRUE /\ UNCHANGED last_sent
    BY <1>1, Zenon DEF Send, IsData
  <1> QED BY <1>5, <1>6, <1>7, <1>8

(* The packet at its head goes to the stage.                               *)
LEMMA LineMoves ==
  ASSUME StagesAssumption, StagesTypeOK, LineInv, CollectedInv, TakeJob
  PROVE  LineInv' /\ CollectedInv'
  <1>1. /\ deliver # <<>> /\ deliver' = Tail(deliver) /\ job'.pkt = Head(deliver).pkt
        /\ UNCHANGED <<settings, last_sent, late_sent, collected, last_frame_idx, Came>>
    BY DEF TakeJob, inputVars, frameVars, Came
  <1> DEFINE n == Len(deliver)
  <1>2. /\ n \in Nat \ {0} /\ DOMAIN deliver = 1..n /\ DOMAIN deliver' = 1..(n - 1)
        /\ Head(deliver) = deliver[1] /\ \A i \in 1..(n - 1) : deliver'[i] = deliver[i + 1]
    BY <1>1, LenProperties, HeadTailProperties, EmptySeq DEF StagesTypeOK
  <1> HIDE DEF n
  <1>3. /\ 1 \in 1..n /\ \A i \in 1..(n - 1) : i + 1 \in 1..n /\ 1 < i + 1
        /\ \A i, j \in 1..(n - 1) : i < j => i + 1 < j + 1
    BY <1>2
  <1>4. \A p, q : (Placed(p)' <=> Placed(p)) /\ (InTurn(p, q)' <=> InTurn(p, q))
    BY <1>1 DEF Placed, Ahead, InTurn, Behind
  <1>5. CollectedInv'
    BY <1>1 DEF CollectedInv
  <1>6. Line => Line'
    <2> SUFFICES ASSUME Line PROVE Line'
      OBVIOUS
    <2> HIDE DEF Placed, InTurn
    <2>1. \A k \in 1..(n - 1) : IsData(deliver'[k].pkt) => Placed(deliver'[k].pkt)
      BY <1>2, <1>3 DEF Line
    <2>2. \A k, l \in 1..(n - 1) : k < l /\ IsData(deliver'[k].pkt) /\ IsData(deliver'[l].pkt)
                                   => InTurn(deliver'[k].pkt, deliver'[l].pkt)
      BY <1>2, <1>3 DEF Line
    <2>3. IsData(job'.pkt) => /\ Placed(job'.pkt)
                              /\ \A k \in 1..(n - 1) : IsData(deliver'[k].pkt) => InTurn(job'.pkt, deliver'[k].pkt)
      BY <1>1, <1>2, <1>3 DEF Line
    <2> QED BY <1>2, <1>4, <2>1, <2>2, <2>3 DEF Line
  <1> QED BY <1>1, <1>5, <1>6 DEF LineInv

(* The stage is done with its packet and has put it in no frame.           *)
LEMMA LineClears ==
  ASSUME LineInv, CollectedInv, job' = NoPacket,
         UNCHANGED <<settings, last_sent, late_sent, deliver, collected, last_frame_idx>>
  PROVE  LineInv' /\ CollectedInv'
  <1>1. UNCHANGED Came
    BY DEF Came
  <1>2. \A p, q : (Placed(p)' <=> Placed(p)) /\ (InTurn(p, q)' <=> InTurn(p, q))
    BY <1>1 DEF Placed, Ahead, InTurn, Behind
  <1>3. CollectedInv'
    BY <1>1 DEF CollectedInv
  <1> HIDE DEF Placed, InTurn
  <1> QED BY <1>2, <1>3 DEF LineInv, Line

(* It put the packet, which is not of the frame before, into a frame.      *)
LEMMA LineCollects ==
  ASSUME StagesAssumption, StagesTypeOK, LineInv, CollectedInv, settings.callback = "xyz_frame",
         job # NoPacket, IsData(job.pkt), ~Behind(job.pkt), job' = NoPacket,
         last_frame_idx' = job.pkt.idx, collected' = Append(collected, job.pkt),
         UNCHANGED <<settings, last_sent, late_sent, deliver>>
  PROVE  LineInv' /\ CollectedInv'
  <1> DEFINE p == job.pkt
  <1>1. p \in Data /\ Came \subseteq Data /\ last_frame_idx \in Nat
    BY WaitingPackets, CameIsData
  <1>2. Came' = Came \cup {p}
    BY <1>1, CameMore
  <1>3. Placed(p) /\ Ahead(p) /\ p.idx >= last_frame_idx
    BY DEF LineInv, Line, Placed, Ahead
  <1>4. last_sent # NoPacket /\ last_sent \in Data /\ ~Before(last_sent, p)
    BY <1>3, WaitingPackets DEF Placed
  <1>5. CollectedInv'
    <2>1. \A c \in Came' : c.idx <= p.idx
      BY <1>1, <1>2, <1>3, DataFields DEF CollectedInv
    <2>2. p.idx <= last_sent.idx
      BY <1>1, <1>4, DataFields DEF Before
    <2>3. p \in Came' /\ \A c \in Came' : ~Before(last_sent, c)
      BY <1>2, <1>4 DEF CollectedInv
    <2> QED BY <1>4, <2>1, <2>2, <2>3 DEF CollectedInv
  <1>6. ASSUME NEW q \in Data, Placed(q), InTurn(p, q) PROVE Placed(q)'
    <2>1. CASE Before(p, q)
      <3>1. q.idx >= p.idx
        BY <1>1, <2>1, DataFields DEF Before
      <3>2. Ahead(q)
        BY <1>1, <1>3, <1>6, <3>1, DataFields DEF Placed, Behind
      <3> QED BY <1>2, <1>6, <2>1, <3>1, <3>2 DEF Placed, Ahead
    <2>2. CASE Behind(q) /\ p.idx = last_frame_idx
      <3>1. late_sent
        BY <1>1, <1>6, <2>2, DataFields DEF Placed, Ahead, Behind
      <3> QED BY <1>6, <2>2, <3>1 DEF Placed, Behind
    <2> QED BY <1>6, <2>1, <2>2 DEF InTurn
  <1>7. ASSUME NEW q \in Data, NEW r \in Data, InTurn(p, q), InTurn(q, r) PROVE InTurn(q, r)'
    <2>1. CASE p.idx = last_frame_idx
      BY <1>7, <2>1 DEF InTurn, Behind
    <2>2. CASE p.idx > last_frame_idx
      <3>1. q.idx > last_frame_idx
        BY <1>1, <1>7, <2>2, DataFields DEF InTurn, Before
      <3> QED BY <1>1, <1>7, <3>1, DataFields DEF InTurn, Before
    <2> QED BY <1>1, <1>3, <2>1, <2>2, DataFields
  <1>8. \A k \in DOMAIN deliver : IsData(deliver[k].pkt) =>
          deliver[k].pkt \in Data /\ Placed(deliver[k].pkt) /\ InTurn(p, deliver[k].pkt)
    BY WaitingPackets DEF LineInv, Line
  <1> HIDE DEF Placed, InTurn, p
  <1>9. \A k \in DOMAIN deliver : IsData(deliver[k].pkt) => Placed(deliver[k].pkt)'
    BY <1>6, <1>8
  <1>10. \A k, l \in DOMAIN deliver : k < l /\ IsData(deliver[k].pkt) /\ IsData(deliver[l].pkt)
                                     => InTurn(deliver[k].pkt, deliver[l].pkt)'
    BY <1>7, <1>8 DEF LineInv, Line
  <1>11. Line'
    BY <1>9, <1>10 DEF Line
  <1> QED BY <1>5, <1>11 DEF LineInv

-----------------------------------------------------------------------------
(* What a packet that is put into a frame changes about the frames.        *)
LEMMA DueLater ==
  ASSUME StagesAssumption, NEW came \in SUBSET Data, NEW p \in Data, \A c \in came : c.idx <= p.idx,
         NEW n \in 0..MaxIdx, Due(n, came \cup {p})
  PROVE  \/ Due(n, came)
         \/ n = p.idx /\ IsLastSubFrame(p)
         \/ n + 1 = p.idx /\ n # 0 /\ (\E c \in came : c.idx = n) /\ \A c \in came : c.idx # n + 1
  <1>1. n \in Nat /\ p.idx \in Nat
    BY DataFields
  <1>2. CASE n = p.idx
    <2>1. \A c \in came \cup {p} : c.idx # n + 1
      BY <1>1, <1>2, DataFields
    <2>2. PICK c \in came \cup {p} : c.idx = n /\ IsLastSubFrame(c)
      BY <2>1 DEF Due, LastIn
    <2>3. c = p \/ Due(n, came)
      BY <2>2 DEF Due, LastIn
    <2> QED BY <1>2, <2>2, <2>3
  <1>3. CASE n # p.idx
    <2>1. (\E c \in came : c.idx = n) /\ (LastIn(came \cup {p}, n) => LastIn(came, n))
      BY <1>3 DEF Due, LastIn
    <2>2. CASE n + 1 = p.idx /\ \A c \in came : c.idx # n + 1
      BY <1>1, <2>1, <2>2 DEF Due
    <2>3. CASE n + 1 # p.idx \/ \E c \in came : c.idx = n + 1
      BY <2>1, <2>3 DEF Due
    <2> QED BY <2>2, <2>3
  <1> QED BY <1>2, <1>3

LEMMA Appended ==
  ASSUME NEW fs \in Seq(FrameType), NEW x
  PROVE  Indices(fs) \subseteq Indices(Append(fs, x))
  <1> DEFINE m == Len(fs)
             gs == Append(fs, x)
  <1>1. /\ m \in Nat /\ DOMAIN fs = 1..m /\ DOMAIN gs = 1..(m + 1) /\ \A i \in 1..m : gs[i] = fs[i]
    BY LenProperties, AppendProperties
  <1> HIDE DEF gs, m
  <1>2. \A i \in 1..m : i \in 1..(m + 1)
    BY <1>1
  <1>3. Indices(fs) \subseteq Indices(gs)
    BY <1>1, <1>2 DEF Indices
  <1> QED BY <1>3 DEF gs

(* It begins a frame; the one before it is delivered now if its last       *)
(* packet was lost.                                                        *)
LEMMA FrameBegins ==
  ASSUME StagesAssumption, StagesTypeOK, CollectedInv, FrameInv, NEW p \in Data, p.idx > last_frame_idx,
         NEW over, over = (IF LostLast(p) THEN Append(frames, xyz) ELSE frames),
         xyz' = Begun(p), frames' = (IF IsLastSubFrame(p) THEN Append(over, xyz') ELSE over),
         last_frame_idx' = p.idx, collected' = Append(collected, p)
  PROVE  FrameInv'
  <1> DEFINE last == last_frame_idx
             came == Came
             more == Came \cup {p}
             ended == LastIn(Came, last_frame_idx)
             B == IF ended THEN last ELSE last - 1
  <1>1. /\ last \in 0..MaxIdx /\ last \in Nat /\ p.idx \in Nat /\ last < p.idx /\ came \in SUBSET Data
        /\ B \in Int /\ B <= last /\ (~ended => B < last) /\ last \in Int /\ p.idx > last /\ p.idx # 0
    BY CameIsData, DataFields DEF StagesTypeOK
  <1>2. Came' = more
    BY CameMore
  <1>3. /\ FrameOf(xyz, last, came) /\ (ended => xyz.is_last_sub_frame)
        /\ last # 0 /\ xyz.is_last_sub_frame => ended
        /\ WholeUpTo(frames, B, came) /\ \A n \in 0..MaxIdx : Due(n, came) => n \in Indices(frames)
    BY DEF FrameInv
  <1>4. \A c \in came : c.idx \in Nat /\ c.idx <= last /\ c.idx # p.idx /\ c.idx <= p.idx
    BY <1>1, DataFields DEF CollectedInv
  <1> HIDE DEF B, ended, last, came
  <1>5. WholeUpTo(over, last, came) /\ Indices(frames) \subseteq Indices(over) /\ (LostLast(p) => last \in Indices(over))
    <2>1. CASE LostLast(p)
      <3>1. over = Append(frames, xyz) /\ B < last
        BY <1>1, <1>3, <2>1 DEF LostLast
      <3>2. WholeUpTo(Append(frames, xyz), last, came) /\ Indices(Append(frames, xyz)) = Indices(frames) \cup {last}
        BY <1>1, <1>3, <3>1, WholeMore
      <3> QED BY <3>1, <3>2
    <2>2. CASE ~LostLast(p)
      BY <1>1, <1>3, <2>2, WholeBelow
    <2> QED BY <2>1, <2>2
  <1>6. WholeUpTo(over, last, more)
    BY <1>1, <1>5, WholeLasts DEF came
  <1>7. FrameOf(xyz', p.idx, more) /\ (xyz'.is_last_sub_frame <=> IsLastSubFrame(p))
    <2>1. FrameOf(Begun(p), p.idx, more) /\ (Begun(p).is_last_sub_frame <=> IsLastSubFrame(p))
      BY <1>1, <1>4, BegunHolds DEF came
    <2> QED BY <2>1
  <1>8. LastIn(more, p.idx) <=> IsLastSubFrame(p)
    BY <1>4 DEF LastIn, came
  <1>9. WholeUpTo(frames', IF IsLastSubFrame(p) THEN p.idx ELSE p.idx - 1, more) /\ Indices(over) \subseteq Indices(frames')
        /\ (IsLastSubFrame(p) => p.idx \in Indices(frames'))
    <2>1. CASE IsLastSubFrame(p)
      <3>1. WholeUpTo(Append(over, xyz'), p.idx, more) /\ Indices(Append(over, xyz')) = Indices(over) \cup {p.idx}
        BY <1>1, <1>6, <1>7, WholeMore
      <3> QED BY <2>1, <3>1
    <2>2. CASE ~IsLastSubFrame(p)
      BY <1>1, <1>6, <2>2, WholeBelow
    <2> QED BY <2>1, <2>2
  <1>10. ASSUME NEW n \in 0..MaxIdx, Due(n, more) PROVE n \in Indices(frames')
    <2>1. CASE Due(n, came)
      BY <1>3, <1>5, <1>9, <2>1
    <2>2. CASE n = p.idx /\ IsLastSubFrame(p)
      BY <1>9, <2>2
    <2>3. CASE n + 1 = p.idx /\ n # 0 /\ \E c \in came : c.idx = n
      <3>1. n = last
        BY <1>1, <1>4, <2>3
      <3>2. CASE ended
        <4>1. Due(n, came)
          BY <2>3, <3>1, <3>2 DEF Due, ended, came, last
        <4> QED BY <2>1, <4>1
      <3>3. CASE ~ended
        <4>1. LostLast(p)
          BY <1>1, <1>3, <2>3, <3>1, <3>3 DEF LostLast, last
        <4> QED BY <1>5, <1>9, <3>1, <4>1
      <3> QED BY <3>2, <3>3
    <2> QED BY <1>1, <1>4, <1>10, <2>1, <2>2, <2>3, DueLater DEF came
  <1> HIDE DEF more
  <1> QED BY <1>2, <1>7, <1>8, <1>9, <1>10 DEF FrameInv

(* It goes into the frame in xyz.                                          *)
LEMMA FrameContinues ==
  ASSUME StagesAssumption, StagesTypeOK, CollectedInv, FrameInv, NEW p \in Data, p.idx = last_frame_idx,
         \A c \in Came : Before(c, p), xyz' = Continued(p),
         frames' = (IF IsLastSubFrame(p) THEN Append(frames, xyz') ELSE frames),
         last_frame_idx' = p.idx, collected' = Append(collected, p)
  PROVE  FrameInv'
  <1> DEFINE n == p.idx
             more == Came \cup {p}
  <1>1. n \in Nat /\ n \in 0..MaxIdx /\ Came \in SUBSET Data /\ n - 1 \in Int /\ n > n - 1
    BY CameIsData, DataFields
  <1>2. Came' = more
    BY CameMore
  <1>3. \A c \in Came : c.idx <= n /\ ~(c.idx = n /\ IsLastSubFrame(c))
    BY <1>1, DataFields DEF Before, IsLastSubFrame
  <1>4. ~LastIn(Came, n)
    BY <1>3 DEF LastIn
  <1>5. /\ FrameOf(xyz, n, Came) /\ (n # 0 => ~xyz.is_last_sub_frame)
        /\ WholeUpTo(frames, n - 1, Came) /\ \A k \in 0..MaxIdx : Due(k, Came) => k \in Indices(frames)
    BY <1>4 DEF FrameInv
  <1>6. FrameOf(xyz', n, more) /\ (xyz'.is_last_sub_frame <=> xyz.is_last_sub_frame \/ IsLastSubFrame(p))
    BY <1>1, <1>5, ContinuedHolds
  <1>7. LastIn(more, n) <=> IsLastSubFrame(p)
    BY <1>3 DEF LastIn
  <1>8. WholeUpTo(frames, n - 1, more)
    BY <1>1, <1>5, WholeLasts
  <1>9. WholeUpTo(frames', IF IsLastSubFrame(p) THEN n ELSE n - 1, more) /\ Indices(frames) \subseteq Indices(frames')
        /\ (IsLastSubFrame(p) => n \in Indices(frames'))
    <2>1. CASE IsLastSubFrame(p)
      <3>1. WholeUpTo(Append(frames, xyz'), n, more) /\ Indices(Append(frames, xyz')) = Indices(frames) \cup {n}
        BY <1>1, <1>6, <1>8, WholeMore
      <3> QED BY <2>1, <3>1
    <2>2. CASE ~IsLastSubFrame(p)
      BY <1>8, <2>2
    <2> QED BY <2>1, <2>2
  <1>10. ASSUME NEW k \in 0..MaxIdx, Due(k, more) PROVE k \in Indices(frames')
    <2>1. \/ Due(k, Came)
          \/ k = n /\ IsLastSubFrame(p)
          \/ k + 1 = n /\ k # 0 /\ (\E c \in Came : c.idx = k) /\ \A c \in Came : c.idx # k + 1
      <3>1. \A c \in Came : c.idx <= p.idx
        BY <1>3
      <3> QED BY <1>1, <1>10, <3>1, DueLater
    <2>2. ~(k + 1 = n /\ \A c \in Came : c.idx # k + 1)
      <3>1. k \in Nat
        OBVIOUS
      <3> QED BY <1>1, <3>1 DEF CollectedInv
    <2> QED BY <1>5, <1>9, <2>1, <2>2
  <1> HIDE DEF more
  <1> QED BY <1>2, <1>6, <1>7, <1>5, <1>9, <1>10 DEF FrameInv

LEMMA FramesStay ==
  ASSUME FrameInv, UNCHANGED frameVars
  PROVE  FrameInv'
  <1>1. UNCHANGED <<xyz, last_frame_idx, collected, frames, Came>>
    BY DEF frameVars, Came
  <1> QED BY <1>1 DEF FrameInv

LEMMA FramesAtFirst == StagesAssumption /\ StagesInit => FramesInv
  <1> SUFFICES ASSUME StagesAssumption, StagesInit PROVE FramesInv
    OBVIOUS
  <1>1. /\ deliver = <<>> /\ job = NoPacket /\ last_frame_idx = 0 /\ last_sent = NoPacket
        /\ collected = <<>> /\ frames = <<>> /\ xyz \in [idx : {NoPacket}, is_last_sub_frame : BOOLEAN, packets : {<<>>}]
    BY DEF StagesInit
  <1>2. DOMAIN deliver = {} /\ DOMAIN frames = {} /\ Came = {} /\ frames \in Seq(FrameType) /\ <<>> \in Seq(Data)
    BY <1>1, EmptySeq DEF Came
  <1>3. LineInv
    BY <1>1, <1>2 DEF LineInv, Line
  <1>4. CollectedInv
    BY <1>1, <1>2 DEF CollectedInv
  <1>5. FrameOf(xyz, 0, Came)
    <2>1. xyz \in FrameType /\ xyz.packets = <<>> /\ xyz.idx = NoPacket /\ DOMAIN xyz.packets = {}
      BY <1>1, <1>2 DEF FrameType
    <2> QED BY <1>2, <2>1 DEF FrameOf, Index
  <1>6. ~LastIn(Came, 0) /\ \A n : ~Due(n, Came)
    BY <1>2 DEF LastIn, Due
  <1>7. WholeUpTo(frames, 0 - 1, Came)
    BY <1>2 DEF WholeUpTo
  <1>8. xyz.is_last_sub_frame \in BOOLEAN
    BY <1>1
  <1>9. FrameInv
    BY <1>1, <1>5, <1>6, <1>7 DEF FrameInv
  <1> QED BY <1>3, <1>4, <1>9 DEF FramesInv

LEMMA FramesStep ==
  ASSUME StagesAssumption, StagesTypeOK, FramesInv, [StagesNext]_stagesVars
  PROVE  FramesInv'
  <1> USE DEF FramesInv
  <1>1. ASSUME NEW p \in Data \cup Controls, AddDeliverJob(p) PROVE FramesInv'
    <2>1. UNCHANGED frameVars
      BY <1>1 DEF AddDeliverJob
    <2> QED BY <1>1, <2>1, LineAdds, FramesStay
  <1>2. CASE TakeJob
    <2>1. UNCHANGED frameVars
      BY <1>2 DEF TakeJob
    <2> QED BY <1>2, <2>1, LineMoves, FramesStay
  <1>3. CASE DropJob \/ CallBackPacket \/ ProcessControl \/ FinishHandedOver
    <2>1. UNCHANGED frameVars /\ job' = NoPacket /\ UNCHANGED <<inputVars, deliver>>
      BY <1>3, Zenon DEF DropJob, CallBackPacket, ProcessControl, FinishHandedOver, FreeJob
    <2>2. UNCHANGED <<settings, last_sent, late_sent, deliver, collected, last_frame_idx>>
      BY <2>1 DEF inputVars, frameVars
    <2> QED BY <2>1, <2>2, LineClears, FramesStay
  <1>4. CASE HandOverPacket \/ HandOverXyz
    <2>1. settings.callback # "xyz_frame" /\ UNCHANGED <<inputVars, frameVars>>
      BY <1>4 DEF HandOverPacket, HandOverXyz, DataJob
    <2>2. UNCHANGED <<settings, last_sent, collected, last_frame_idx, Came>>
      BY <2>1 DEF inputVars, frameVars, Came
    <2>3. LineInv' /\ CollectedInv'
      BY <2>1, <2>2 DEF LineInv, CollectedInv
    <2> QED BY <2>1, <2>3, FramesStay
  <1>5. CASE ConvertIntoNothing \/ TakeJob2 \/ ProcessJob2 \/ UNCHANGED stagesVars
    <2>1. UNCHANGED <<inputVars, deliver, job, frameVars>>
      BY <1>5, Zenon DEF ConvertIntoNothing, TakeJob2, ProcessJob2, stagesVars
    <2>2. UNCHANGED <<settings, last_sent, late_sent, deliver, job, collected, last_frame_idx, Came>>
      BY <2>1 DEF inputVars, frameVars, Came
    <2>3. UNCHANGED Line /\ CollectedInv'
      BY <2>2 DEF Line, Placed, Ahead, Behind, InTurn, CollectedInv
    <2> QED BY <2>1, <2>2, <2>3, FramesStay DEF LineInv
  <1>6. CASE CollectIntoFrame
    <2> DEFINE p == job.pkt
    <2>1. /\ job # NoPacket /\ IsData(p) /\ settings.callback = "xyz_frame" /\ job' = NoPacket
          /\ UNCHANGED <<settings, last_sent, late_sent, deliver>>
      BY <1>6 DEF CollectIntoFrame, DataJob, Working, FreeJob, IsData, inputVars
    <2>2. p \in Data /\ p.idx \in Nat /\ last_frame_idx \in Nat
      BY <2>1, WaitingPackets, DataFields
    <2>3. Placed(p)
      BY <2>1 DEF LineInv, Line
    <2>4. CASE Behind(p)
      <3>1. last_frame_idx # p.idx /\ OfFrameBefore(p) /\ ~LostLast(p)
        BY <2>2, <2>4 DEF Behind, OfFrameBefore, LostLast
      <3>2. UNCHANGED <<xyz, last_frame_idx, collected, frames>>
        BY <1>6, <3>1, Zenon DEF CollectIntoFrame
      <3>3. UNCHANGED frameVars
        BY <3>2 DEF frameVars
      <3> QED BY <2>1, <3>2, <3>3, LineClears, FramesStay
    <2>5. CASE ~Behind(p)
      <3>1. Ahead(p)
        BY <2>3, <2>5 DEF Placed
      <3>2. ~(last_frame_idx # p.idx /\ OfFrameBefore(p))
        BY <2>2, <3>1 DEF Ahead, OfFrameBefore
      <3> DEFINE begin == last_frame_idx # p.idx
                 over  == IF begin /\ LostLast(p) THEN Append(frames, xyz) ELSE frames
      <3>3. /\ xyz' = (IF begin THEN Begun(p) ELSE Continued(p))
            /\ frames' = (IF IsLastSubFrame(p) THEN Append(over, xyz') ELSE over)
            /\ last_frame_idx' = p.idx /\ collected' = Append(collected, p)
        BY <1>6, <3>2, Zenon DEF CollectIntoFrame
      <3>4. LineInv' /\ CollectedInv'
        BY <2>1, <2>5, <3>3, LineCollects
      <3>5. CASE begin
        <4>1. p.idx > last_frame_idx
          BY <2>2, <3>1, <3>5 DEF Ahead
        <4>2. over = IF LostLast(p) THEN Append(frames, xyz) ELSE frames
          BY <3>5
        <4> HIDE DEF over
        <4>3. FrameInv'
          BY <2>2, <3>3, <3>5, <4>1, <4>2, FrameBegins
        <4> QED BY <3>4, <4>3
      <3>6. CASE ~begin
        <4>1. \A c \in Came : Before(c, p)
          BY <3>1 DEF Ahead
        <4>2. FrameInv'
          BY <2>2, <3>3, <3>6, <4>1, FrameContinues
        <4> QED BY <3>4, <4>2
      <3> QED BY <3>5, <3>6
    <2> QED BY <2>4, <2>5
  <1> QED BY <1>1, <1>2, <1>3, <1>4, <1>5, <1>6 DEF StagesNext, Running

LEMMA AbilityStep ==
  ASSUME TableIsOfThisMode, [StagesNext]_stagesVars
  PROVE  TableIsOfThisMode'
  <1>1. CASE ProcessControl
    BY <1>1 DEF ProcessControl, TableAfterStatus, TableIsOfThisMode
  <1>2. CASE UNCHANGED controlVars
    BY <1>2 DEF controlVars, TableIsOfThisMode
  <1>3. StagesNext => ProcessControl \/ UNCHANGED controlVars
    BY DEF StagesNext, Running, AddDeliverJob, TakeJob, DropJob, CallBackPacket, HandOverPacket, HandOverXyz,
           ConvertIntoNothing, FinishHandedOver, TakeJob2, ProcessJob2, CollectIntoFrame
  <1>4. UNCHANGED stagesVars => UNCHANGED controlVars
    BY DEF stagesVars
  <1> QED BY <1>1, <1>2, <1>3, <1>4

LEMMA FramesDelivered ==
  ASSUME StagesAssumption, StagesTypeOK, FramesInv, TableIsOfThisMode
  PROVE  DeliveredFramesAreWhole
  <1>1. PICK top \in Int : WholeUpTo(frames, top, Came)
    BY DEF FramesInv, FrameInv, StagesTypeOK
  <1>2. FramesHoldWhatCame
    <2> SUFFICES ASSUME NEW i \in DOMAIN frames
                 PROVE  LET f == frames[i]
                        IN  /\ {f.packets[k] : k \in DOMAIN f.packets} = CameOf(Index(f))
                            /\ \A k, l \in DOMAIN f.packets : k < l => f.packets[k].sub < f.packets[l].sub
                            /\ f.idx = IF Index(f) = 0 THEN NoPacket ELSE Index(f)
      BY DEF FramesHoldWhatCame
    <2>1. PICK n \in 0..top : FrameOf(frames[i], n, Came)
      BY <1>1 DEF WholeUpTo
    <2> QED BY <2>1 DEF FrameOf, CameOf
  <1>3. FramesInOrder
    BY <1>1 DEF WholeUpTo, FramesInOrder
  <1>4. FramesCome
    <2> SUFFICES ASSUME NEW idx \in 0..MaxIdx, CameOf(idx) # {},
                        (\E p \in CameOf(idx) : IsLastSubFrame(p)) \/ (idx # 0 /\ CameOf(idx + 1) # {})
                 PROVE  \E i \in DOMAIN frames : Index(frames[i]) = idx
      BY DEF FramesCome
    <2>1. Due(idx, Came)
      BY DEF Due, LastIn, CameOf
    <2>2. idx \in Indices(frames)
      BY <2>1 DEF FramesInv, FrameInv
    <2> QED BY <2>2 DEF Indices
  <1> QED BY <1>2, <1>3, <1>4 DEF DeliveredFramesAreWhole

LEMMA BuffersKept == StagesTypeOK /\ BufferInv => PacketBuffersAccounted
  <1> SUFFICES ASSUME StagesTypeOK, BufferInv PROVE PacketBuffersAccounted
    OBVIOUS
  <1>1. Cardinality(Queued) = Len(deliver) /\ Cardinality(Queued2) = Len(deliver2)
    BY QueueSizes DEF BufferInv
  <1> QED BY <1>1, Zenon DEF BufferInv, IsPartition, PacketBuffersAccounted

-----------------------------------------------------------------------------
(* The packets, the jobs and the frames are what the stages take them for. *)
THEOREM StagesTypes ==
  ASSUME StagesAssumption
  PROVE  StagesSpec => []StagesTypeOK
  <1>1. StagesInit => StagesTypeOK
    BY TypesInit
  <1>2. StagesTypeOK /\ [StagesNext]_stagesVars => StagesTypeOK'
    BY TypesStep
  <1> QED BY <1>1, <1>2, PTL DEF StagesSpec

(* No buffer of the packet pool is in two places, none gets lost and none  *)
(* is read after it was freed, but with the second stage on; and while     *)
(* none is lost, a pool larger than the two queues is never empty when     *)
(* points are converted into a second buffer.                              *)
THEOREM StagesKeepBuffers ==
  ASSUME StagesAssumption
  PROVE  StagesSpec => []PacketBuffersAccounted
  <1>1. StagesInit => StagesTypeOK /\ BufferInv
    BY TypesInit, BuffersAtFirst
  <1>2. StagesTypeOK /\ BufferInv /\ [StagesNext]_stagesVars => (StagesTypeOK /\ BufferInv)'
    BY TypesStep, BuffersStep
  <1>3. StagesTypeOK /\ BufferInv => PacketBuffersAccounted
    BY BuffersKept
  <1> QED BY <1>1, <1>2, <1>3, PTL DEF StagesSpec

(* The frames that the first stage delivers are whole, in order and come   *)
(* once, for any number of frames and of packets in them, whatever is lost *)
(* on the way and with one packet that comes a frame late; the table of    *)
(* ring ids is of the lidar's mode.                                        *)
THEOREM StagesDeliverWholeFrames ==
  ASSUME StagesAssumption
  PROVE  StagesSpec => []DeliveredFramesAreWhole
  <1>1. StagesInit => StagesTypeOK /\ FramesInv /\ TableIsOfThisMode
    <2>1. StagesInit => TableIsOfThisMode
      BY DEF StagesInit, TableIsOfThisMode
    <2> QED BY <2>1, TypesInit, FramesAtFirst
  <1>2. StagesTypeOK /\ FramesInv /\ TableIsOfThisMode /\ [StagesNext]_stagesVars
        => (StagesTypeOK /\ FramesInv /\ TableIsOfThisMode)'
    BY TypesStep, FramesStep, AbilityStep
  <1>3. StagesTypeOK /\ FramesInv /\ TableIsOfThisMode => DeliveredFramesAreWhole
    BY FramesDelivered
  <1> QED BY <1>1, <1>2, <1>3, PTL DEF StagesSpec

-----------------------------------------------------------------------------
(* The frames of the driver.                                               *)

ScanPackets == [packet : FramePackets, has_table : BOOLEAN]

LEMMA PacketFields ==
  ASSUME NEW p \in FramePackets
  PROVE  p.frame \in 1..MaxFrames /\ p.sub \in 1..PacketsPerFrame
  BY DEF FramePackets

(* The topic keeps the last scans, up to its depth.                        *)
LEMMA Keeping ==
  ASSUME NEW S, NEW q \in Seq(S), Len(q) <= Depth, Depth \in Nat \ {0}, NEW e \in S
  PROVE  /\ KeepLast(Append(q, e)) \in Seq(S)
         /\ Len(KeepLast(Append(q, e))) <= Depth
         /\ Len(q) # Depth => KeepLast(Append(q, e)) = Append(q, e)
         /\ \A i \in DOMAIN KeepLast(Append(q, e)) :
              KeepLast(Append(q, e))[i] = e \/ \E j \in DOMAIN q : KeepLast(Append(q, e))[i] = q[j]
  <1>1. /\ Append(q, e) \in Seq(S) /\ Len(Append(q, e)) = Len(q) + 1 /\ Len(q) \in Nat
        /\ DOMAIN q = 1..Len(q) /\ DOMAIN Append(q, e) = 1..(Len(q) + 1)
        /\ \A i \in 1..Len(q) : Append(q, e)[i] = q[i]
        /\ Append(q, e)[Len(q) + 1] = e
    BY AppendProperties, LenProperties
  <1>2. \A i \in 1..(Len(q) + 1) : Append(q, e)[i] = e \/ \E j \in DOMAIN q : Append(q, e)[i] = q[j]
    <2> TAKE i \in 1..(Len(q) + 1)
    <2>1. i = Len(q) + 1 \/ i \in 1..Len(q)
      BY <1>1
    <2> QED BY <1>1, <2>1
  <1>3. CASE Len(Append(q, e)) > Depth
    <2>1. Append(q, e) # <<>>
      BY <1>1, EmptySeq
    <2>2. KeepLast(Append(q, e)) = Tail(Append(q, e))
      BY <1>3, Zenon DEF KeepLast
    <2>5. Len(q) = Depth
      <3>1. Len(q) + 1 > Depth /\ Len(q) \in Nat /\ Depth \in Nat
        BY <1>1, <1>3, Zenon
      <3> HIDE <1>1, <1>3
      <3> QED BY <3>1
    <2>3. /\ Tail(Append(q, e)) \in Seq(S) /\ Len(Tail(Append(q, e))) = Len(q)
          /\ \A i \in 1..Len(q) : Tail(Append(q, e))[i] = Append(q, e)[i + 1]
      BY <1>1, <2>1, HeadTailProperties
    <2>4. DOMAIN Tail(Append(q, e)) = 1..Len(q) /\ \A i \in 1..Len(q) : i + 1 \in 1..(Len(q) + 1)
      BY <1>1, <2>3, LenProperties
    <2> QED BY <1>2, <2>2, <2>3, <2>4, <2>5, Zenon
  <1>4. CASE ~(Len(Append(q, e)) > Depth)
    <2>1. KeepLast(Append(q, e)) = Append(q, e)
      BY <1>4, Zenon DEF KeepLast
    <2>2. Len(Append(q, e)) <= Depth
      BY <1>1, <1>4
    <2> QED BY <1>1, <1>2, <2>1, <2>2, Zenon
  <1> QED BY <1>3, <1>4
(* The scan that is sent when p comes.                                     *)
SentScan(p) ==
  [last |-> IsNextFrame(p), size |-> packets_width, packets |-> scan, first |-> ~scanned,
   stamp |-> IF IsNextFrame(p) THEN frame_start_ts ELSE NoFrame]

LEMMA SentFields ==
  ASSUME NEW p
  PROVE  /\ SentScan(p).last = IsNextFrame(p) /\ SentScan(p).size = packets_width
         /\ SentScan(p).packets = scan /\ SentScan(p).first = ~scanned
         /\ SentScan(p).stamp = IF IsNextFrame(p) THEN frame_start_ts ELSE NoFrame
  BY DEF SentScan

LEMMA SentIsScan ==
  ASSUME FramesTypeOK, NEW p \in FramePackets
  PROVE  SentScan(p) \in Scans
  <1>1. IsNextFrame(p) \in BOOLEAN /\ (~scanned) \in BOOLEAN
    BY Zenon DEF IsNextFrame
  <1>2. (IF IsNextFrame(p) THEN frame_start_ts ELSE NoFrame) \in FramePackets \cup {NoFrame}
    BY DEF FramesTypeOK
  <1> QED BY <1>1, <1>2, Zenon DEF SentScan, Scans, FramesTypeOK

(* What each way to take a packet does to what is sent.                    *)
LEMMA AppendSent ==
  ASSUME FramesTypeOK, FramesAssumption, NEW p \in FramePackets, PublishPacket(p)
  PROVE  IF SendsScan(p)
         THEN /\ scanned' = TRUE /\ topic' = KeepLast(Append(topic, SentScan(p)))
              /\ lost' = (lost \/ Len(topic) = Depth)
         ELSE scanned' = scanned /\ topic' = topic /\ lost' = lost
  BY Zenon DEF PublishPacket, SendScan, SentScan

(* A packet joins the scan, a new one if the old one is sent.              *)
LEMMA ScanGrows ==
  ASSUME FramesTypeOK, NEW p \in FramePackets, PublishPacket(p)
  PROVE  \E e \in ScanPackets :
           /\ e.packet = p
           /\ scan' = Append(IF SendsScan(p) THEN <<>> ELSE scan, e)
  <1> DEFINE has == CountAfter(p) = TableEvery /\ anglehv_table_init'
             e   == [packet |-> p, has_table |-> has]
  <1>1. scan' = Append(IF SendsScan(p) THEN <<>> ELSE scan, e)
    BY DEF PublishPacket
  <1>2. has \in BOOLEAN
    BY Zenon
  <1>3. e \in ScanPackets /\ e.packet = p
    BY <1>2 DEF ScanPackets
  <1> HIDE DEF e
  <1> QED BY <1>1, <1>3

LEMMA TypeInit == FramesAssumption /\ FramesInit => FramesTypeOK
  <1> SUFFICES ASSUME FramesAssumption, FramesInit PROVE FramesTypeOK
    OBVIOUS
  <1>1. /\ anglehv_table_init \in BOOLEAN /\ scanned \in BOOLEAN
        /\ lost \in BOOLEAN /\ replay_table \in BOOLEAN
    BY Zenon DEF FramesInit
  <1>2. cloud \in Seq(FramePackets) /\ received \in Seq(FramePackets) /\ scan \in Seq(ScanPackets) /\ topic \in Seq(Scans)
    BY EmptySeq DEF FramesInit
  <1>3. Len(topic) <= Depth
    <2>1. topic = <<>> /\ Depth \in Nat \ {0}
      BY DEF FramesInit, FramesAssumption
    <2>2. Len(topic) = 0
      BY <2>1
    <2> QED BY <2>1, <2>2
  <1>4. frame_count \in Nat /\ packets_width \in Nat /\ published \in Nat
    BY DEF FramesInit, FramesAssumption
  <1>5. current_frame_id = -1 /\ frame_start_ts = NoFrame /\ frame = NoFrame
    BY DEF FramesInit
  <1> QED BY <1>1, <1>2, <1>3, <1>4, <1>5 DEF FramesTypeOK, ScanPackets

LEMMA TypeData ==
  ASSUME FramesTypeOK, FramesAssumption, NEW p \in FramePackets, DataCallback(p)
  PROVE  FramesTypeOK'
  <1>1. /\ received' \in Seq(FramePackets) /\ received' = Append(received, p)
        /\ MaxFrames \in Nat /\ p.frame \in 1..MaxFrames
    <2>1. received' = Append(received, p) /\ received \in Seq(FramePackets)
      BY DEF DataCallback, FramesTypeOK
    <2> QED BY <2>1, AppendProperties, PacketFields DEF FramesAssumption
  <1>2. CASE FirstPacket(p)
    <2>1. UNCHANGED <<anglehv_table_init, adapterVars, replay_table, outVars>>
      BY <1>2 DEF FirstPacket
    <2>2. current_frame_id' = p.frame /\ frame_start_ts' = p
      BY <1>2 DEF FirstPacket
    <2> QED BY <1>1, <2>1, <2>2 DEF FramesTypeOK, adapterVars, outVars
  <1>3. ASSUME AskForTable, Begin(p)
        PROVE  /\ anglehv_table_init' \in BOOLEAN
               /\ current_frame_id' \in {-1} \cup (1..MaxFrames)
               /\ frame_start_ts' \in FramePackets \cup {NoFrame}
    <2>1. anglehv_table_init' \in BOOLEAN
      BY <1>3, Zenon DEF AskForTable
    <2> QED BY <1>1, <1>3, <2>1 DEF Begin, FramesTypeOK
  <1>4. CASE CollectPacket(p)
    <2>1. AskForTable /\ Begin(p) /\ UNCHANGED <<adapterVars, replay_table>>
      BY <1>4 DEF CollectPacket
    <2>2. cloud' \in Seq(FramePackets) /\ published' \in Nat
          /\ frame' \in [stamp : FramePackets \cup {NoFrame}, packets : Seq(FramePackets)] \cup {NoFrame}
      <3>1. <<>> \in Seq(FramePackets) /\ cloud \in Seq(FramePackets) /\ frame_start_ts \in FramePackets \cup {NoFrame}
        BY EmptySeq DEF FramesTypeOK
      <3>2. Append(<<>>, p) \in Seq(FramePackets) /\ Append(cloud, p) \in Seq(FramePackets)
        BY <3>1, AppendProperties
      <3>3. [stamp |-> frame_start_ts, packets |-> cloud]
              \in [stamp : FramePackets \cup {NoFrame}, packets : Seq(FramePackets)]
        BY <3>1
      <3>4. CASE IsNextFrame(p)
        <4>1. frame' = [stamp |-> frame_start_ts, packets |-> cloud] /\ published' = published + 1
              /\ cloud' = Append(<<>>, p)
          BY <1>4, <3>4 DEF CollectPacket, Publish, Cleared
        <4> QED BY <3>2, <3>3, <4>1 DEF FramesTypeOK
      <3>5. CASE ~IsNextFrame(p)
        <4>1. cloud' = Append(cloud, p) /\ frame' = frame /\ published' = published
          BY <1>4, <3>5 DEF CollectPacket
        <4> QED BY <3>2, <4>1 DEF FramesTypeOK
      <3> QED BY <3>4, <3>5
    <2> QED BY <1>1, <1>3, <2>1, <2>2 DEF FramesTypeOK, adapterVars
  <1>5. CASE PublishPacket(p)
    <2>1. AskForTable /\ Begin(p) /\ UNCHANGED <<replay_table, outVars>>
      BY <1>5 DEF PublishPacket
    <2>2. packets_width' \in Nat /\ frame_count' \in Nat
      <3>1. packets_width' = WidthAfter(p) /\ packets_width \in Nat /\ frame_count \in Nat
        BY <1>5 DEF PublishPacket, FramesTypeOK
      <3>2. frame_count' \in {0, frame_count, frame_count + 1}
        BY <1>5 DEF PublishPacket, Restart, CountAfter
      <3> QED BY <3>1, <3>2 DEF WidthAfter
    <2>3. scan' \in Seq(ScanPackets)
      <3>1. (IF SendsScan(p) THEN <<>> ELSE scan) \in Seq(ScanPackets)
        BY EmptySeq DEF FramesTypeOK, ScanPackets
      <3> QED BY <1>5, <3>1, ScanGrows, AppendProperties
    <2>4. /\ topic' \in Seq(Scans) /\ Len(topic') <= Depth
          /\ scanned' \in BOOLEAN /\ lost' \in BOOLEAN
      <3>1. topic \in Seq(Scans) /\ Len(topic) <= Depth /\ Depth \in Nat \ {0} /\ SentScan(p) \in Scans
        BY SentIsScan DEF FramesTypeOK, FramesAssumption
      <3>2. /\ KeepLast(Append(topic, SentScan(p))) \in Seq(Scans)
            /\ Len(KeepLast(Append(topic, SentScan(p)))) <= Depth
        BY <3>1, Keeping
      <3>3. scanned' \in BOOLEAN /\ lost' \in BOOLEAN
        BY <1>5, AppendSent, Zenon DEF FramesTypeOK
      <3>4. topic' \in {topic, KeepLast(Append(topic, SentScan(p)))}
        BY <1>5, AppendSent
      <3> QED BY <3>1, <3>2, <3>3, <3>4, Zenon
    <2> QED BY <1>1, <1>3, <2>1, <2>2, <2>3, <2>4 DEF FramesTypeOK, outVars, ScanPackets
  <1> QED BY <1>2, <1>4, <1>5 DEF DataCallback
(* The packets of a scan without their tables.                             *)
LEMMA Unpacked ==
  ASSUME NEW s \in Seq(ScanPackets)
  PROVE  /\ [i \in DOMAIN s |-> s[i].packet] \in Seq(FramePackets)
         /\ Len([i \in DOMAIN s |-> s[i].packet]) = Len(s)
         /\ \A i \in 1..Len(s) : [j \in DOMAIN s |-> s[j].packet][i] = s[i].packet
  <1>1. Len(s) \in Nat /\ DOMAIN s = 1..Len(s) /\ \A i \in 1..Len(s) : s[i] \in ScanPackets
    BY LenProperties, ElementOfSeq
  <1> DEFINE u == [i \in 1..Len(s) |-> s[i].packet]
  <1>2. u \in [1..Len(s) -> FramePackets]
    BY <1>1 DEF ScanPackets
  <1>3. u \in Seq(FramePackets)
    BY <1>1, <1>2, SeqDef
  <1>4. DOMAIN u = 1..Len(s) /\ DOMAIN u = 1..Len(u) /\ Len(u) \in Nat
    BY <1>2, <1>3, LenProperties
  <1>5. Len(u) = Len(s)
    <2> HIDE DEF u
    <2> QED BY <1>1, <1>4
  <1>6. \A i \in 1..Len(s) : u[i] = s[i].packet
    OBVIOUS
  <1> QED BY <1>1, <1>3, <1>5, <1>6, Zenon

LEMMA HeadIsScan ==
  ASSUME FramesTypeOK, topic # <<>>
  PROVE  /\ Head(topic) \in Scans /\ Head(topic) = topic[1] /\ Head(topic).packets \in Seq(ScanPackets)
         /\ Head(topic).stamp \in FramePackets \cup {NoFrame}
         /\ Tail(topic) \in Seq(Scans) /\ Len(Tail(topic)) = Len(topic) - 1 /\ Len(topic) \in Nat \ {0}
         /\ DOMAIN topic = 1..Len(topic) /\ DOMAIN Tail(topic) = 1..(Len(topic) - 1)
         /\ \A i \in 1..(Len(topic) - 1) : Tail(topic)[i] = topic[i + 1]
  <1>1. topic \in Seq(Scans)
    BY DEF FramesTypeOK
  <1>2. /\ Head(topic) \in Scans /\ Tail(topic) \in Seq(Scans) /\ Len(Tail(topic)) = Len(topic) - 1
        /\ \A i \in 1..Len(Tail(topic)) : Tail(topic)[i] = topic[i + 1]
    BY <1>1, HeadTailProperties
  <1>3. Len(topic) \in Nat \ {0} /\ DOMAIN topic = 1..Len(topic) /\ DOMAIN Tail(topic) = 1..Len(Tail(topic))
    BY <1>1, <1>2, LenProperties, EmptySeq
  <1>4. Head(topic) = topic[1]
    OBVIOUS
  <1> QED BY <1>2, <1>3, <1>4 DEF Scans, ScanPackets

LEMMA CollectedIsTyped ==
  ASSUME FramesTypeOK, topic # <<>>
  PROVE  Collected \in Seq(FramePackets)
  BY HeadIsScan, Unpacked, ConcatProperties, Zenon DEF Collected, FramesTypeOK

LEMMA TypeSubscribe ==
  ASSUME FramesTypeOK, FramesAssumption, SubscribePacket
  PROVE  FramesTypeOK'
  <1>1. topic # <<>> /\ topic' = Tail(topic)
    BY DEF SubscribePacket
  <1>2. topic' \in Seq(Scans) /\ Len(topic') <= Depth
    <2>1. Tail(topic) \in Seq(Scans) /\ Len(Tail(topic)) = Len(topic) - 1 /\ Len(topic) \in Nat
      BY <1>1, HeadIsScan
    <2>2. Depth \in Nat /\ Len(topic) <= Depth
      BY DEF FramesTypeOK, FramesAssumption
    <2> QED BY <1>1, <2>1, <2>2
  <1>3. replay_table' \in BOOLEAN
    <2>1. replay_table' = (replay_table \/ \E i \in DOMAIN Head(topic).packets : Head(topic).packets[i].has_table)
      BY DEF SubscribePacket
    <2> QED BY <2>1, Zenon
  <1>4. cloud' \in Seq(FramePackets) /\ published' \in Nat
        /\ frame' \in [stamp : FramePackets \cup {NoFrame}, packets : Seq(FramePackets)] \cup {NoFrame}
    <2>1. Collected \in Seq(FramePackets) /\ <<>> \in Seq(FramePackets) /\ Head(topic).stamp \in FramePackets \cup {NoFrame}
      BY <1>1, CollectedIsTyped, HeadIsScan, EmptySeq
    <2>2. CASE Head(topic).last
      <3>1. /\ frame' = [stamp |-> Head(topic).stamp, packets |-> Collected]
            /\ published' = published + 1 /\ cloud' = <<>>
        BY <2>2 DEF SubscribePacket, Publish, Cleared
      <3> HIDE DEF Collected
      <3>2. frame' \in [stamp : FramePackets \cup {NoFrame}, packets : Seq(FramePackets)]
        BY <2>1, <3>1
      <3> QED BY <2>1, <3>1, <3>2 DEF FramesTypeOK
    <2>3. CASE ~Head(topic).last
      <3>1. cloud' = Collected /\ frame' = frame /\ published' = published
        BY <2>3, Zenon DEF SubscribePacket
      <3> QED BY <2>1, <3>1 DEF FramesTypeOK
    <2> QED BY <2>2, <2>3
  <1>5. UNCHANGED <<driverVars, frame_count, packets_width, scan, scanned, lost, received>>
    BY DEF SubscribePacket
  <1> QED BY <1>2, <1>3, <1>4, <1>5 DEF FramesTypeOK, driverVars

(* Every variable keeps its type, and the topic its depth.                 *)
THEOREM FramesTypes ==
  ASSUME FramesAssumption
  PROVE  FramesSpec => []FramesTypeOK
  <1>1. FramesTypeOK /\ [FramesNext]_framesVars => FramesTypeOK'
    <2> SUFFICES ASSUME FramesTypeOK, [FramesNext]_framesVars PROVE FramesTypeOK'
      OBVIOUS
    <2>1. CASE UNCHANGED framesVars
      BY <2>1 DEF framesVars, driverVars, adapterVars, outVars, FramesTypeOK
    <2> QED BY <2>1, TypeData, TypeSubscribe DEF FramesNext
  <1>2. FramesInit => FramesTypeOK
    BY TypeInit
  <1> QED BY <1>1, <1>2, PTL DEF FramesSpec
-----------------------------------------------------------------------------
(* In packet mode the count stands at the frame that is to carry the table *)
(* only as long as there is no table.                                      *)
TableInv == PacketMode /\ anglehv_table_init => frame_count # TableEvery

LEMMA CountSteps ==
  ASSUME FramesTypeOK, FramesAssumption, NEW p \in FramePackets, PublishPacket(p)
  PROVE  /\ anglehv_table_init => anglehv_table_init'
         /\ anglehv_table_init' => frame_count' # TableEvery
         /\ frame_count' \in {0, frame_count, frame_count + 1}
         /\ anglehv_table_init /\ frame_count < TableEvery => frame_count' <= TableEvery
  <1> DEFINE has == CountAfter(p) = TableEvery /\ anglehv_table_init'
  <1>1. frame_count' = IF has THEN 0 ELSE CountAfter(p)
    BY DEF PublishPacket, Restart
  <1>2. anglehv_table_init => anglehv_table_init'
    <2>1. AskForTable
      BY DEF PublishPacket
    <2> QED BY <2>1, Zenon DEF AskForTable
  <1>3. CountAfter(p) \in {frame_count, frame_count + 1} /\ frame_count \in Nat /\ TableEvery \in Nat \ {0}
    BY DEF CountAfter, FramesTypeOK, FramesAssumption
  <1>4. anglehv_table_init' => frame_count' # TableEvery
    <2> SUFFICES ASSUME anglehv_table_init', frame_count' = TableEvery PROVE FALSE
      OBVIOUS
    <2>1. CASE CountAfter(p) = TableEvery
      BY <1>1, <1>3, <2>1
    <2>2. CASE CountAfter(p) # TableEvery
      BY <1>1, <1>3, <2>2
    <2> QED BY <2>1, <2>2
  <1> HIDE DEF has
  <1> QED BY <1>1, <1>2, <1>3, <1>4

LEMMA TableStep ==
  ASSUME FramesTypeOK, FramesAssumption, [FramesNext]_framesVars
  PROVE  \/ \E p \in FramePackets : PublishPacket(p)
         \/ UNCHANGED <<anglehv_table_init, frame_count>>
         \/ ~PacketMode /\ UNCHANGED frame_count
  <1>1. ASSUME NEW p \in FramePackets, DataCallback(p)
        PROVE  \/ PublishPacket(p)
               \/ UNCHANGED <<anglehv_table_init, frame_count>>
               \/ ~PacketMode /\ UNCHANGED frame_count
    BY <1>1 DEF DataCallback, FirstPacket, CollectPacket, adapterVars
  <1>2. CASE SubscribePacket \/ UNCHANGED framesVars
    BY <1>2 DEF SubscribePacket, framesVars, driverVars, adapterVars
  <1> QED BY <1>1, <1>2 DEF FramesNext

(* A driver that has the table, and has not passed the frame that was to   *)
(* carry it, sends it again every table_send_hz_ frames, for any           *)
(* table_send_hz_ and whatever the counter held at first.                  *)
THEOREM TableComesAgain ==
  ASSUME FramesAssumption
  PROVE  FramesSpec => TableRepeats
  <1>1. FramesInit => TableInv
    BY DEF FramesInit, TableInv
  <1>2. FramesTypeOK /\ TableInv /\ [FramesNext]_framesVars => TableInv'
    <2> SUFFICES ASSUME FramesTypeOK, TableInv, [FramesNext]_framesVars PROVE TableInv'
      OBVIOUS
    <2>1. CASE \E p \in FramePackets : PublishPacket(p)
      BY <2>1, CountSteps DEF TableInv
    <2>2. CASE UNCHANGED <<anglehv_table_init, frame_count>>
      BY <2>2 DEF TableInv
    <2>3. CASE ~PacketMode /\ UNCHANGED frame_count
      BY <2>3 DEF TableInv
    <2> QED BY <2>1, <2>2, <2>3, TableStep
  <1>3. FramesTypeOK /\ TableInv /\ [FramesNext]_framesVars
        => [anglehv_table_init /\ frame_count <= TableEvery => frame_count' <= TableEvery]_framesVars
    <2> SUFFICES ASSUME FramesTypeOK, TableInv, [FramesNext]_framesVars, anglehv_table_init, frame_count <= TableEvery
                 PROVE  frame_count' <= TableEvery
      OBVIOUS
    <2>1. CASE \E p \in FramePackets : PublishPacket(p)
      <3>1. PICK p \in FramePackets : PublishPacket(p)
        BY <2>1
      <3>2. PacketMode /\ frame_count \in Nat /\ TableEvery \in Nat
        BY <3>1 DEF PublishPacket, FramesTypeOK, FramesAssumption
      <3>3. frame_count < TableEvery
        BY <3>2 DEF TableInv
      <3> QED BY <3>1, <3>3, CountSteps
    <2>2. CASE UNCHANGED frame_count
      BY <2>2
    <2> QED BY <2>1, <2>2, TableStep
  <1> QED BY <1>1, <1>2, <1>3, FramesTypes, PTL DEF FramesSpec, TableRepeats

-----------------------------------------------------------------------------
(* The scan that is being filled: of one frame, no longer than the counter *)
(* says, and exactly as long once a first scan has been sent.              *)
OfFrame(s, f) == \A k \in DOMAIN s : s[k].packet.frame = f

FillInv ==
  /\ ~PacketMode \/ current_frame_id = -1 => scan = <<>>
  /\ scan # <<>> => OfFrame(scan, current_frame_id)
  /\ Len(scan) <= packets_width /\ Len(scan) <= AggregateNum
  /\ scanned => packets_width = Len(scan)

(* What is said of the scans that wait.                                    *)
SentWell(s) ==
  /\ s.first \/ s.size = Len(s.packets)
  /\ Len(s.packets) <= AggregateNum
  /\ s.packets # <<>> => \E f \in 1..MaxFrames : OfFrame(s.packets, f)

ScansInv == FillInv /\ \A i \in DOMAIN topic : SentWell(topic[i])
LEMMA FillStep ==
  ASSUME FramesTypeOK, FramesAssumption, FillInv, NEW p \in FramePackets, PublishPacket(p)
  PROVE  FillInv'
  <1>1. /\ PacketMode /\ current_frame_id # -1 /\ current_frame_id' = p.frame
        /\ packets_width' = WidthAfter(p) /\ p.frame \in 1..MaxFrames /\ MaxFrames \in Nat
    BY PacketFields DEF PublishPacket, Begin, FramesAssumption
  <1>2. PICK e \in ScanPackets : e.packet = p /\ scan' = Append(IF SendsScan(p) THEN <<>> ELSE scan, e)
    BY ScanGrows
  <1>3. /\ packets_width \in Nat /\ AggregateNum \in Nat \ {0} /\ Len(scan) \in Nat
        /\ scan \in Seq(ScanPackets)
    BY LenProperties DEF FramesTypeOK, FramesAssumption, ScanPackets
  <1>4. ASSUME NEW s \in Seq(ScanPackets), scan' = Append(s, e),
               s # <<>> => OfFrame(s, p.frame)
        PROVE  OfFrame(scan', p.frame) /\ Len(scan') = Len(s) + 1
    <2>1. /\ Len(Append(s, e)) = Len(s) + 1 /\ Append(s, e)[Len(s) + 1] = e
          /\ \A k \in 1..Len(s) : Append(s, e)[k] = s[k]
          /\ Append(s, e) \in Seq(ScanPackets) /\ Len(s) \in Nat /\ DOMAIN s = 1..Len(s)
      BY AppendProperties, LenProperties
    <2>2. DOMAIN Append(s, e) = 1..(Len(s) + 1)
      BY <2>1, LenProperties
    <2>3. ASSUME NEW k \in 1..(Len(s) + 1)
          PROVE  Append(s, e)[k].packet.frame = p.frame
      <3>1. CASE k = Len(s) + 1
        BY <1>2, <2>1, <3>1
      <3>2. CASE k # Len(s) + 1
        <4>1. k \in 1..Len(s)
          BY <2>1, <3>2
        <4>2. s # <<>>
          BY <4>1, EmptySeq
        <4> QED BY <1>4, <2>1, <4>1, <4>2 DEF OfFrame
      <3> QED BY <3>1, <3>2
    <2> QED BY <1>4, <2>1, <2>2, <2>3 DEF OfFrame
  <1>5. CASE SendsScan(p)
    <2>1. scan' = Append(<<>>, e) /\ packets_width' = 1 /\ <<>> \in Seq(ScanPackets) /\ Len(<<>>) = 0
      BY <1>1, <1>2, <1>5, EmptySeq DEF WidthAfter
    <2>3. <<>> # <<>> => OfFrame(<<>>, p.frame)
      OBVIOUS
    <2>2. OfFrame(scan', p.frame) /\ Len(scan') = 0 + 1
      BY <1>4, <2>1, <2>3, Zenon
    <2> QED BY <1>1, <1>3, <2>1, <2>2 DEF FillInv
  <1>6. CASE ~SendsScan(p)
    <2>1. /\ scan' = Append(scan, e) /\ packets_width' = packets_width + 1 /\ scanned' = scanned
          /\ current_frame_id = p.frame /\ ~(packets_width >= AggregateNum)
      BY <1>1, <1>2, <1>6, AppendSent DEF WidthAfter, SendsScan, IsNextFrame
    <2>2. OfFrame(scan', p.frame) /\ Len(scan') = Len(scan) + 1
      BY <1>3, <1>4, <2>1 DEF FillInv
    <2>3. scanned' => packets_width' = Len(scan')
      BY <2>1, <2>2 DEF FillInv
    <2>4. Len(scan') <= packets_width' /\ Len(scan') <= AggregateNum
      BY <1>3, <2>1, <2>2 DEF FillInv
    <2> QED BY <1>1, <2>2, <2>3, <2>4 DEF FillInv
  <1> QED BY <1>5, <1>6

LEMMA SentIsWell ==
  ASSUME FramesTypeOK, FillInv, NEW p \in FramePackets, PublishPacket(p)
  PROVE  SentWell(SentScan(p))
  <1>1. current_frame_id \in 1..MaxFrames
    BY DEF PublishPacket, FramesTypeOK
  <1>2. (~scanned) \/ packets_width = Len(scan)
    BY DEF FillInv
  <1>3. scan # <<>> => \E f \in 1..MaxFrames : OfFrame(scan, f)
    BY <1>1 DEF FillInv
  <1>4. Len(scan) <= AggregateNum
    BY DEF FillInv
  <1> QED BY <1>2, <1>3, <1>4, SentFields, Zenon DEF SentWell

LEMMA ScansStep ==
  ASSUME FramesTypeOK, FramesAssumption, ScansInv, [FramesNext]_framesVars
  PROVE  ScansInv'
  <1>1. CASE \E p \in FramePackets : PublishPacket(p)
    <2>1. PICK p \in FramePackets : PublishPacket(p)
      BY <1>1
    <2>2. FillInv'
      BY <2>1, FillStep DEF ScansInv
    <2>3. SentWell(SentScan(p))
      BY <2>1, SentIsWell DEF ScansInv
    <2>4. \A i \in DOMAIN topic : SentWell(topic[i])
      BY DEF ScansInv
    <2>5. \A i \in DOMAIN topic' : SentWell(topic'[i])
      <3>1. CASE SendsScan(p)
        <4>1. topic' = KeepLast(Append(topic, SentScan(p)))
          BY <2>1, <3>1, AppendSent
        <4>2. \A i \in DOMAIN topic' : topic'[i] = SentScan(p) \/ \E j \in DOMAIN topic : topic'[i] = topic[j]
          BY <2>1, <4>1, Keeping, SentIsScan DEF FramesTypeOK, FramesAssumption
        <4> QED BY <2>3, <2>4, <4>2
      <3>2. CASE ~SendsScan(p)
        BY <2>1, <2>4, <3>2, AppendSent
      <3> QED BY <3>1, <3>2
    <2> QED BY <2>2, <2>5 DEF ScansInv, SentWell
  <1>2. CASE \E p \in FramePackets : FirstPacket(p) \/ CollectPacket(p)
    <2>1. UNCHANGED <<scan, packets_width, scanned, topic>> /\ scan = <<>> /\ (~PacketMode \/ current_frame_id = -1)
      BY <1>2 DEF FirstPacket, CollectPacket, adapterVars, ScansInv, FillInv
    <2> QED BY <2>1 DEF ScansInv, FillInv, SentWell
  <1>3. CASE SubscribePacket
    <2>1. topic # <<>> /\ topic' = Tail(topic) /\ UNCHANGED <<current_frame_id, scan, packets_width, scanned>>
      BY <1>3 DEF SubscribePacket, driverVars
    <2>2. \A i \in DOMAIN topic' : \E j \in DOMAIN topic : topic'[i] = topic[j]
      <3> SUFFICES ASSUME NEW i \in DOMAIN topic' PROVE \E j \in DOMAIN topic : topic'[i] = topic[j]
        OBVIOUS
      <3>1. i + 1 \in DOMAIN topic /\ topic'[i] = topic[i + 1]
        BY <2>1, HeadIsScan
      <3> QED BY <3>1
    <2>3. FillInv'
      BY <2>1 DEF ScansInv, FillInv
    <2> QED BY <2>2, <2>3 DEF ScansInv, SentWell
  <1>4. CASE UNCHANGED framesVars
    BY <1>4 DEF framesVars, driverVars, adapterVars, ScansInv, FillInv, SentWell
  <1> QED BY <1>1, <1>2, <1>3, <1>4 DEF FramesNext, DataCallback

(* The sizes of the scans are those of their packets, of one frame and no  *)
(* more than aggregate_num, for any aggregate_num; only the first scan may *)
(* say something else.                                                     *)
THEOREM SizesAddUp ==
  ASSUME FramesAssumption
  PROVE  FramesSpec => []ScanSizesAddUp
  <1>1. FramesInit => ScansInv
    <2> SUFFICES ASSUME FramesInit PROVE ScansInv
      OBVIOUS
    <2>1. /\ scan = <<>> /\ topic = <<>> /\ packets_width \in Nat /\ scanned = FALSE
          /\ AggregateNum \in Nat
      BY DEF FramesInit, FramesAssumption
    <2>2. Len(scan) = 0 /\ DOMAIN topic = {}
      BY <2>1
    <2> QED BY <2>1, <2>2 DEF ScansInv, FillInv
  <1>2. FramesTypeOK /\ ScansInv => ScanSizesAddUp
    <2> SUFFICES ASSUME FramesTypeOK, ScansInv, NEW i \in DOMAIN topic
                 PROVE  /\ topic[i].first \/ topic[i].size = Len(topic[i].packets)
                        /\ Len(topic[i].packets) <= AggregateNum
                        /\ Cardinality({topic[i].packets[k].packet.frame : k \in DOMAIN topic[i].packets}) <= 1
      BY DEF ScanSizesAddUp
    <2> DEFINE of == {topic[i].packets[k].packet.frame : k \in DOMAIN topic[i].packets}
    <2>1. SentWell(topic[i])
      BY DEF ScansInv
    <2>2. CASE topic[i].packets = <<>>
      <3>1. of = {}
        BY <2>2
      <3>2. Cardinality(of) = 0
        BY <3>1, FS_EmptySet, Zenon
      <3>3. Cardinality(of) <= 1
        <4> HIDE DEF of
        <4> QED BY <3>2
      <3> QED BY <2>1, <3>3 DEF SentWell
    <2>3. CASE topic[i].packets # <<>>
      <3>1. PICK f \in 1..MaxFrames : OfFrame(topic[i].packets, f)
        BY <2>1, <2>3 DEF SentWell
      <3>2. of \subseteq {f}
        BY <3>1 DEF OfFrame
      <3>3. of = {} \/ of = {f}
        BY <3>2
      <3>4. Cardinality(of) <= 1
        <4>1. Cardinality(of) = 0 \/ Cardinality(of) = 1
          BY <3>3, FS_EmptySet, FS_Singleton, Zenon
        <4> HIDE DEF of
        <4> QED BY <4>1
      <3> QED BY <2>1, <3>4 DEF SentWell
    <2> QED BY <2>2, <2>3
  <1> QED BY <1>1, <1>2, FramesTypes, ScansStep, PTL DEF FramesSpec
-----------------------------------------------------------------------------
(* Parts of a sequence, and of one that has grown.                         *)
LEMMA PartOf ==
  ASSUME NEW S, NEW s \in Seq(S), NEW m \in 1..(Len(s) + 1), NEW n \in (m - 1)..Len(s)
  PROVE  /\ SubSeq(s, m, n) \in Seq(S) /\ Len(SubSeq(s, m, n)) = n - m + 1
         /\ \A i \in 1..(n - m + 1) : SubSeq(s, m, n)[i] = s[m + i - 1]
  <1>1. Len(s) \in Nat /\ m \in Int /\ n \in Int
    BY LenProperties
  <1>2. \A i \in m..n : s[i] \in S
    BY <1>1, ElementOfSeq
  <1>3. /\ SubSeq(s, m, n) \in Seq(S)
        /\ Len(SubSeq(s, m, n)) = IF m <= n THEN n - m + 1 ELSE 0
        /\ \A i \in 1..(n - m + 1) : SubSeq(s, m, n)[i] = s[m + i - 1]
    BY <1>1, <1>2, SubSeqProperties
  <1>4. (IF m <= n THEN n - m + 1 ELSE 0) = n - m + 1
    BY <1>1
  <1> QED BY <1>3, <1>4, Zenon

LEMMA PartStays ==
  ASSUME NEW S, NEW s \in Seq(S), NEW e \in S, NEW m \in 1..(Len(s) + 1), NEW n \in (m - 1)..Len(s)
  PROVE  SubSeq(Append(s, e), m, n) = SubSeq(s, m, n)
  <1>1. /\ Append(s, e) \in Seq(S) /\ Len(Append(s, e)) = Len(s) + 1 /\ Len(s) \in Nat
        /\ \A i \in 1..Len(s) : Append(s, e)[i] = s[i]
    BY AppendProperties, LenProperties
  <1> DEFINE a == SubSeq(Append(s, e), m, n)
             b == SubSeq(s, m, n)
  <1>2. m \in 1..(Len(Append(s, e)) + 1) /\ n \in (m - 1)..Len(Append(s, e))
    <2> SUFFICES m \in 1..((Len(s) + 1) + 1) /\ n \in (m - 1)..(Len(s) + 1)
      BY <1>1, Zenon
    <2> QED BY <1>1
  <1>3. /\ a \in Seq(S) /\ Len(a) = n - m + 1
        /\ \A i \in 1..(n - m + 1) : a[i] = Append(s, e)[m + i - 1]
    BY <1>1, <1>2, PartOf, Zenon
  <1>4. /\ b \in Seq(S) /\ Len(b) = n - m + 1
        /\ \A i \in 1..(n - m + 1) : b[i] = s[m + i - 1]
    BY PartOf, Zenon
  <1>5. \A i \in 1..(n - m + 1) : Append(s, e)[m + i - 1] = s[m + i - 1]
    <2> TAKE i \in 1..(n - m + 1)
    <2>1. m + i - 1 \in 1..Len(s)
      <3>1. Len(s) \in Nat /\ m \in Nat /\ m >= 1 /\ n \in Int /\ n <= Len(s)
        BY <1>1
      <3>2. i \in Int /\ 1 <= i /\ i <= n - m + 1
        BY <3>1
      <3> QED BY <3>1, <3>2
    <2> QED BY <1>1, <2>1, Zenon
  <1> HIDE DEF a, b
  <1>6. Len(a) = Len(b) /\ \A i \in 1..Len(a) : a[i] = b[i]
    BY <1>3, <1>4, <1>5, Zenon
  <1> QED BY <1>3, <1>4, <1>6, SeqEqual DEF a, b

LEMMA PartGrows ==
  ASSUME NEW S, NEW s \in Seq(S), NEW e \in S, NEW m \in 1..(Len(s) + 1)
  PROVE  SubSeq(Append(s, e), m, Len(s) + 1) = Append(SubSeq(s, m, Len(s)), e)
  <1>1. /\ Append(s, e) \in Seq(S) /\ Len(Append(s, e)) = Len(s) + 1 /\ Len(s) \in Nat
        /\ \A i \in 1..Len(s) : Append(s, e)[i] = s[i]
        /\ Append(s, e)[Len(s) + 1] = e
    BY AppendProperties, LenProperties
  <1> DEFINE n == Len(s)
             a == SubSeq(Append(s, e), m, n + 1)
             b == SubSeq(s, m, n)
             c == Append(b, e)
  <1>2. m \in 1..(Len(Append(s, e)) + 1) /\ n + 1 \in (m - 1)..Len(Append(s, e))
    <2> SUFFICES m \in 1..((n + 1) + 1) /\ n + 1 \in (m - 1)..(n + 1)
      BY <1>1, Zenon
    <2> QED BY <1>1
  <1>3. /\ a \in Seq(S) /\ Len(a) = (n + 1) - m + 1
        /\ \A i \in 1..((n + 1) - m + 1) : a[i] = Append(s, e)[m + i - 1]
    BY <1>1, <1>2, PartOf, Zenon
  <1>4. n \in (m - 1)..Len(s)
    BY <1>1
  <1>5. /\ b \in Seq(S) /\ Len(b) = n - m + 1
        /\ \A i \in 1..(n - m + 1) : b[i] = s[m + i - 1]
    BY <1>4, PartOf, Zenon
  <1>6. /\ c \in Seq(S) /\ Len(c) = Len(b) + 1 /\ c[Len(b) + 1] = e
        /\ \A i \in 1..Len(b) : c[i] = b[i]
    BY <1>5, AppendProperties
  <1> HIDE DEF a, b, c
  <1>7. Len(a) = Len(c)
    BY <1>1, <1>3, <1>5, <1>6 DEF n
  <1>8. ASSUME NEW i \in 1..Len(a) PROVE a[i] = c[i]
    <2>1. CASE i = Len(b) + 1
      <3>1. m + i - 1 = n + 1 /\ i \in 1..((n + 1) - m + 1)
        BY <1>1, <1>3, <1>5, <2>1 DEF n
      <3> QED BY <1>1, <1>3, <1>6, <2>1, <3>1, Zenon DEF n
    <2>2. CASE i # Len(b) + 1
      <3>0. Len(s) \in Nat /\ Len(a) = (Len(s) + 1) - m + 1 /\ Len(b) = Len(s) - m + 1
        BY <1>1, <1>3, <1>5, Zenon DEF n
      <3>1. i \in 1..Len(b) /\ i \in 1..(n - m + 1) /\ i \in 1..((n + 1) - m + 1) /\ m + i - 1 \in 1..Len(s)
        BY <2>2, <3>0 DEF n
      <3> QED BY <1>1, <1>3, <1>5, <1>6, <3>1, Zenon
    <2> QED BY <2>1, <2>2
  <1>9. a = c
    BY <1>3, <1>6, <1>7, <1>8, SeqEqual
  <1> QED BY <1>9 DEF a, b, c, n
(* The packets of a scan, and of one that gets another.                    *)
Plain(s) == [i \in DOMAIN s |-> s[i].packet]

LEMMA PlainIs ==
  ASSUME NEW s \in Seq(ScanPackets)
  PROVE  /\ Plain(s) \in Seq(FramePackets) /\ Len(Plain(s)) = Len(s)
         /\ \A i \in 1..Len(s) : Plain(s)[i] = s[i].packet
  BY Unpacked, Zenon DEF Plain

LEMMA PlainGrows ==
  ASSUME NEW s \in Seq(ScanPackets), NEW e \in ScanPackets
  PROVE  Plain(Append(s, e)) = Append(Plain(s), e.packet)
  <1> DEFINE a == Plain(Append(s, e))
             b == Append(Plain(s), e.packet)
  <1>1. /\ Append(s, e) \in Seq(ScanPackets) /\ Len(Append(s, e)) = Len(s) + 1 /\ Len(s) \in Nat
        /\ \A i \in 1..Len(s) : Append(s, e)[i] = s[i]
        /\ Append(s, e)[Len(s) + 1] = e
    BY AppendProperties, LenProperties
  <1>2. /\ a \in Seq(FramePackets) /\ Len(a) = Len(s) + 1
        /\ \A i \in 1..(Len(s) + 1) : a[i] = Append(s, e)[i].packet
    BY <1>1, PlainIs, Zenon
  <1>3. e.packet \in FramePackets
    BY DEF ScanPackets
  <1>4. /\ b \in Seq(FramePackets) /\ Len(b) = Len(Plain(s)) + 1 /\ b[Len(Plain(s)) + 1] = e.packet
        /\ \A i \in 1..Len(Plain(s)) : b[i] = Plain(s)[i]
    BY <1>3, PlainIs, AppendProperties
  <1>5. Len(b) = Len(s) + 1 /\ b[Len(s) + 1] = e.packet /\ \A i \in 1..Len(s) : b[i] = s[i].packet
    BY <1>4, PlainIs, Zenon
  <1> HIDE DEF a, b
  <1>6. ASSUME NEW i \in 1..Len(a) PROVE a[i] = b[i]
    <2>1. i \in 1..Len(s) \/ i = Len(s) + 1
      <3>1. Len(a) = Len(s) + 1 /\ Len(s) \in Nat
        BY <1>1, <1>2, Zenon
      <3> QED BY <3>1
    <2>2. CASE i = Len(s) + 1
      BY <1>1, <1>2, <1>5, <2>2, Zenon
    <2>3. CASE i \in 1..Len(s)
      BY <1>1, <1>2, <1>5, <2>3, Zenon
    <2> QED BY <2>1, <2>2, <2>3
  <1>7. a = b
    BY <1>2, <1>4, <1>5, <1>6, SeqEqual
  <1> QED BY <1>7 DEF a, b

(* Where the frames are among the packets that came: r is what came, a     *)
(* frame starts at k, and the packets from a to b are of one frame.  The   *)
(* first packet of all is in no cloud.                                     *)
Starts(r, k)   == \A j \in 1..(k - 1) : r[j].frame # r[k].frame
OfOne(r, a, b) == \A j \in a..b : r[j].frame = r[a].frame
From(k)        == IF k = 1 THEN 2 ELSE k

(* A scan s holds the packets from c0 to c1 of the frame that starts at    *)
(* f0; if it is the last one, the next frame starts after it.              *)
Link(r, s, c0, c1, f0, f1) ==
  /\ c0 <= c1 /\ f0 <= c1 /\ OfOne(r, f0, c1)
  /\ Plain(s.packets) = SubSeq(r, c0 + 1, c1)
  /\ s.last => s.stamp = r[f0] /\ f1 = c1 + 1
  /\ ~s.last => f1 = f0

(* The scans q hold the packets that came one after another: the i-th ends *)
(* with packet c[i], and f[i] is the start of the frame that follows it.   *)
Links(r, q, c, f) ==
  /\ c \in [0..Len(q) -> 1..Len(r)] /\ f \in [0..Len(q) -> 1..Len(r)]
  /\ \A i \in 0..Len(q) : Starts(r, f[i]) /\ f[i] <= c[i] + 1
  /\ OfOne(r, f[0], c[0])
  /\ \A i \in 1..Len(q) : Link(r, q[i], c[i - 1], c[i], f[i - 1], f[i])

(* And so do the cloud before them and the scan that is being filled.      *)
Chain(r, q, c, f, before, filled, start, current) ==
  /\ Links(r, q, c, f)
  /\ before = SubSeq(r, From(f[0]), c[0])
  /\ Plain(filled) = SubSeq(r, c[Len(q)] + 1, Len(r))
  /\ start = r[f[Len(q)]] /\ start.frame = current

(* A published cloud is all of a frame that lies before the last packet.   *)
Whole(r, cloud0) ==
  \E first \in 1..Len(r) : \E last \in first..(Len(r) - 1) :
    /\ Starts(r, first) /\ OfOne(r, first, last) /\ r[last + 1].frame # r[first].frame
    /\ cloud0.stamp = r[first] /\ cloud0.packets = SubSeq(r, From(first), last)

Ordered(r) == \A i, j \in 1..Len(r) : i <= j => r[i].frame <= r[j].frame

(* Between two steps, as long as the topic has dropped no scan.            *)
WholeInv ==
  /\ Ordered(received)
  /\ current_frame_id = -1 <=> received = <<>>
  /\ received # <<>> => current_frame_id = received[Len(received)].frame
  /\ received = <<>> => topic = <<>> /\ cloud = <<>> /\ scan = <<>> /\ frame = NoFrame
  /\ ~PacketMode => topic = <<>> /\ scan = <<>>
  /\ ~lost /\ received # <<>> =>
       \E c, f \in [0..Len(topic) -> 1..Len(received)] :
         Chain(received, topic, c, f, cloud, scan, frame_start_ts, current_frame_id)
  /\ ~lost /\ frame # NoFrame => Whole(received, frame)
LEMMA Grown ==
  ASSUME NEW r \in Seq(FramePackets), NEW p \in FramePackets
  PROVE  /\ Append(r, p) \in Seq(FramePackets) /\ Len(Append(r, p)) = Len(r) + 1 /\ Len(r) \in Nat
         /\ \A j \in 1..Len(r) : Append(r, p)[j] = r[j]
         /\ Append(r, p)[Len(r) + 1] = p
         /\ \A k \in 1..Len(r) : Starts(r, k) => Starts(Append(r, p), k)
         /\ \A a \in 1..(Len(r) + 1), b \in 0..Len(r) : OfOne(r, a, b) => OfOne(Append(r, p), a, b)
  <1>1. /\ Append(r, p) \in Seq(FramePackets) /\ Len(Append(r, p)) = Len(r) + 1 /\ Len(r) \in Nat
        /\ \A j \in 1..Len(r) : Append(r, p)[j] = r[j]
        /\ Append(r, p)[Len(r) + 1] = p
    BY AppendProperties, LenProperties
  <1>2. ASSUME NEW k \in 1..Len(r), Starts(r, k) PROVE Starts(Append(r, p), k)
    <2>1. \A j \in 1..(k - 1) : j \in 1..Len(r)
      BY <1>1
    <2> QED BY <1>1, <1>2, <2>1, Zenon DEF Starts
  <1>3. ASSUME NEW a \in 1..(Len(r) + 1), NEW b \in 0..Len(r), OfOne(r, a, b)
        PROVE  OfOne(Append(r, p), a, b)
    <2> SUFFICES ASSUME NEW j \in a..b PROVE Append(r, p)[j].frame = Append(r, p)[a].frame
      BY DEF OfOne
    <2>1. j \in 1..Len(r) /\ a \in 1..Len(r)
      BY <1>1
    <2> QED BY <1>1, <1>3, <2>1, Zenon DEF OfOne
  <1> QED BY <1>1, <1>2, <1>3

LEMMA StartsStays ==
  ASSUME NEW r \in Seq(FramePackets), NEW p \in FramePackets, NEW k \in 1..Len(r), Starts(r, k)
  PROVE  Starts(Append(r, p), k)
  BY Grown

LEMMA OneStays ==
  ASSUME NEW r \in Seq(FramePackets), NEW p \in FramePackets,
         NEW a \in 1..(Len(r) + 1), NEW b \in 0..Len(r), OfOne(r, a, b)
  PROVE  OfOne(Append(r, p), a, b)
  BY Grown

LEMMA LinkGrows ==
  ASSUME NEW r \in Seq(FramePackets), NEW p \in FramePackets, NEW s,
         NEW c0 \in 1..Len(r), NEW c1 \in 1..Len(r), NEW f0 \in 1..Len(r), NEW f1 \in 1..(Len(r) + 1),
         Link(r, s, c0, c1, f0, f1)
  PROVE  Link(Append(r, p), s, c0, c1, f0, f1)
  <1>1. Len(r) \in Nat /\ Append(r, p)[f0] = r[f0]
    BY Grown
  <1>2. f0 \in 1..(Len(r) + 1) /\ c1 \in 0..Len(r) /\ c0 + 1 \in 1..(Len(r) + 1)
        /\ c1 \in ((c0 + 1) - 1)..Len(r)
    BY <1>1 DEF Link
  <1>3. OfOne(Append(r, p), f0, c1)
    BY <1>2, Grown DEF Link
  <1>4. SubSeq(Append(r, p), c0 + 1, c1) = SubSeq(r, c0 + 1, c1)
    BY <1>2, PartStays, Zenon
  <1> QED BY <1>1, <1>3, <1>4, Zenon DEF Link

LEMMA LinksGrow ==
  ASSUME NEW r \in Seq(FramePackets), NEW p \in FramePackets, NEW q \in Seq(Scans), NEW c, NEW f,
         Links(r, q, c, f)
  PROVE  Links(Append(r, p), q, c, f)
  <1>1. Len(r) \in Nat /\ Len(Append(r, p)) = Len(r) + 1 /\ Len(q) \in Nat
    BY Grown, LenProperties
  <1>2. c \in [0..Len(q) -> 1..Len(r)] /\ f \in [0..Len(q) -> 1..Len(r)]
    BY DEF Links
  <1>3. c \in [0..Len(q) -> 1..(Len(r) + 1)] /\ f \in [0..Len(q) -> 1..(Len(r) + 1)]
    <2>1. \A i \in 1..Len(r) : i \in 1..(Len(r) + 1)
      BY <1>1
    <2> QED BY <1>2, <2>1
  <1>4. \A i \in 0..Len(q) : Starts(Append(r, p), f[i]) /\ f[i] <= c[i] + 1
    BY <1>2, Grown DEF Links
  <1>5. OfOne(Append(r, p), f[0], c[0])
    <2>1. 0 \in 0..Len(q) /\ f[0] \in 1..(Len(r) + 1) /\ c[0] \in 0..Len(r)
      BY <1>1, <1>2
    <2> QED BY <2>1, Grown DEF Links
  <1>6. ASSUME NEW i \in 1..Len(q)
        PROVE  Link(Append(r, p), q[i], c[i - 1], c[i], f[i - 1], f[i])
    <2>1. i \in 0..Len(q) /\ i - 1 \in 0..Len(q)
      BY <1>1
    <2>2. /\ c[i - 1] \in 1..Len(r) /\ c[i] \in 1..Len(r) /\ f[i - 1] \in 1..Len(r)
          /\ f[i] \in 1..(Len(r) + 1)
      BY <1>2, <1>3, <2>1
    <2> QED BY <2>2, LinkGrows DEF Links
  <1> QED BY <1>1, <1>3, <1>4, <1>5, <1>6, Zenon DEF Links

LEMMA WholeGrows ==
  ASSUME NEW r \in Seq(FramePackets), NEW p \in FramePackets, NEW cloud0, Whole(r, cloud0)
  PROVE  Whole(Append(r, p), cloud0)
  <1>1. PICK first \in 1..Len(r) : \E last \in first..(Len(r) - 1) :
          /\ Starts(r, first) /\ OfOne(r, first, last) /\ r[last + 1].frame # r[first].frame
          /\ cloud0.stamp = r[first] /\ cloud0.packets = SubSeq(r, From(first), last)
    BY Zenon DEF Whole
  <1>2. PICK last \in first..(Len(r) - 1) :
          /\ Starts(r, first) /\ OfOne(r, first, last) /\ r[last + 1].frame # r[first].frame
          /\ cloud0.stamp = r[first] /\ cloud0.packets = SubSeq(r, From(first), last)
    BY <1>1
  <1>3. Len(r) \in Nat /\ Len(Append(r, p)) = Len(r) + 1
    BY Grown
  <1>4. /\ last + 1 \in 1..Len(r) /\ first \in 1..(Len(r) + 1) /\ last \in 0..Len(r)
        /\ last \in first..((Len(r) + 1) - 1)
    BY <1>3
  <1>5. From(first) \in 1..(Len(r) + 1) /\ last \in (From(first) - 1)..Len(r)
    BY <1>3 DEF From
  <1>6. SubSeq(Append(r, p), From(first), last) = SubSeq(r, From(first), last)
    BY <1>5, PartStays, Zenon
  <1>7. Starts(Append(r, p), first) /\ OfOne(Append(r, p), first, last)
    BY <1>2, <1>4, Grown
  <1>8. Append(r, p)[last + 1] = r[last + 1] /\ Append(r, p)[first] = r[first]
    BY <1>4, Grown
  <1>9. first \in 1..Len(Append(r, p)) /\ last \in first..(Len(Append(r, p)) - 1)
    BY <1>3, <1>4, Zenon
  <1> QED BY <1>2, <1>6, <1>7, <1>8, <1>9, Zenon DEF Whole

(* Places of a sequence that grows by one.                                 *)
LEMMA NextPlace ==
  ASSUME NEW k \in Nat, NEW m \in 1..k
  PROVE  m + 1 \in 1..(k + 1) /\ k \in ((m + 1) - 1)..k
  OBVIOUS

LEMMA PlaceBefore ==
  ASSUME NEW k \in Nat, NEW i \in 1..(k + 1), i # k + 1
  PROVE  i \in 1..k /\ k \in 1..k /\ i <= k
  OBVIOUS

LEMMA Between ==
  ASSUME NEW a \in Int, NEW b \in Int, NEW c \in Int, a <= b, b <= c
  PROVE  a <= c /\ (a # b => c # a)
  OBVIOUS

LEMMA OrderGrows ==
  ASSUME NEW r \in Seq(FramePackets), NEW p \in FramePackets, Ordered(r),
         r # <<>> => r[Len(r)].frame <= p.frame
  PROVE  Ordered(Append(r, p))
  <1>1. /\ Len(Append(r, p)) = Len(r) + 1 /\ Len(r) \in Nat
        /\ \A j \in 1..Len(r) : Append(r, p)[j] = r[j] /\ r[j] \in FramePackets /\ r[j].frame \in Int
        /\ Append(r, p)[Len(r) + 1] = p /\ p.frame \in Int
    <2>1. \A j \in 1..Len(r) : r[j] \in FramePackets
      BY ElementOfSeq
    <2> QED BY <2>1, Grown, PacketFields
  <1> SUFFICES ASSUME NEW i \in 1..(Len(r) + 1), NEW j \in 1..(Len(r) + 1), i <= j
               PROVE  Append(r, p)[i].frame <= Append(r, p)[j].frame
    BY <1>1, Zenon DEF Ordered
  <1>2. CASE j = Len(r) + 1 /\ i = Len(r) + 1
    <2>1. Append(r, p)[i].frame = Append(r, p)[j].frame /\ Append(r, p)[i].frame \in Int
      BY <1>1, <1>2, Zenon
    <2> QED BY <2>1
  <1>3. CASE j = Len(r) + 1 /\ i # Len(r) + 1
    <2>1. i \in 1..Len(r) /\ Len(r) \in 1..Len(r) /\ i <= Len(r)
      BY <1>1, <1>3, PlaceBefore, Zenon
    <2>2. r # <<>>
      BY <2>1, EmptySeq
    <2>3. r[i].frame <= r[Len(r)].frame /\ r[Len(r)].frame <= p.frame
      BY <2>1, <2>2 DEF Ordered
    <2>4. r[i].frame <= p.frame
      <3>1. r[i].frame \in Int /\ r[Len(r)].frame \in Int /\ p.frame \in Int
        BY <1>1, <2>1, Zenon
      <3> QED BY <2>3, <3>1, Between, Zenon
    <2> QED BY <1>1, <1>3, <2>1, <2>4, Zenon
  <1>4. CASE j # Len(r) + 1
    <2>1. i \in 1..Len(r) /\ j \in 1..Len(r)
      BY <1>1, <1>4
    <2> QED BY <1>1, <2>1, Zenon DEF Ordered
  <1> QED BY <1>2, <1>3, <1>4
(* From its start on, everything is of the frame of the last packet; and a *)
(* packet of another frame starts one.                                     *)
LEMMA SameToEnd ==
  ASSUME NEW r \in Seq(FramePackets), Ordered(r), NEW k \in 1..Len(r), r[k].frame = r[Len(r)].frame
  PROVE  OfOne(r, k, Len(r))
  <1> SUFFICES ASSUME NEW j \in k..Len(r) PROVE r[j].frame = r[k].frame
    BY DEF OfOne
  <1>1. Len(r) \in Nat
    BY LenProperties
  <1>2. j \in 1..Len(r) /\ Len(r) \in 1..Len(r) /\ k <= j /\ j <= Len(r)
    BY <1>1
  <1>3. r[k].frame <= r[j].frame /\ r[j].frame <= r[Len(r)].frame
    BY <1>2 DEF Ordered
  <1>4. r[j].frame \in Int /\ r[k].frame \in Int
    BY <1>2, ElementOfSeq, PacketFields
  <1> QED BY <1>3, <1>4

LEMMA NewStarts ==
  ASSUME NEW r \in Seq(FramePackets), NEW p \in FramePackets, Ordered(r), r # <<>>,
         r[Len(r)].frame <= p.frame, r[Len(r)].frame # p.frame
  PROVE  Starts(Append(r, p), Len(r) + 1)
  <1>1. Len(r) \in Nat \ {0} /\ p.frame \in Int
    BY EmptySeq, PacketFields
  <1> SUFFICES ASSUME NEW j \in 1..Len(r) PROVE Append(r, p)[j].frame # Append(r, p)[Len(r) + 1].frame
    BY <1>1 DEF Starts
  <1>2. Len(r) \in 1..Len(r) /\ j <= Len(r)
    BY <1>1
  <1>3. r[j].frame <= r[Len(r)].frame /\ r[j].frame \in Int /\ r[Len(r)].frame \in Int
    BY <1>2, ElementOfSeq, PacketFields DEF Ordered
  <1>4. r[j].frame # p.frame
    BY <1>1, <1>3
  <1> QED BY <1>4, Grown

LEMMA ChainFirst ==
  ASSUME NEW p \in FramePackets
  PROVE  \E c, f \in [0..Len(<<>>) -> 1..Len(Append(<<>>, p))] :
           Chain(Append(<<>>, p), <<>>, c, f, <<>>, <<>>, p, p.frame)
  <1> DEFINE r == Append(<<>>, p)
             c == [i \in 0..Len(<<>>) |-> 1]
  <1>1. /\ <<>> \in Seq(FramePackets) /\ <<>> \in Seq(ScanPackets) /\ Len(<<>>) = 0
    BY EmptySeq
  <1>2. r \in Seq(FramePackets) /\ Len(r) = 0 + 1 /\ r[0 + 1] = p
    BY <1>1, Grown, Zenon
  <1>3. Len(r) = 1 /\ r[1] = p
    BY <1>2
  <1> HIDE DEF r
  <1>4. c \in [0..Len(<<>>) -> 1..Len(r)] /\ c[0] = 1 /\ c[Len(<<>>)] = 1
    BY <1>1, <1>3
  <1>5. 0..Len(<<>>) = {0} /\ 1..Len(<<>>) = {}
    BY <1>1
  <1> HIDE DEF c
  <1>6. Starts(r, 1) /\ OfOne(r, 1, 1)
    BY DEF Starts, OfOne
  <1>7. Links(r, <<>>, c, c)
    <2>1. \A i \in 0..Len(<<>>) : Starts(r, c[i]) /\ c[i] <= c[i] + 1
      BY <1>4, <1>5, <1>6
    <2> QED BY <1>4, <1>5, <1>6, <2>1 DEF Links
  <1>8. SubSeq(r, From(c[0]), c[0]) = <<>>
    <2>1. From(c[0]) = 2
      BY <1>4 DEF From
    <2> QED BY <1>4, <2>1, SubSeqEmpty
  <1>9. SubSeq(r, c[Len(<<>>)] + 1, Len(r)) = <<>>
    <2>1. c[Len(<<>>)] + 1 \in Int /\ Len(r) \in Int /\ Len(r) < c[Len(<<>>)] + 1
      BY <1>3, <1>4
    <2> QED BY <2>1, SubSeqEmpty
  <1>10. Plain(<<>>) = <<>>
    BY DEF Plain
  <1>11. Chain(r, <<>>, c, c, <<>>, <<>>, p, p.frame)
    BY <1>3, <1>4, <1>7, <1>8, <1>9, <1>10, Zenon DEF Chain
  <1> QED BY <1>4, <1>11, Zenon DEF r

(* A packet joins the scan that is being filled.                           *)
LEMMA ChainFill ==
  ASSUME NEW r \in Seq(FramePackets), NEW p \in FramePackets, NEW q \in Seq(Scans), NEW c, NEW f,
         NEW before, NEW filled \in Seq(ScanPackets), NEW start, NEW current,
         Chain(r, q, c, f, before, filled, start, current),
         NEW e \in ScanPackets, e.packet = p
  PROVE  /\ Chain(Append(r, p), q, c, f, before, Append(filled, e), start, current)
         /\ c \in [0..Len(q) -> 1..Len(Append(r, p))] /\ f \in [0..Len(q) -> 1..Len(Append(r, p))]
  <1> DEFINE n == Len(q)
  <1>1. /\ Len(r) \in Nat /\ n \in Nat /\ Len(Append(r, p)) = Len(r) + 1 /\ 0 \in 0..n /\ n \in 0..n
        /\ c \in [0..n -> 1..Len(r)] /\ f \in [0..n -> 1..Len(r)]
    BY Grown, LenProperties DEF Chain, Links
  <1>2. c[0] \in 1..Len(r) /\ f[0] \in 1..Len(r) /\ c[n] \in 1..Len(r) /\ f[n] \in 1..Len(r)
        /\ f[0] <= c[0] + 1
    BY <1>1 DEF Chain, Links
  <1> HIDE DEF n
  <1>3. Links(Append(r, p), q, c, f)
    BY LinksGrow DEF Chain
  <1>4. SubSeq(Append(r, p), From(f[0]), c[0]) = SubSeq(r, From(f[0]), c[0])
    <2>1. From(f[0]) \in 1..(Len(r) + 1) /\ c[0] \in (From(f[0]) - 1)..Len(r)
      BY <1>1, <1>2 DEF From
    <2> QED BY <2>1, PartStays, Zenon
  <1>5. Plain(Append(filled, e)) = SubSeq(Append(r, p), c[n] + 1, Len(Append(r, p)))
    <2>1. c[n] + 1 \in 1..(Len(r) + 1)
      BY <1>1, <1>2, NextPlace, Zenon
    <2>2. SubSeq(Append(r, p), c[n] + 1, Len(r) + 1) = Append(SubSeq(r, c[n] + 1, Len(r)), p)
      BY <2>1, PartGrows, Zenon
    <2>3. Plain(Append(filled, e)) = Append(Plain(filled), p)
      BY PlainGrows
    <2> QED BY <1>1, <2>2, <2>3, Zenon DEF Chain, n
  <1>6. Append(r, p)[f[n]] = r[f[n]]
    BY <1>2, Grown
  <1> QED BY <1>3, <1>4, <1>5, <1>6, Zenon DEF Chain, Links, n
(* The scan is sent, and p begins the next one.                            *)
ScanFollows(r, p, q, before, e, start, current) ==
  \E c, f \in [0..Len(q) -> 1..Len(Append(r, p))] :
    Chain(Append(r, p), q, c, f, before, Append(<<>>, e),
          IF current # p.frame THEN p ELSE start, p.frame)

LEMMA ChainSend ==
  ASSUME NEW r \in Seq(FramePackets), NEW p \in FramePackets, NEW q \in Seq(Scans), NEW c, NEW f,
         NEW before, NEW filled \in Seq(ScanPackets), NEW start, NEW current,
         Chain(r, q, c, f, before, filled, start, current),
         Ordered(r), current = r[Len(r)].frame, current <= p.frame,
         NEW s \in Scans, s.packets = filled, s.last <=> current # p.frame,
         s.last => s.stamp = start,
         NEW e \in ScanPackets, e.packet = p
  PROVE  ScanFollows(r, p, Append(q, s), before, e, start, current)
  <1> DEFINE n  == Len(q)
             r2 == Append(r, p)
             q2 == Append(q, s)
             f1 == IF s.last THEN Len(r) + 1 ELSE f[n]
             c2 == [i \in 0..(n + 1) |-> IF i = n + 1 THEN Len(r) ELSE c[i]]
             f2 == [i \in 0..(n + 1) |-> IF i = n + 1 THEN f1 ELSE f[i]]
  <1>1. /\ Len(r) \in Nat /\ n \in Nat /\ Len(r2) = Len(r) + 1 /\ r2 \in Seq(FramePackets)
        /\ c \in [0..n -> 1..Len(r)] /\ f \in [0..n -> 1..Len(r)]
        /\ 0 \in 0..n /\ n \in 0..n
    BY Grown, LenProperties DEF Chain, Links
  <1>2. /\ c[0] \in 1..Len(r) /\ f[0] \in 1..Len(r) /\ c[n] \in 1..Len(r) /\ f[n] \in 1..Len(r)
        /\ f[0] <= c[0] + 1
    BY <1>1 DEF Chain, Links
  <1>3. Len(r) \in 1..Len(r) /\ Len(r) \in 1..(Len(r) + 1) /\ r # <<>>
    BY <1>1, <1>2, EmptySeq
  <1>4. /\ Len(q2) = n + 1 /\ q2[n + 1] = s /\ \A i \in 1..n : q2[i] = q[i]
    BY AppendProperties
  <1>5. /\ r2[Len(r) + 1] = p /\ \A j \in 1..Len(r) : r2[j] = r[j]
    BY Grown
  <1>6. Links(r2, q, c, f)
    BY LinksGrow DEF Chain
  <1>7. /\ f1 \in 1..(Len(r) + 1) /\ Starts(r2, f1) /\ f1 <= Len(r) + 1
        /\ r2[f1] = IF current # p.frame THEN p ELSE start
    <2>1. CASE s.last
      <3>1. current # p.frame /\ f1 = Len(r) + 1
        BY <2>1
      <3>2. Starts(r2, Len(r) + 1)
        BY <1>3, <3>1, NewStarts, Zenon
      <3> QED BY <1>1, <1>5, <3>1, <3>2
    <2>2. CASE ~s.last
      <3>1. current = p.frame /\ f1 = f[n]
        BY <2>2
      <3>2. Starts(r, f[n]) /\ r[f[n]] = start
        BY <1>1 DEF Chain, Links
      <3>3. Starts(r2, f[n])
        BY <1>2, <3>2, Grown
      <3> QED BY <1>1, <1>2, <1>5, <3>1, <3>2, <3>3
    <2> QED BY <2>1, <2>2
  <1> HIDE DEF f1
  <1>8. c2 \in [0..(n + 1) -> 1..(Len(r) + 1)] /\ f2 \in [0..(n + 1) -> 1..(Len(r) + 1)]
    <2>1. \A i \in 0..(n + 1) : i # n + 1 => i \in 0..n
      BY <1>1
    <2>2. \A i \in 0..n : c[i] \in 1..(Len(r) + 1) /\ f[i] \in 1..(Len(r) + 1)
      <3>1. \A i \in 1..Len(r) : i \in 1..(Len(r) + 1)
        BY <1>1
      <3> QED BY <1>1, <3>1, Zenon
    <2>3. f1 \in 1..(Len(r) + 1) /\ Len(r) \in 1..(Len(r) + 1)
      BY <1>3, <1>7
    <2> QED BY <2>1, <2>2, <2>3, Zenon
  <1>9. /\ c2[n + 1] = Len(r) /\ f2[n + 1] = f1
        /\ \A i \in 0..n : c2[i] = c[i] /\ f2[i] = f[i]
    BY <1>1
  <1> HIDE DEF c2, f2, q2, r2
  <1>10. \A i \in 0..(n + 1) : Starts(r2, f2[i]) /\ f2[i] <= c2[i] + 1
    <2> TAKE i \in 0..(n + 1)
    <2>1. CASE i = n + 1
      BY <1>7, <1>9, <2>1
    <2>2. CASE i # n + 1
      <3>1. i \in 0..n
        BY <1>1, <2>2
      <3> QED BY <1>6, <1>9, <3>1 DEF Links
    <2> QED BY <2>1, <2>2
  <1>11. Link(r2, s, c[n], Len(r), f[n], f1)
    <2>1. c[n] <= Len(r) /\ f[n] <= Len(r)
      BY <1>1, <1>2
    <2>2. OfOne(r2, f[n], Len(r))
      <3>1. r[f[n]].frame = r[Len(r)].frame
        BY DEF Chain
      <3>2. OfOne(r, f[n], Len(r))
        BY <1>2, <3>1, SameToEnd
      <3>3. f[n] \in 1..(Len(r) + 1) /\ Len(r) \in 0..Len(r)
        BY <1>1, <1>2
      <3> QED BY <3>2, <3>3, Grown DEF r2
    <2>3. Plain(s.packets) = SubSeq(r2, c[n] + 1, Len(r))
      <3>1. c[n] + 1 \in 1..(Len(r) + 1) /\ Len(r) \in ((c[n] + 1) - 1)..Len(r)
        BY <1>1, <1>2, NextPlace
      <3>2. SubSeq(r2, c[n] + 1, Len(r)) = SubSeq(r, c[n] + 1, Len(r))
        BY <3>1, PartStays, Zenon DEF r2
      <3> QED BY <3>2, Zenon DEF Chain
    <2>4. s.last => s.stamp = r2[f[n]] /\ f1 = Len(r) + 1
      <3>1. start = r2[f[n]]
        BY <1>2, <1>5, Zenon DEF Chain
      <3> QED BY <3>1 DEF f1
    <2>5. ~s.last => f1 = f[n]
      BY DEF f1
    <2> QED BY <2>1, <2>2, <2>3, <2>4, <2>5, Zenon DEF Link
  <1>12. \A i \in 1..(n + 1) : Link(r2, q2[i], c2[i - 1], c2[i], f2[i - 1], f2[i])
    <2> TAKE i \in 1..(n + 1)
    <2>1. CASE i = n + 1
      <3>1. i - 1 = n
        BY <1>1, <2>1
      <3> QED BY <1>1, <1>4, <1>9, <1>11, <2>1, <3>1, Zenon
    <2>2. CASE i # n + 1
      <3>1. i \in 1..n /\ i \in 0..n /\ i - 1 \in 0..n
        BY <1>1, <2>2
      <3>2. Link(r2, q[i], c[i - 1], c[i], f[i - 1], f[i])
        BY <1>6, <3>1 DEF Links
      <3> QED BY <1>4, <1>9, <3>1, <3>2, Zenon
    <2> QED BY <2>1, <2>2
  <1>13. OfOne(r2, f2[0], c2[0])
    BY <1>1, <1>6, <1>9 DEF Links
  <1>14. Links(r2, q2, c2, f2)
    BY <1>1, <1>4, <1>8, <1>10, <1>12, <1>13, Zenon DEF Links
  <1>15. before = SubSeq(r2, From(f2[0]), c2[0])
    <2>1. From(f[0]) \in 1..(Len(r) + 1) /\ c[0] \in (From(f[0]) - 1)..Len(r)
      BY <1>1, <1>2 DEF From
    <2>2. SubSeq(r2, From(f[0]), c[0]) = SubSeq(r, From(f[0]), c[0])
      BY <2>1, PartStays, Zenon DEF r2
    <2>3. before = SubSeq(r, From(f[0]), c[0]) /\ c2[0] = c[0] /\ f2[0] = f[0]
      BY <1>1, <1>9, Zenon DEF Chain
    <2> QED BY <2>2, <2>3, Zenon
  <1>16. Plain(Append(<<>>, e)) = SubSeq(r2, c2[Len(q2)] + 1, Len(r2))
    <2>1. <<>> \in Seq(ScanPackets)
      BY EmptySeq
    <2>2. Plain(Append(<<>>, e)) = Append(Plain(<<>>), p) /\ Plain(<<>>) = <<>>
      BY <2>1, PlainGrows DEF Plain
    <2>3. Len(r) + 1 \in 1..(Len(r) + 1)
      BY <1>1
    <2>4. SubSeq(r2, Len(r) + 1, Len(r) + 1) = Append(SubSeq(r, Len(r) + 1, Len(r)), p)
      BY <2>3, PartGrows, Zenon DEF r2
    <2>5. SubSeq(r, Len(r) + 1, Len(r)) = <<>>
      BY <1>1, SubSeqEmpty
    <2> QED BY <1>1, <1>4, <1>9, <2>2, <2>4, <2>5, Zenon
  <1>17. c2[Len(q2)] = Len(r) /\ f2[Len(q2)] = f1 /\ Len(q2) = n + 1
    BY <1>4, <1>9, Zenon
  <1>18. (IF current # p.frame THEN p ELSE start) = r2[f2[Len(q2)]]
         /\ (IF current # p.frame THEN p ELSE start).frame = p.frame
    <2>1. current = start.frame
      BY DEF Chain
    <2> QED BY <1>7, <1>17, <2>1
  <1>19. Chain(r2, q2, c2, f2, before, Append(<<>>, e), IF current # p.frame THEN p ELSE start, p.frame)
    BY <1>14, <1>15, <1>16, <1>18, Zenon DEF Chain
  <1>20. c2 \in [0..Len(q2) -> 1..Len(r2)] /\ f2 \in [0..Len(q2) -> 1..Len(r2)]
    BY <1>14 DEF Links
  <1> QED BY <1>19, <1>20, Zenon DEF q2, r2, ScanFollows
(* What is gathered when the first scan of the topic is taken.            *)
Taken(r, s, c0, c1, f0, f1, gathered) ==
  /\ gathered = SubSeq(r, From(f0), c1)
  /\ s.last => /\ Whole(r, [stamp |-> s.stamp, packets |-> gathered])
               /\ SubSeq(r, From(f1), c1) = <<>>
  /\ OfOne(r, f1, c1)

LEMMA TakeFirst ==
  ASSUME NEW r \in Seq(FramePackets), NEW s,
         NEW c0 \in 1..Len(r), NEW c1 \in 1..Len(r), NEW f0 \in 1..Len(r), NEW f1 \in 1..Len(r),
         f0 <= c0 + 1, Starts(r, f0), Starts(r, f1), Link(r, s, c0, c1, f0, f1),
         NEW gathered, gathered = SubSeq(r, From(f0), c0) \o Plain(s.packets)
  PROVE  Taken(r, s, c0, c1, f0, f1, gathered)
  <1>1. Len(r) \in Nat
    BY LenProperties
  <1>2. c0 <= c1 /\ f0 <= c1 /\ Plain(s.packets) = SubSeq(r, c0 + 1, c1) /\ OfOne(r, f0, c1)
    BY DEF Link
  <1>3. gathered = SubSeq(r, From(f0), c1)
    <2>1. From(f0) \in 1..(Len(r) + 1) /\ c0 \in (From(f0) - 1)..Len(r) /\ c1 \in c0..Len(r)
      BY <1>1, <1>2 DEF From
    <2>2. SubSeq(r, From(f0), c0) \o SubSeq(r, c0 + 1, c1) = SubSeq(r, From(f0), c1)
      BY <2>1, ConcatAdjacentSubSeq
    <2> QED BY <1>2, <2>2, Zenon
  <1>4. ASSUME s.last
        PROVE  /\ Whole(r, [stamp |-> s.stamp, packets |-> gathered])
               /\ SubSeq(r, From(f1), c1) = <<>> /\ OfOne(r, f1, c1)
    <2>1. s.stamp = r[f0] /\ f1 = c1 + 1
      BY <1>4 DEF Link
    <2>2. c1 \in f0..(Len(r) - 1) /\ f0 \in 1..(f1 - 1)
      BY <1>1, <1>2, <2>1
    <2>3. r[c1 + 1].frame # r[f0].frame
      <3>1. r[f0].frame # r[f1].frame
        BY <2>2 DEF Starts
      <3> QED BY <2>1, <3>1
    <2>4. SubSeq(r, From(f1), c1) = <<>>
      <3>1. From(f1) \in Int /\ c1 \in Int /\ c1 < From(f1)
        BY <1>1, <2>1 DEF From
      <3> QED BY <3>1, SubSeqEmpty
    <2>5. OfOne(r, f1, c1)
      BY <2>1 DEF OfOne
    <2>6. Whole(r, [stamp |-> s.stamp, packets |-> gathered])
      BY <1>2, <1>3, <2>1, <2>2, <2>3, Zenon DEF Whole
    <2> QED BY <2>4, <2>5, <2>6
  <1>5. ~s.last => OfOne(r, f1, c1)
    BY <1>2 DEF Link
  <1> QED BY <1>3, <1>4, <1>5, Zenon DEF Taken

(* The first scan of the topic is taken.                                   *)
LEMMA ChainTake ==
  ASSUME NEW r \in Seq(FramePackets), NEW q \in Seq(Scans), q # <<>>, NEW c, NEW f,
         NEW before, NEW filled, NEW start, NEW current,
         Chain(r, q, c, f, before, filled, start, current)
  PROVE  LET s         == q[1]
             gathered == before \o Plain(s.packets)
         IN  /\ s.last => Whole(r, [stamp |-> s.stamp, packets |-> gathered])
             /\ \E c2, f2 \in [0..Len(Tail(q)) -> 1..Len(r)] :
                  Chain(r, Tail(q), c2, f2, IF s.last THEN <<>> ELSE gathered, filled, start, current)
  <1> DEFINE n  == Len(q) - 1
             q2 == Tail(q)
             s  == q[1]
             gathered == before \o Plain(s.packets)
             after == IF s.last THEN <<>> ELSE gathered
             c2 == [i \in 0..n |-> c[i + 1]]
             f2 == [i \in 0..n |-> f[i + 1]]
  <1>1. /\ Len(r) \in Nat /\ n \in Nat /\ Len(q) = n + 1 /\ Len(q2) = n
        /\ \A i \in 1..n : q2[i] = q[i + 1]
    <2>1. Len(q) \in Nat \ {0} /\ Len(q2) = n /\ \A i \in 1..Len(q2) : q2[i] = q[i + 1]
      BY EmptySeq, HeadTailProperties
    <2>2. Len(r) \in Nat
      BY LenProperties
    <2> QED BY <2>1, <2>2
  <1> HIDE DEF n, q2
  <1>2. /\ c \in [0..(n + 1) -> 1..Len(r)] /\ f \in [0..(n + 1) -> 1..Len(r)]
        /\ \A i \in 0..(n + 1) : Starts(r, f[i]) /\ f[i] <= c[i] + 1
        /\ \A i \in 1..(n + 1) : Link(r, q[i], c[i - 1], c[i], f[i - 1], f[i])
    BY <1>1, Zenon DEF Chain, Links
  <1>3. /\ c[0] \in 1..Len(r) /\ c[1] \in 1..Len(r) /\ f[0] \in 1..Len(r) /\ f[1] \in 1..Len(r)
        /\ f[0] <= c[0] + 1 /\ Starts(r, f[0]) /\ Starts(r, f[1])
        /\ Link(r, s, c[0], c[1], f[0], f[1])
    <2>1. 0 \in 0..(n + 1) /\ 1 \in 0..(n + 1) /\ 1 \in 1..(n + 1) /\ 1 - 1 = 0
      BY <1>1
    <2>2. Link(r, q[1], c[1 - 1], c[1], f[1 - 1], f[1])
      BY <1>2, <2>1
    <2> QED BY <1>2, <2>1, <2>2
  <1>4. before = SubSeq(r, From(f[0]), c[0])
    BY DEF Chain
  <1>5. /\ gathered = SubSeq(r, From(f[0]), c[1])
        /\ s.last => /\ Whole(r, [stamp |-> s.stamp, packets |-> gathered])
                     /\ SubSeq(r, From(f[1]), c[1]) = <<>>
        /\ OfOne(r, f[1], c[1])
    <2> HIDE DEF s
    <2>1. gathered = SubSeq(r, From(f[0]), c[0]) \o Plain(s.packets)
      BY <1>4
    <2> HIDE DEF gathered
    <2>2. Taken(r, s, c[0], c[1], f[0], f[1], gathered)
      BY <1>3, <2>1, TakeFirst
    <2> QED BY <2>2, Zenon DEF Taken
  <1>6. \A i \in 0..n : i + 1 \in 0..(n + 1)
    BY <1>1
  <1>7. c2 \in [0..n -> 1..Len(r)] /\ f2 \in [0..n -> 1..Len(r)]
    BY <1>2, <1>6
  <1>8. \A i \in 0..n : c2[i] = c[i + 1] /\ f2[i] = f[i + 1]
    OBVIOUS
  <1>9. c2[0] = c[1] /\ f2[0] = f[1] /\ c2[n] = c[n + 1] /\ f2[n] = f[n + 1]
    <2>1. 0 \in 0..n /\ n \in 0..n /\ 0 + 1 = 1
      BY <1>1
    <2> QED BY <1>8, <2>1
  <1> HIDE DEF c2, f2, gathered
  <1>10. \A i \in 0..n : Starts(r, f2[i]) /\ f2[i] <= c2[i] + 1
    BY <1>2, <1>6, <1>8
  <1>11. \A i \in 1..n : Link(r, q2[i], c2[i - 1], c2[i], f2[i - 1], f2[i])
    <2> TAKE i \in 1..n
    <2>1. i + 1 \in 1..(n + 1) /\ i \in 0..n /\ i - 1 \in 0..n /\ (i - 1) + 1 = i /\ (i + 1) - 1 = i
      BY <1>1
    <2>2. Link(r, q[i + 1], c[(i + 1) - 1], c[i + 1], f[(i + 1) - 1], f[i + 1])
      BY <1>2, <2>1, Zenon
    <2>3. c2[i - 1] = c[(i - 1) + 1] /\ f2[i - 1] = f[(i - 1) + 1] /\ c2[i] = c[i + 1] /\ f2[i] = f[i + 1]
      BY <1>8, <2>1, Zenon
    <2> QED BY <1>1, <2>1, <2>2, <2>3, Zenon
  <1>12. Links(r, q2, c2, f2)
    BY <1>1, <1>5, <1>7, <1>9, <1>10, <1>11, Zenon DEF Links
  <1>13. after = SubSeq(r, From(f2[0]), c2[0])
    <2>1. CASE s.last
      BY <1>5, <1>9, <2>1, Zenon
    <2>2. CASE ~s.last
      <3>1. f[1] = f[0]
        BY <1>3, <2>2 DEF Link
      <3> QED BY <1>5, <1>9, <2>2, <3>1, Zenon
    <2> QED BY <2>1, <2>2
  <1>14. Plain(filled) = SubSeq(r, c2[Len(q2)] + 1, Len(r)) /\ start = r[f2[Len(q2)]] /\ start.frame = current
    BY <1>1, <1>9, Zenon DEF Chain
  <1>15. Chain(r, q2, c2, f2, after, filled, start, current)
    BY <1>12, <1>13, <1>14, Zenon DEF Chain
  <1>16. c2 \in [0..Len(q2) -> 1..Len(r)] /\ f2 \in [0..Len(q2) -> 1..Len(r)]
    BY <1>1, <1>7, Zenon
  <1>17. \E c3, f3 \in [0..Len(q2) -> 1..Len(r)] : Chain(r, q2, c3, f3, after, filled, start, current)
    BY <1>15, <1>16, Zenon
  <1> QED BY <1>5, <1>17, Zenon DEF q2, gathered
(* Without scans, everything that came is in the cloud.                    *)
LEMMA CloudIsChain ==
  ASSUME NEW r \in Seq(FramePackets), NEW k \in 1..Len(r), Starts(r, k), OfOne(r, k, Len(r))
  PROVE  \E c, f \in [0..Len(<<>>) -> 1..Len(r)] :
           Chain(r, <<>>, c, f, SubSeq(r, From(k), Len(r)), <<>>, r[k], r[k].frame)
  <1> DEFINE c == [i \in 0..Len(<<>>) |-> Len(r)]
             f == [i \in 0..Len(<<>>) |-> k]
  <1>1. Len(r) \in Nat /\ k <= Len(r) /\ Len(r) \in 1..Len(r) /\ k <= Len(r) + 1
    BY LenProperties
  <1>2. Len(<<>>) = 0 /\ 0..Len(<<>>) = {0} /\ 1..Len(<<>>) = {}
    BY EmptySeq
  <1>3. /\ c \in [0..Len(<<>>) -> 1..Len(r)] /\ f \in [0..Len(<<>>) -> 1..Len(r)]
        /\ c[0] = Len(r) /\ c[Len(<<>>)] = Len(r) /\ f[0] = k /\ f[Len(<<>>)] = k
    BY <1>1, <1>2
  <1> HIDE DEF c, f
  <1>4. Links(r, <<>>, c, f)
    <2>1. \A i \in 0..Len(<<>>) : Starts(r, f[i]) /\ f[i] <= c[i] + 1
      BY <1>1, <1>2, <1>3
    <2> QED BY <1>2, <1>3, <2>1 DEF Links
  <1>5. SubSeq(r, c[Len(<<>>)] + 1, Len(r)) = <<>> /\ Plain(<<>>) = <<>>
    <2>1. c[Len(<<>>)] + 1 \in Int /\ Len(r) \in Int /\ Len(r) < c[Len(<<>>)] + 1
      BY <1>1, <1>3
    <2> QED BY <2>1, SubSeqEmpty DEF Plain
  <1>6. Chain(r, <<>>, c, f, SubSeq(r, From(k), Len(r)), <<>>, r[k], r[k].frame)
    BY <1>3, <1>4, <1>5, Zenon DEF Chain
  <1> QED BY <1>3, <1>6, Zenon

(* Frame mode: a packet joins the cloud, a new one if its frame is over.   *)
Joined(r, p, before, start, current) ==
  /\ current # p.frame => Whole(Append(r, p), [stamp |-> start, packets |-> before])
  /\ \E c2, f2 \in [0..Len(<<>>) -> 1..Len(Append(r, p))] :
       Chain(Append(r, p), <<>>, c2, f2, Append(IF current # p.frame THEN <<>> ELSE before, p),
             <<>>, IF current # p.frame THEN p ELSE start, p.frame)

LEMMA ChainCollect ==
  ASSUME NEW r \in Seq(FramePackets), NEW p \in FramePackets, NEW c, NEW f,
         NEW before, NEW start, NEW current,
         Chain(r, <<>>, c, f, before, <<>>, start, current),
         Ordered(r), current = r[Len(r)].frame, current <= p.frame
  PROVE  Joined(r, p, before, start, current)
  <1> DEFINE r2 == Append(r, p)
             k  == f[0]
  <1>1. Len(<<>>) = 0 /\ 0 \in 0..Len(<<>>)
    BY EmptySeq
  <1>2. /\ Len(r) \in Nat /\ Len(r2) = Len(r) + 1 /\ r2 \in Seq(FramePackets)
        /\ r2[Len(r) + 1] = p /\ \A j \in 1..Len(r) : r2[j] = r[j]
    BY Grown
  <1>3. /\ c[0] \in 1..Len(r) /\ k \in 1..Len(r) /\ Starts(r, k) /\ OfOne(r, k, c[0])
        /\ before = SubSeq(r, From(k), c[0]) /\ <<>> = SubSeq(r, c[0] + 1, Len(r))
        /\ start = r[k] /\ start.frame = current
    <2>1. Plain(<<>>) = <<>>
      BY DEF Plain
    <2> QED BY <1>1, <2>1 DEF Chain, Links
  <1>4. c[0] = Len(r)
    <2>1. c[0] + 1 \in 1..(Len(r) + 1) /\ Len(r) \in ((c[0] + 1) - 1)..Len(r)
      BY <1>2, <1>3, NextPlace
    <2>2. Len(SubSeq(r, c[0] + 1, Len(r))) = Len(r) - (c[0] + 1) + 1
      BY <2>1, PartOf, Zenon
    <2>3. Len(r) - (c[0] + 1) + 1 = 0
      BY <1>1, <1>3, <2>2, Zenon
    <2> QED BY <1>2, <1>3, <2>3
  <1>5. Len(r) \in 1..Len(r) /\ r # <<>> /\ k <= Len(r) /\ From(k) \in 1..(Len(r) + 1)
        /\ Len(r) \in (From(k) - 1)..Len(r)
    BY <1>2, <1>3, EmptySeq DEF From
  <1>6. Starts(r2, k) /\ OfOne(r2, k, Len(r)) /\ r2[k] = start
    <2>1. k \in 1..(Len(r) + 1) /\ Len(r) \in 0..Len(r)
      BY <1>2, <1>3
    <2>2. Starts(r2, k)
      BY <1>3, StartsStays, Zenon
    <2>3. OfOne(r, k, Len(r))
      BY <1>3, <1>4, Zenon
    <2>4. OfOne(r2, k, Len(r))
      BY <2>1, <2>3, OneStays, Zenon
    <2>5. r2[k] = start
      BY <1>2, <1>3, Zenon
    <2> QED BY <2>2, <2>4, <2>5, Zenon
  <1>7. CASE current # p.frame
    <2>1. Whole(r2, [stamp |-> start, packets |-> before])
      <3>1. k \in 1..Len(r2) /\ Len(r) \in k..(Len(r2) - 1)
        BY <1>2, <1>3, <1>5
      <3>2. SubSeq(r2, From(k), Len(r)) = before
        <4>1. SubSeq(r2, From(k), Len(r)) = SubSeq(r, From(k), Len(r))
          BY <1>5, PartStays, Zenon
        <4>2. before = SubSeq(r, From(k), Len(r))
          BY <1>3, <1>4, Zenon
        <4> QED BY <4>1, <4>2, Zenon
      <3>3. r2[Len(r) + 1].frame # r2[k].frame
        BY <1>2, <1>3, <1>6, <1>7, Zenon
      <3> QED BY <1>6, <3>1, <3>2, <3>3, Zenon DEF Whole
    <2>2. Starts(r2, Len(r) + 1)
      BY <1>3, <1>5, <1>7, NewStarts, Zenon
    <2>3. Len(r) + 1 \in 1..Len(r2) /\ OfOne(r2, Len(r) + 1, Len(r2))
      BY <1>2 DEF OfOne
    <2>4. SubSeq(r2, From(Len(r) + 1), Len(r2)) = Append(<<>>, p)
      <3>1. Len(r) + 1 \in 1..(Len(r) + 1) /\ From(Len(r) + 1) = Len(r) + 1
        BY <1>2, <1>5 DEF From
      <3>2. SubSeq(r2, Len(r) + 1, Len(r) + 1) = Append(SubSeq(r, Len(r) + 1, Len(r)), p)
        BY <3>1, PartGrows, Zenon
      <3>3. SubSeq(r, Len(r) + 1, Len(r)) = <<>>
        BY <1>2, SubSeqEmpty
      <3> QED BY <1>2, <3>1, <3>2, <3>3, Zenon
    <2> HIDE DEF r2
    <2>5. \E c2, f2 \in [0..Len(<<>>) -> 1..Len(r2)] :
            Chain(r2, <<>>, c2, f2, Append(<<>>, p), <<>>, p, p.frame)
      <3>1. \E c2, f2 \in [0..Len(<<>>) -> 1..Len(r2)] :
              Chain(r2, <<>>, c2, f2, SubSeq(r2, From(Len(r) + 1), Len(r2)), <<>>,
                    r2[Len(r) + 1], r2[Len(r) + 1].frame)
        BY <1>2, <2>2, <2>3, CloudIsChain
      <3> QED BY <1>2, <2>4, <3>1, Zenon
    <2> QED BY <1>7, <2>1, <2>5, Zenon DEF r2, Joined
  <1>8. CASE current = p.frame
    <2>1. k \in 1..Len(r2) /\ OfOne(r2, k, Len(r2))
      <3>1. \A j \in k..Len(r2) : j \in k..Len(r) \/ j = Len(r) + 1
        BY <1>2, <1>3
      <3>2. r2[Len(r) + 1].frame = r2[k].frame
        BY <1>2, <1>3, <1>6, <1>8, Zenon
      <3>3. k \in 1..Len(r2)
        BY <1>2, <1>3
      <3> QED BY <1>6, <3>1, <3>2, <3>3, Zenon DEF OfOne
    <2>2. SubSeq(r2, From(k), Len(r2)) = Append(before, p)
      <3>1. SubSeq(r2, From(k), Len(r) + 1) = Append(SubSeq(r, From(k), Len(r)), p)
        BY <1>5, PartGrows, Zenon
      <3> QED BY <1>2, <1>3, <1>4, <3>1, Zenon
    <2>3. \E c2, f2 \in [0..Len(<<>>) -> 1..Len(r2)] :
            Chain(r2, <<>>, c2, f2, Append(before, p), <<>>, start, p.frame)
      <3> HIDE DEF r2, k
      <3>1. \E c2, f2 \in [0..Len(<<>>) -> 1..Len(r2)] :
              Chain(r2, <<>>, c2, f2, SubSeq(r2, From(k), Len(r2)), <<>>, r2[k], r2[k].frame)
        BY <1>2, <1>6, <2>1, CloudIsChain
      <3> QED BY <1>3, <1>6, <1>8, <2>2, <3>1, Zenon
    <2> QED BY <1>8, <2>3, Zenon DEF r2, Joined
  <1> QED BY <1>7, <1>8
(* What every packet does to what came.                                    *)
LEMMA CameNext ==
  ASSUME FramesTypeOK, WholeInv, NEW p \in FramePackets, DataCallback(p)
  PROVE  /\ received \in Seq(FramePackets) /\ received' = Append(received, p) /\ received' # <<>>
         /\ received'[Len(received')] = p /\ Ordered(received') /\ p.frame # -1
         /\ received # <<>> => /\ current_frame_id = received[Len(received)].frame
                               /\ current_frame_id <= p.frame
  <1>1. received \in Seq(FramePackets) /\ received' = Append(received, p)
    BY DEF FramesTypeOK, DataCallback
  <1>2. /\ received' \in Seq(FramePackets) /\ Len(received') = Len(received) + 1
        /\ Len(received) \in Nat /\ received'[Len(received) + 1] = p
    BY <1>1, Grown, Zenon
  <1>3. received' # <<>> /\ received'[Len(received')] = p
    <2>1. Len(received) + 1 # 0
      BY <1>2
    <2> QED BY <1>2, <2>1, EmptySeq, Zenon
  <1>4. p.frame \in 1..MaxFrames /\ p.frame # -1 /\ p.frame \in Int
    <2>1. p.frame \in 1..MaxFrames
      BY PacketFields
    <2> QED BY <2>1
  <1>5. received # <<>> => current_frame_id = received[Len(received)].frame
    BY DEF WholeInv
  <1>6. ASSUME received # <<>> PROVE received[Len(received)].frame <= p.frame
    <2>1. Later(p, received[Len(received)])
      BY <1>6 DEF DataCallback, MayCome
    <2>2. Len(received) \in 1..Len(received)
      BY <1>6, EmptySeq
    <2>3. received[Len(received)] \in FramePackets
      BY <1>1, <2>2, ElementOfSeq
    <2>4. received[Len(received)].frame \in 1..MaxFrames
      BY <2>3, PacketFields
    <2> QED BY <1>4, <2>1, <2>4 DEF Later
  <1>7. Ordered(received')
    BY <1>1, <1>6, OrderGrows DEF WholeInv
  <1>8. received # <<>> => current_frame_id <= p.frame
    <2> SUFFICES ASSUME received # <<>> PROVE current_frame_id <= p.frame
      OBVIOUS
    <2>1. current_frame_id = received[Len(received)].frame /\ received[Len(received)].frame <= p.frame
      BY <1>5, <1>6, Zenon
    <2> QED BY <2>1, Zenon
  <1> QED BY <1>1, <1>3, <1>4, <1>5, <1>7, <1>8, Zenon

(* The frame that was published last stays one.                            *)
LEMMA WholeStays ==
  ASSUME FramesTypeOK, WholeInv, NEW p \in FramePackets, DataCallback(p), UNCHANGED frame, ~lost, frame # NoFrame
  PROVE  Whole(received', frame')
  <1>1. Whole(received, frame)
    BY DEF WholeInv
  <1> QED BY <1>1, CameNext, WholeGrows

LEMMA WholeFirst ==
  ASSUME FramesTypeOK, WholeInv, NEW p \in FramePackets, DataCallback(p), FirstPacket(p)
  PROVE  WholeInv'
  <1>1. /\ received = <<>> /\ current_frame_id' = p.frame /\ frame_start_ts' = p
        /\ topic' = topic /\ cloud' = cloud /\ scan' = scan /\ frame' = frame
    BY DEF FirstPacket, WholeInv, adapterVars, outVars
  <1>2. topic' = <<>> /\ cloud' = <<>> /\ scan' = <<>> /\ frame' = NoFrame
    BY <1>1, Zenon DEF WholeInv
  <1>3. /\ received' = Append(<<>>, p) /\ received' # <<>> /\ received'[Len(received')] = p
        /\ Ordered(received') /\ p.frame # -1
    BY <1>1, CameNext, Zenon
  <1>4. \E c, f \in [0..Len(<<>>) -> 1..Len(received')] :
          Chain(received', <<>>, c, f, <<>>, <<>>, p, p.frame)
    BY <1>3, ChainFirst, Zenon
  <1>5. \E c, f \in [0..Len(topic') -> 1..Len(received')] :
          Chain(received', topic', c, f, cloud', scan', frame_start_ts', current_frame_id')
    BY <1>1, <1>2, <1>4, Zenon
  <1> QED BY <1>1, <1>2, <1>3, <1>5, Zenon DEF WholeInv

LEMMA WholeCollect ==
  ASSUME FramesTypeOK, WholeInv, NEW p \in FramePackets, DataCallback(p), CollectPacket(p)
  PROVE  WholeInv'
  <1>1. /\ topic = <<>> /\ scan = <<>> /\ topic' = topic /\ scan' = scan /\ lost' = lost
        /\ received # <<>> /\ ~PacketMode
    BY DEF CollectPacket, WholeInv, adapterVars
  <1>2. /\ current_frame_id' = p.frame
        /\ frame_start_ts' = IF current_frame_id # p.frame THEN p ELSE frame_start_ts
        /\ cloud' = Append(IF current_frame_id # p.frame THEN <<>> ELSE cloud, p)
        /\ current_frame_id # p.frame => frame' = [stamp |-> frame_start_ts, packets |-> cloud]
        /\ current_frame_id = p.frame => frame' = frame
    BY Zenon DEF CollectPacket, Begin, IsNextFrame, Publish, Cleared
  <1>3. /\ received \in Seq(FramePackets) /\ received' = Append(received, p) /\ received' # <<>>
        /\ received'[Len(received')] = p /\ Ordered(received') /\ p.frame # -1
        /\ current_frame_id = received[Len(received)].frame /\ current_frame_id <= p.frame
    BY <1>1, CameNext, Zenon
  <1>4. ASSUME ~lost'
        PROVE  /\ \E c, f \in [0..Len(topic') -> 1..Len(received')] :
                    Chain(received', topic', c, f, cloud', scan', frame_start_ts', current_frame_id')
               /\ frame' # NoFrame => Whole(received', frame')
    <2>1. PICK c, f : Chain(received, <<>>, c, f, cloud, <<>>, frame_start_ts, current_frame_id)
      BY <1>1, <1>4, Zenon DEF WholeInv
    <2>2. Ordered(received)
      BY DEF WholeInv
    <2>3. /\ current_frame_id # p.frame =>
               Whole(Append(received, p), [stamp |-> frame_start_ts, packets |-> cloud])
          /\ \E c2, f2 \in [0..Len(<<>>) -> 1..Len(Append(received, p))] :
               Chain(Append(received, p), <<>>, c2, f2,
                     Append(IF current_frame_id # p.frame THEN <<>> ELSE cloud, p), <<>>,
                     IF current_frame_id # p.frame THEN p ELSE frame_start_ts, p.frame)
      <3>1. Joined(received, p, cloud, frame_start_ts, current_frame_id)
        BY <1>3, <2>1, <2>2, ChainCollect
      <3> QED BY <3>1, Zenon DEF Joined
    <2>4. frame' # NoFrame => Whole(received', frame')
      <3>1. CASE current_frame_id # p.frame
        BY <1>2, <1>3, <2>3, <3>1, Zenon
      <3>2. CASE current_frame_id = p.frame
        <4>1. frame' = frame /\ ~lost
          BY <1>1, <1>2, <1>4, <3>2, Zenon
        <4> QED BY <4>1, WholeStays, Zenon
      <3> QED BY <3>1, <3>2
    <2>5. topic' = <<>> /\ scan' = <<>>
      BY <1>1, Zenon
    <2>6. \E c2, f2 \in [0..Len(<<>>) -> 1..Len(received')] :
            Chain(received', <<>>, c2, f2, cloud', <<>>, frame_start_ts', current_frame_id')
      BY <1>2, <1>3, <2>3, Zenon
    <2> QED BY <2>4, <2>5, <2>6, Zenon
  <1>5. topic' = <<>> /\ scan' = <<>>
    BY <1>1, Zenon
  <1> QED BY <1>1, <1>2, <1>3, <1>4, <1>5, Zenon DEF WholeInv
LEMMA WholePublish ==
  ASSUME FramesAssumption, FramesTypeOK, WholeInv, NEW p \in FramePackets, DataCallback(p), PublishPacket(p)
  PROVE  WholeInv'
  <1>1. received # <<>> /\ PacketMode /\ cloud' = cloud /\ frame' = frame
    BY DEF PublishPacket, WholeInv, outVars
  <1>2. /\ current_frame_id' = p.frame
        /\ frame_start_ts' = IF current_frame_id # p.frame THEN p ELSE frame_start_ts
    BY Zenon DEF PublishPacket, Begin, IsNextFrame
  <1>3. /\ received \in Seq(FramePackets) /\ received' = Append(received, p) /\ received' # <<>>
        /\ received'[Len(received')] = p /\ Ordered(received') /\ p.frame # -1
        /\ current_frame_id = received[Len(received)].frame /\ current_frame_id <= p.frame
    BY <1>1, CameNext, Zenon
  <1>4. ASSUME ~lost'
        PROVE  \E c, f \in [0..Len(topic') -> 1..Len(received')] :
                 Chain(received', topic', c, f, cloud', scan', frame_start_ts', current_frame_id')
    <2>0. ~lost
      BY <1>4, AppendSent, Zenon
    <2>1. PICK c, f : Chain(received, topic, c, f, cloud, scan, frame_start_ts, current_frame_id)
      BY <1>1, <2>0, Zenon DEF WholeInv
    <2>2. PICK e \in ScanPackets : e.packet = p /\ scan' = Append(IF SendsScan(p) THEN <<>> ELSE scan, e)
      BY ScanGrows, Zenon
    <2>3. scan \in Seq(ScanPackets) /\ topic \in Seq(Scans) /\ Ordered(received)
      BY DEF FramesTypeOK, WholeInv, ScanPackets
    <2>4. CASE SendsScan(p)
      <3> DEFINE s == SentScan(p)
      <3>1. s \in Scans /\ s.packets = scan /\ (s.last <=> current_frame_id # p.frame)
            /\ (s.last => s.stamp = frame_start_ts)
        BY SentFields, SentIsScan, Zenon DEF IsNextFrame
      <3>2. topic' = Append(topic, s)
        <4>1. topic' = KeepLast(Append(topic, s)) /\ Len(topic) # Depth
          BY <1>4, <2>4, AppendSent, Zenon
        <4>2. Len(topic) <= Depth /\ Depth \in Nat \ {0}
          BY DEF FramesTypeOK, FramesAssumption
        <4> HIDE DEF s
        <4> QED BY <2>3, <3>1, <4>1, <4>2, Keeping
      <3> HIDE DEF s
      <3>3. \E c2, f2 \in [0..Len(Append(topic, s)) -> 1..Len(Append(received, p))] :
              Chain(Append(received, p), Append(topic, s), c2, f2, cloud, Append(<<>>, e),
                    IF current_frame_id # p.frame THEN p ELSE frame_start_ts, p.frame)
        <4>1. ScanFollows(received, p, Append(topic, s), cloud, e, frame_start_ts, current_frame_id)
          BY <1>3, <2>1, <2>2, <2>3, <3>1, ChainSend
        <4> QED BY <4>1, Zenon DEF ScanFollows
      <3>4. scan' = Append(<<>>, e)
        BY <2>2, <2>4
      <3> QED BY <1>1, <1>2, <1>3, <3>2, <3>3, <3>4, Zenon
    <2>5. CASE ~SendsScan(p)
      <3>1. current_frame_id = p.frame
        BY <2>5, Zenon DEF SendsScan, IsNextFrame
      <3>2. topic' = topic
        BY <2>5, AppendSent, Zenon
      <3>3. /\ Chain(Append(received, p), topic, c, f, cloud, Append(scan, e), frame_start_ts, current_frame_id)
            /\ c \in [0..Len(topic) -> 1..Len(Append(received, p))]
            /\ f \in [0..Len(topic) -> 1..Len(Append(received, p))]
        BY <1>3, <2>1, <2>2, <2>3, ChainFill
      <3>4. scan' = Append(scan, e) /\ frame_start_ts' = frame_start_ts
        BY <1>2, <2>2, <2>5, <3>1, Zenon
      <3> QED BY <1>1, <1>2, <1>3, <3>1, <3>2, <3>3, <3>4, Zenon
    <2> QED BY <2>4, <2>5
  <1>5. ~lost' /\ frame' # NoFrame => Whole(received', frame')
    <2>1. ~lost' => ~lost
      BY AppendSent, Zenon
    <2> QED BY <1>1, <2>1, WholeStays, Zenon
  <1> QED BY <1>1, <1>2, <1>3, <1>4, <1>5, Zenon DEF WholeInv

LEMMA WholeSubscribe ==
  ASSUME FramesTypeOK, WholeInv, SubscribePacket
  PROVE  WholeInv'
  <1> DEFINE s == topic[1]
             all == cloud \o Plain(s.packets)
  <1>1. /\ topic # <<>> /\ topic' = Tail(topic) /\ lost' = lost /\ received' = received
        /\ scan' = scan /\ current_frame_id' = current_frame_id /\ frame_start_ts' = frame_start_ts
    BY DEF SubscribePacket, driverVars
  <1>2. received # <<>> /\ PacketMode
    BY <1>1, Zenon DEF WholeInv
  <1>3. Head(topic) = s /\ Collected = all
    <2>1. Head(topic) = s
      BY <1>1, HeadTailProperties DEF FramesTypeOK
    <2>2. Collected = cloud \o Plain(Head(topic).packets)
      BY DEF Collected, Plain
    <2> QED BY <2>1, <2>2, Zenon
  <1>4. /\ s.last => cloud' = <<>> /\ frame' = [stamp |-> s.stamp, packets |-> all]
        /\ ~s.last => cloud' = all /\ frame' = frame
    <2>1. IF Head(topic).last THEN Publish(Head(topic).stamp, Collected) /\ cloud' = Cleared
                              ELSE cloud' = Collected /\ UNCHANGED <<frame, published>>
      BY Zenon DEF SubscribePacket
    <2>2. UNCHANGED <<frame, published>> => frame' = frame
      OBVIOUS
    <2> HIDE DEF s, all
    <2> QED BY <1>3, <2>1, <2>2, Zenon DEF Publish, Cleared
  <1>5. ASSUME ~lost'
        PROVE  /\ \E c, f \in [0..Len(topic') -> 1..Len(received')] :
                    Chain(received', topic', c, f, cloud', scan', frame_start_ts', current_frame_id')
               /\ frame' # NoFrame => Whole(received', frame')
    <2>0. ~lost
      BY <1>1, <1>5, Zenon
    <2>1. PICK c, f : Chain(received, topic, c, f, cloud, scan, frame_start_ts, current_frame_id)
      BY <1>2, <2>0, Zenon DEF WholeInv
    <2>2. received \in Seq(FramePackets) /\ topic \in Seq(Scans)
      BY DEF FramesTypeOK
    <2>3. /\ s.last => Whole(received, [stamp |-> s.stamp, packets |-> all])
          /\ \E c2, f2 \in [0..Len(Tail(topic)) -> 1..Len(received)] :
               Chain(received, Tail(topic), c2, f2, IF s.last THEN <<>> ELSE all, scan,
                     frame_start_ts, current_frame_id)
      BY <1>1, <2>1, <2>2, ChainTake
    <2> HIDE DEF s, all
    <2>4. cloud' = IF s.last THEN <<>> ELSE all
      BY <1>4, Zenon
    <2>5. frame' # NoFrame => Whole(received', frame')
      <3>1. CASE s.last
        BY <1>1, <1>4, <2>3, <3>1, Zenon
      <3>2. CASE ~s.last
        BY <1>1, <1>4, <2>0, <3>2, Zenon DEF WholeInv
      <3> QED BY <3>1, <3>2
    <2> QED BY <1>1, <2>3, <2>4, <2>5, Zenon
  <1>6. received' # <<>> /\ Ordered(received')
    BY <1>1, <1>2, Zenon DEF WholeInv
  <1>7. current_frame_id' # -1 /\ current_frame_id' = received'[Len(received')].frame
    BY <1>1, <1>2, Zenon DEF WholeInv
  <1> QED BY <1>2, <1>5, <1>6, <1>7, Zenon DEF WholeInv

LEMMA WholeStep ==
  ASSUME FramesAssumption, FramesTypeOK, WholeInv, [FramesNext]_framesVars
  PROVE  WholeInv'
  <1>1. ASSUME NEW p \in FramePackets, DataCallback(p) PROVE WholeInv'
    <2>1. FirstPacket(p) \/ CollectPacket(p) \/ PublishPacket(p)
      BY <1>1 DEF DataCallback
    <2> QED BY <1>1, <2>1, WholeFirst, WholeCollect, WholePublish
  <1>2. CASE SubscribePacket
    BY <1>2, WholeSubscribe
  <1>3. CASE UNCHANGED framesVars
    <2>1. /\ received' = received /\ topic' = topic /\ cloud' = cloud /\ scan' = scan /\ frame' = frame
          /\ lost' = lost /\ current_frame_id' = current_frame_id /\ frame_start_ts' = frame_start_ts
      BY <1>3 DEF framesVars, driverVars, adapterVars, outVars
    <2> QED BY <2>1, Zenon DEF WholeInv
  <1> QED BY <1>1, <1>2, <1>3 DEF FramesNext

(* All of a frame, where the frames come in order, is all there is of it.  *)
LEMMA WholeIsAll ==
  ASSUME received \in Seq(FramePackets), Ordered(received), Whole(received, frame)
  PROVE  \E first \in DOMAIN received : \E last \in first..Len(received) :
           /\ {i \in DOMAIN received : received[i].frame = frame.stamp.frame} = first..last
           /\ frame.stamp = received[first]
           /\ frame.packets = SubSeq(received, IF first = 1 THEN 2 ELSE first, last)
  <1> DEFINE r == received
  <1>1. Len(r) \in Nat /\ DOMAIN r = 1..Len(r)
    BY LenProperties
  <1>2. PICK first \in 1..Len(r) : \E last \in first..(Len(r) - 1) :
          /\ Starts(r, first) /\ OfOne(r, first, last) /\ r[last + 1].frame # r[first].frame
          /\ frame.stamp = r[first] /\ frame.packets = SubSeq(r, From(first), last)
    BY Zenon DEF Whole
  <1>3. PICK last \in first..(Len(r) - 1) :
          /\ Starts(r, first) /\ OfOne(r, first, last) /\ r[last + 1].frame # r[first].frame
          /\ frame.stamp = r[first] /\ frame.packets = SubSeq(r, From(first), last)
    BY <1>2
  <1> DEFINE of == {i \in DOMAIN r : r[i].frame = frame.stamp.frame}
  <1>4. \A i \in 1..Len(r) : r[i].frame \in Int
    <2> TAKE i \in 1..Len(r)
    <2>1. r[i] \in FramePackets
      BY ElementOfSeq
    <2>2. r[i].frame \in 1..MaxFrames
      BY <2>1, PacketFields
    <2> QED BY <2>2
  <1>5. ASSUME NEW i \in 1..Len(r) PROVE r[i].frame = r[first].frame <=> i \in first..last
    <2>1. CASE i \in first..last
      BY <1>3, <2>1 DEF OfOne
    <2>2. CASE i < first
      <3>1. i \in 1..(first - 1) /\ ~(i \in first..last)
        BY <1>1, <2>2
      <3> QED BY <1>3, <3>1 DEF Starts
    <2>3. CASE i > last
      <3>1. last + 1 \in 1..Len(r) /\ last + 1 <= i /\ first <= last + 1 /\ ~(i \in first..last)
        BY <1>1, <2>3
      <3>2. r[first].frame <= r[last + 1].frame /\ r[last + 1].frame <= r[i].frame
        BY <3>1 DEF Ordered
      <3>3. r[first].frame \in Int /\ r[last + 1].frame \in Int /\ r[i].frame \in Int
        BY <1>4, <3>1
      <3>4. r[last + 1].frame # r[first].frame
        BY <1>3
      <3>5. r[i].frame # r[first].frame
        <4> DEFINE a == r[first].frame
                   b == r[last + 1].frame
                   d == r[i].frame
        <4>1. a \in Int /\ b \in Int /\ d \in Int /\ a <= b /\ b <= d /\ b # a
          BY <3>2, <3>3, <3>4, Zenon
        <4> HIDE DEF a, b, d
        <4>2. d # a
          BY <4>1
        <4> QED BY <4>2, Zenon DEF a, d
      <3> QED BY <3>1, <3>5
    <2>4. i \in first..last \/ i < first \/ i > last
      BY <1>1
    <2> QED BY <2>1, <2>2, <2>3, <2>4
  <1>6. of = first..last
    <2>1. \A i \in first..last : i \in 1..Len(r)
      BY <1>1
    <2> QED BY <1>1, <1>3, <1>5, <2>1, Zenon
  <1>7. first \in DOMAIN r /\ last \in first..Len(r)
    BY <1>1
  <1> QED BY <1>3, <1>6, <1>7, Zenon DEF From

(* Every cloud that is published, by the driver or by a subscriber that    *)
(* lost no scan, is one whole frame, for any number of frames and packets  *)
(* of a frame, whichever are missing, any aggregate_num and any depth.     *)
THEOREM FramesComeWhole ==
  ASSUME FramesAssumption
  PROVE  FramesSpec => []FramesAreWhole
  <1>1. FramesInit => WholeInv
    <2> SUFFICES ASSUME FramesInit PROVE WholeInv
      OBVIOUS
    <2>1. received = <<>> /\ topic = <<>> /\ cloud = <<>> /\ scan = <<>> /\ frame = NoFrame
          /\ current_frame_id = -1
      BY DEF FramesInit
    <2>2. Ordered(received)
      BY <2>1 DEF Ordered
    <2> QED BY <2>1, <2>2, Zenon DEF WholeInv
  <1>2. FramesTypeOK /\ WholeInv => FramesAreWhole
    <2> SUFFICES ASSUME FramesTypeOK, WholeInv, frame # NoFrame, ~lost
                 PROVE  \E first \in DOMAIN received : \E last \in first..Len(received) :
                          /\ {i \in DOMAIN received : received[i].frame = frame.stamp.frame} = first..last
                          /\ frame.stamp = received[first]
                          /\ frame.packets = SubSeq(received, IF first = 1 THEN 2 ELSE first, last)
      BY Zenon DEF FramesAreWhole
    <2>1. received \in Seq(FramePackets) /\ Ordered(received) /\ Whole(received, frame)
      BY DEF FramesTypeOK, WholeInv
    <2> QED BY <2>1, WholeIsAll, Zenon
  <1> QED BY <1>1, <1>2, FramesTypes, WholeStep, PTL DEF FramesSpec
-----------------------------------------------------------------------------
(* The frames of the packets r, and the scans of q that end a frame.       *)
FramesOf(r) == {r[i].frame : i \in DOMAIN r}
Lasts(q)    == {i \in DOMAIN q : q[i].last}

LEMMA FramesGrow ==
  ASSUME FramesAssumption, NEW r \in Seq(FramePackets), NEW p \in FramePackets, Ordered(r),
         r # <<>> => r[Len(r)].frame <= p.frame
  PROVE  /\ IsFiniteSet(FramesOf(r)) /\ Cardinality(FramesOf(r)) \in Nat
         /\ Cardinality(FramesOf(Append(r, p))) =
              IF r # <<>> /\ r[Len(r)].frame = p.frame THEN Cardinality(FramesOf(r))
                                                       ELSE Cardinality(FramesOf(r)) + 1
  <1>1. /\ Append(r, p) \in Seq(FramePackets) /\ Len(Append(r, p)) = Len(r) + 1 /\ Len(r) \in Nat
        /\ \A j \in 1..Len(r) : Append(r, p)[j] = r[j]
        /\ Append(r, p)[Len(r) + 1] = p
        /\ DOMAIN r = 1..Len(r) /\ DOMAIN Append(r, p) = 1..(Len(r) + 1)
    BY AppendProperties, LenProperties
  <1>2. \A j \in 1..Len(r) : r[j].frame \in 1..MaxFrames
    <2> TAKE j \in 1..Len(r)
    <2>1. r[j] \in FramePackets
      BY ElementOfSeq
    <2> QED BY <2>1, PacketFields
  <1>3. IsFiniteSet(FramesOf(r)) /\ Cardinality(FramesOf(r)) \in Nat
    <2>1. IsFiniteSet(1..MaxFrames)
      <3>1. 1 \in Int /\ MaxFrames \in Int
        BY DEF FramesAssumption
      <3> QED BY <3>1, FS_Interval
    <2>2. FramesOf(r) \in SUBSET (1..MaxFrames)
      BY <1>1, <1>2, Zenon DEF FramesOf
    <2> QED BY <2>1, <2>2, FS_Subset, FS_CardinalityType
  <1>4. FramesOf(Append(r, p)) = FramesOf(r) \cup {p.frame}
    <2>1. \A j \in 1..(Len(r) + 1) : j \in 1..Len(r) \/ j = Len(r) + 1
      BY <1>1
    <2>2. \A j \in 1..Len(r) : j \in 1..(Len(r) + 1)
      BY <1>1
    <2>3. Len(r) + 1 \in 1..(Len(r) + 1)
      BY <1>1
    <2> QED BY <1>1, <2>1, <2>2, <2>3, Zenon DEF FramesOf
  <1>5. p.frame \in FramesOf(r) <=> r # <<>> /\ r[Len(r)].frame = p.frame
    <2>1. CASE r = <<>>
      <3>1. DOMAIN r = {}
        BY <2>1
      <3> QED BY <2>1, <3>1, Zenon DEF FramesOf
    <2>2. CASE r # <<>>
      <3>1. Len(r) \in 1..Len(r)
        BY <2>2, EmptySeq
      <3>2. r[Len(r)].frame = p.frame => p.frame \in FramesOf(r)
        BY <1>1, <3>1, Zenon DEF FramesOf
      <3>3. ASSUME NEW j \in 1..Len(r), r[j].frame = p.frame PROVE r[Len(r)].frame = p.frame
        <4>1. j <= Len(r)
          BY <1>1
        <4>2. r[j].frame <= r[Len(r)].frame /\ r[Len(r)].frame <= p.frame
          BY <2>2, <3>1, <4>1 DEF Ordered
        <4>3. r[Len(r)].frame \in 1..MaxFrames /\ p.frame \in 1..MaxFrames
          BY <1>2, <3>1, PacketFields
        <4> HIDE <1>1, <1>2
        <4> QED BY <3>3, <4>2, <4>3
      <3> QED BY <1>1, <2>2, <3>2, <3>3, Zenon DEF FramesOf
    <2> QED BY <2>1, <2>2
  <1> QED BY <1>3, <1>4, <1>5, FS_AddElement

LEMMA LastsFinite ==
  ASSUME NEW q \in Seq(Scans)
  PROVE  IsFiniteSet(Lasts(q)) /\ Cardinality(Lasts(q)) \in Nat
  <1>1. IsFiniteSet(1..Len(q)) /\ DOMAIN q = 1..Len(q)
    <2>1. 1 \in Int /\ Len(q) \in Int /\ DOMAIN q = 1..Len(q)
      BY LenProperties
    <2> QED BY <2>1, FS_Interval
  <1>2. Lasts(q) \in SUBSET (1..Len(q))
    BY <1>1, Zenon DEF Lasts
  <1> QED BY <1>1, <1>2, FS_Subset, FS_CardinalityType

LEMMA LastsGrow ==
  ASSUME NEW q \in Seq(Scans), NEW s \in Scans
  PROVE  Cardinality(Lasts(Append(q, s))) =
           IF s.last THEN Cardinality(Lasts(q)) + 1 ELSE Cardinality(Lasts(q))
  <1>1. /\ Len(q) \in Nat /\ DOMAIN q = 1..Len(q) /\ DOMAIN Append(q, s) = 1..(Len(q) + 1)
        /\ \A i \in 1..Len(q) : Append(q, s)[i] = q[i]
        /\ Append(q, s)[Len(q) + 1] = s
    BY AppendProperties, LenProperties
  <1>2. /\ \A j \in 1..(Len(q) + 1) : j \in 1..Len(q) \/ j = Len(q) + 1
        /\ \A j \in 1..Len(q) : j \in 1..(Len(q) + 1)
        /\ Len(q) + 1 \in 1..(Len(q) + 1) /\ ~(Len(q) + 1 \in 1..Len(q))
    BY <1>1
  <1>3. CASE s.last
    <2>1. Lasts(Append(q, s)) = Lasts(q) \cup {Len(q) + 1}
      BY <1>1, <1>2, <1>3, Zenon DEF Lasts
    <2>2. ~(Len(q) + 1 \in Lasts(q))
      BY <1>1, <1>2, Zenon DEF Lasts
    <2> QED BY <1>3, <2>1, <2>2, LastsFinite, FS_AddElement
  <1>4. CASE ~s.last
    <2>1. Lasts(Append(q, s)) = Lasts(q)
      BY <1>1, <1>2, <1>4, Zenon DEF Lasts
    <2> QED BY <1>4, <2>1, Zenon
  <1> QED BY <1>3, <1>4

LEMMA LastsShrink ==
  ASSUME NEW q \in Seq(Scans), q # <<>>
  PROVE  Cardinality(Lasts(Tail(q))) =
           IF q[1].last THEN Cardinality(Lasts(q)) - 1 ELSE Cardinality(Lasts(q))
  <1> DEFINE S == Lasts(Tail(q))
             T == Lasts(q) \ {1}
             g == [i \in S |-> i + 1]
  <1>1. /\ Tail(q) \in Seq(Scans) /\ Len(q) \in Nat \ {0} /\ Len(Tail(q)) = Len(q) - 1
        /\ DOMAIN q = 1..Len(q) /\ DOMAIN Tail(q) = 1..(Len(q) - 1)
        /\ \A i \in 1..(Len(q) - 1) : Tail(q)[i] = q[i + 1]
    <2>1. /\ Tail(q) \in Seq(Scans) /\ Len(q) \in Nat \ {0} /\ Len(Tail(q)) = Len(q) - 1
          /\ \A i \in 1..Len(Tail(q)) : Tail(q)[i] = q[i + 1]
      BY EmptySeq, HeadTailProperties
    <2>2. DOMAIN q = 1..Len(q) /\ DOMAIN Tail(q) = 1..Len(Tail(q))
      BY <2>1, LenProperties
    <2> QED BY <2>1, <2>2, Zenon
  <1>2. \A i \in S : i \in 1..(Len(q) - 1) /\ i \in Int /\ q[i + 1].last
    <2> SUFFICES ASSUME NEW i \in S PROVE i \in 1..(Len(q) - 1) /\ q[i + 1].last
      OBVIOUS
    <2> QED BY <1>1, Zenon DEF Lasts
  <1>3. \A i \in T : i \in 1..Len(q) /\ i # 1 /\ q[i].last
    BY <1>1, Zenon DEF Lasts
  <1>4. g \in [S -> T]
    <2> SUFFICES ASSUME NEW i \in S PROVE i + 1 \in T
      BY Zenon
    <2>1. i + 1 \in 1..Len(q) /\ i + 1 # 1
      BY <1>1, <1>2
    <2> QED BY <1>1, <1>2, <2>1, Zenon DEF Lasts
  <1>5. \A a, b \in S : g[a] = g[b] => a = b
    <2> HIDE DEF S
    <2> QED BY <1>2
  <1>6. \A t \in T : \E i \in S : g[i] = t
    <2> SUFFICES ASSUME NEW t \in T PROVE \E i \in S : g[i] = t
      OBVIOUS
    <2>1. t - 1 \in 1..(Len(q) - 1) /\ (t - 1) + 1 = t
      BY <1>1, <1>3
    <2>2. t - 1 \in S
      BY <1>1, <1>3, <2>1, Zenon DEF Lasts
    <2>3. g[t - 1] = t
      BY <2>1, <2>2, Zenon
    <2> QED BY <2>2, <2>3, Zenon
  <1>7. ExistsBijection(S, T)
    <2> HIDE DEF S, T, g
    <2>1. g \in Bijection(S, T)
      BY <1>4, <1>5, <1>6, Fun_IsBij, Zenon
    <2> QED BY <2>1, Zenon DEF ExistsBijection
  <1>8. IsFiniteSet(S)
    BY <1>1, LastsFinite
  <1>9. Cardinality(T) = Cardinality(S)
    <2> HIDE DEF S, T
    <2> QED BY <1>7, <1>8, FS_Bijection
  <1>10. 1 \in Lasts(q) <=> q[1].last
    <2>1. 1 \in 1..Len(q)
      BY <1>1
    <2> QED BY <1>1, <2>1, Zenon DEF Lasts
  <1>11. IsFiniteSet(Lasts(q))
    BY LastsFinite
  <1> HIDE DEF S
  <1> QED BY <1>9, <1>10, <1>11, FS_RemoveElement DEF S

(* Between two steps: the frames that are over and not published wait.     *)
CountInv ==
  ~lost =>
    /\ received = <<>> => published = 0
    /\ received # <<>> => published + Cardinality(Lasts(topic)) + 1 = Cardinality(FramesOf(received))

(* What a packet adds to the frames that came.                             *)
LEMMA FramesAfter ==
  ASSUME FramesAssumption, FramesTypeOK, WholeInv, NEW p \in FramePackets, DataCallback(p), received # <<>>
  PROVE  /\ Cardinality(FramesOf(received)) \in Nat /\ received' # <<>>
         /\ Cardinality(FramesOf(received')) =
              IF current_frame_id = p.frame THEN Cardinality(FramesOf(received))
                                            ELSE Cardinality(FramesOf(received)) + 1
  <1>1. /\ received \in Seq(FramePackets) /\ received' = Append(received, p) /\ received' # <<>>
        /\ current_frame_id = received[Len(received)].frame /\ current_frame_id <= p.frame
    BY CameNext, Zenon
  <1>2. received[Len(received)].frame <= p.frame /\ Ordered(received)
    BY <1>1, Zenon DEF WholeInv
  <1> QED BY <1>1, <1>2, FramesGrow

LEMMA CountFirst ==
  ASSUME FramesAssumption, FramesTypeOK, WholeInv, CountInv, NEW p \in FramePackets, DataCallback(p), FirstPacket(p)
  PROVE  CountInv'
  <1>1. /\ received = <<>> /\ topic = <<>> /\ topic' = topic /\ published' = published /\ lost' = lost
    BY DEF FirstPacket, WholeInv, adapterVars, outVars
  <1>2. received' = Append(<<>>, p) /\ received' # <<>>
    BY <1>1, CameNext, Zenon
  <1>3. Cardinality(FramesOf(received')) = 0 + 1
    <2>1. FramesOf(<<>>) = {} /\ Cardinality({}) = 0
      BY FS_EmptySet DEF FramesOf
    <2>2. <<>> \in Seq(FramePackets) /\ Ordered(<<>>)
      BY EmptySeq DEF Ordered
    <2>3. Cardinality(FramesOf(Append(<<>>, p))) = Cardinality(FramesOf(<<>>)) + 1
      BY <2>2, FramesGrow
    <2> QED BY <1>2, <2>1, <2>3, Zenon
  <1>4. Cardinality(Lasts(topic')) = 0
    <2>1. Lasts(<<>>) = {}
      BY DEF Lasts
    <2> QED BY <1>1, <2>1, FS_EmptySet, Zenon
  <1>5. ~lost' => published' = 0
    BY <1>1, Zenon DEF CountInv
  <1>6. ~lost' => published' + Cardinality(Lasts(topic')) + 1 = Cardinality(FramesOf(received'))
    BY <1>3, <1>4, <1>5
  <1> QED BY <1>2, <1>6, Zenon DEF CountInv

LEMMA CountCollect ==
  ASSUME FramesAssumption, FramesTypeOK, WholeInv, CountInv, NEW p \in FramePackets, DataCallback(p), CollectPacket(p)
  PROVE  CountInv'
  <1>1. received # <<>> /\ topic' = topic /\ lost' = lost
    BY DEF CollectPacket, WholeInv, adapterVars
  <1>2. published' = IF current_frame_id = p.frame THEN published ELSE published + 1
    BY Zenon DEF CollectPacket, IsNextFrame, Publish
  <1> DEFINE had  == Cardinality(FramesOf(received))
             has  == Cardinality(FramesOf(received'))
             wait == Cardinality(Lasts(topic))
  <1>3. /\ had \in Nat /\ wait \in Nat /\ published \in Nat /\ received' # <<>>
        /\ has = IF current_frame_id = p.frame THEN had ELSE had + 1
    <2>1. topic \in Seq(Scans) /\ published \in Nat
      BY DEF FramesTypeOK
    <2> QED BY <1>1, <2>1, FramesAfter, LastsFinite, Zenon
  <1>4. ~lost' => published + wait + 1 = had
    BY <1>1, Zenon DEF CountInv
  <1> HIDE DEF had, has, wait
  <1>5. ~lost' => published' + wait + 1 = has
    BY <1>2, <1>3, <1>4
  <1>6. ~lost' => published' + Cardinality(Lasts(topic')) + 1 = Cardinality(FramesOf(received'))
    BY <1>1, <1>5, Zenon DEF wait, has
  <1> QED BY <1>3, <1>6, Zenon DEF CountInv

LEMMA CountPublish ==
  ASSUME FramesAssumption, FramesTypeOK, WholeInv, CountInv, NEW p \in FramePackets, DataCallback(p), PublishPacket(p)
  PROVE  CountInv'
  <1>1. received # <<>> /\ published' = published
    BY DEF PublishPacket, WholeInv, outVars
  <1> DEFINE had   == Cardinality(FramesOf(received))
             has   == Cardinality(FramesOf(received'))
             wait  == Cardinality(Lasts(topic))
             waits == Cardinality(Lasts(topic'))
  <1>2. topic \in Seq(Scans) /\ published \in Nat /\ Len(topic) <= Depth /\ Depth \in Nat \ {0}
    BY DEF FramesTypeOK, FramesAssumption
  <1>3. /\ had \in Nat /\ wait \in Nat /\ published \in Nat /\ received' # <<>>
        /\ has = IF current_frame_id = p.frame THEN had ELSE had + 1
    BY <1>1, <1>2, FramesAfter, LastsFinite, Zenon
  <1> SUFFICES ASSUME ~lost' PROVE published' + waits + 1 = has
    BY <1>3, Zenon DEF CountInv
  <1>4. published + wait + 1 = had
    <2>1. ~lost
      BY AppendSent, Zenon
    <2> QED BY <1>1, <2>1, Zenon DEF CountInv
  <1>5. waits = IF current_frame_id = p.frame THEN wait ELSE wait + 1
    <2>1. CASE SendsScan(p)
      <3> DEFINE s == SentScan(p)
      <3>1. s \in Scans /\ (s.last <=> current_frame_id # p.frame)
        BY SentFields, SentIsScan, Zenon DEF IsNextFrame
      <3>2. topic' = KeepLast(Append(topic, s)) /\ Len(topic) # Depth
        BY <2>1, AppendSent, Zenon
      <3> HIDE DEF s
      <3>3. topic' = Append(topic, s)
        BY <1>2, <3>1, <3>2, Keeping
      <3>4. Cardinality(Lasts(Append(topic, s))) = IF s.last THEN wait + 1 ELSE wait
        BY <1>2, <3>1, LastsGrow
      <3> QED BY <3>1, <3>3, <3>4, Zenon
    <2>2. CASE ~SendsScan(p)
      <3>1. current_frame_id = p.frame
        BY <2>2, Zenon DEF SendsScan, IsNextFrame
      <3>2. topic' = topic
        BY <2>2, AppendSent, Zenon
      <3> QED BY <3>1, <3>2, Zenon
    <2> QED BY <2>1, <2>2
  <1> HIDE DEF had, has, wait, waits
  <1> QED BY <1>1, <1>3, <1>4, <1>5

LEMMA CountSubscribe ==
  ASSUME FramesTypeOK, WholeInv, CountInv, SubscribePacket
  PROVE  CountInv'
  <1> DEFINE had   == Cardinality(FramesOf(received))
             wait  == Cardinality(Lasts(topic))
             waits == Cardinality(Lasts(topic'))
  <1>1. topic # <<>> /\ topic' = Tail(topic) /\ lost' = lost /\ received' = received
    BY DEF SubscribePacket
  <1>2. received # <<>> /\ topic \in Seq(Scans) /\ published \in Nat
    BY <1>1, Zenon DEF WholeInv, FramesTypeOK
  <1>3. published' = IF topic[1].last THEN published + 1 ELSE published
    <2>1. Head(topic) = topic[1]
      BY <1>1, <1>2, HeadTailProperties
    <2>2. published' = IF Head(topic).last THEN published + 1 ELSE published
      BY DEF SubscribePacket, Publish
    <2> QED BY <2>1, <2>2, Zenon
  <1>4. waits = (IF topic[1].last THEN wait - 1 ELSE wait) /\ wait \in Nat
    BY <1>1, <1>2, LastsShrink, LastsFinite, Zenon
  <1>5. ~lost' => published + wait + 1 = had
    BY <1>1, <1>2, Zenon DEF CountInv
  <1> HIDE DEF had, wait, waits
  <1>6. ~lost' => published' + waits + 1 = had
    BY <1>2, <1>3, <1>4, <1>5
  <1>7. ~lost' => published' + Cardinality(Lasts(topic')) + 1 = Cardinality(FramesOf(received'))
    BY <1>1, <1>6, Zenon DEF had, waits
  <1> QED BY <1>1, <1>2, <1>7, Zenon DEF CountInv

LEMMA CountStep ==
  ASSUME FramesAssumption, FramesTypeOK, WholeInv, CountInv, [FramesNext]_framesVars
  PROVE  CountInv'
  <1>1. ASSUME NEW p \in FramePackets, DataCallback(p) PROVE CountInv'
    <2>1. FirstPacket(p) \/ CollectPacket(p) \/ PublishPacket(p)
      BY <1>1 DEF DataCallback
    <2> QED BY <1>1, <2>1, CountFirst, CountCollect, CountPublish
  <1>2. CASE SubscribePacket
    BY <1>2, CountSubscribe
  <1>3. CASE UNCHANGED framesVars
    <2>1. received' = received /\ topic' = topic /\ published' = published /\ lost' = lost
      BY <1>3 DEF framesVars, adapterVars, outVars
    <2> QED BY <2>1, Zenon DEF CountInv
  <1> QED BY <1>1, <1>2, <1>3 DEF FramesNext

(* Every frame that is followed by another comes out once, as long as the  *)
(* topic loses no scan: published or waiting, for any number of frames,    *)
(* aggregate_num and depth.                                                *)
THEOREM EveryFrameComesOut ==
  ASSUME FramesAssumption
  PROVE  FramesSpec => []NoFrameIsForgotten
  <1>1. FramesInit => WholeInv /\ CountInv
    <2> SUFFICES ASSUME FramesInit PROVE WholeInv /\ CountInv
      OBVIOUS
    <2>1. received = <<>> /\ topic = <<>> /\ cloud = <<>> /\ scan = <<>> /\ frame = NoFrame
          /\ current_frame_id = -1 /\ published = 0
      BY DEF FramesInit
    <2>2. Ordered(received)
      BY <2>1 DEF Ordered
    <2> QED BY <2>1, <2>2, Zenon DEF WholeInv, CountInv
  <1>2. FramesTypeOK /\ WholeInv /\ CountInv => NoFrameIsForgotten
    <2> SUFFICES ASSUME FramesTypeOK, WholeInv, CountInv, ~lost
                 PROVE  published + Cardinality(Lasts(topic)) =
                          IF FramesOf(received) = {} THEN 0 ELSE Cardinality(FramesOf(received)) - 1
      BY Zenon DEF NoFrameIsForgotten, Lasts, FramesOf
    <2>1. /\ topic \in Seq(Scans) /\ published \in Nat /\ received \in Seq(FramePackets)
          /\ Cardinality(Lasts(topic)) \in Nat
      <3>1. topic \in Seq(Scans) /\ published \in Nat /\ received \in Seq(FramePackets)
        BY DEF FramesTypeOK
      <3> QED BY <3>1, LastsFinite, Zenon
    <2>2. CASE received = <<>>
      <3>1. topic = <<>> /\ published = 0
        BY <2>2, Zenon DEF WholeInv, CountInv
      <3>2. Lasts(<<>>) = {} /\ FramesOf(<<>>) = {}
        BY DEF Lasts, FramesOf
      <3>3. Cardinality(Lasts(topic)) = 0
        BY <3>1, <3>2, FS_EmptySet, Zenon
      <3>4. FramesOf(received) = {}
        BY <2>2, <3>2, Zenon
      <3> QED BY <3>1, <3>3, <3>4
    <2>3. CASE received # <<>>
      <3>1. published + Cardinality(Lasts(topic)) + 1 = Cardinality(FramesOf(received))
        BY <2>3, Zenon DEF CountInv
      <3>2. FramesOf(received) # {}
        <4>1. 1 \in DOMAIN received
          <5>1. Len(received) \in Nat \ {0} /\ DOMAIN received = 1..Len(received)
            BY <2>1, <2>3, EmptySeq, LenProperties
          <5> QED BY <5>1
        <4> QED BY <4>1, Zenon DEF FramesOf
      <3> DEFINE a == Cardinality(Lasts(topic))
                 b == Cardinality(FramesOf(received))
      <3>3. published + a + 1 = b /\ a \in Nat /\ published \in Nat
        BY <2>1, <3>1, Zenon
      <3> HIDE DEF a, b
      <3>4. published + a = b - 1
        BY <3>3
      <3> QED BY <3>2, <3>4, Zenon DEF a, b
    <2> QED BY <2>2, <2>3
  <1> QED BY <1>1, <1>2, FramesTypes, WholeStep, CountStep, PTL DEF FramesSpec

(* The three together: what comes out of the driver are whole frames, all  *)
(* of them, in scans whose sizes add up.                                   *)
THEOREM FramesAreSound ==
  ASSUME FramesAssumption
  PROVE  FramesSpec => []FramesComeOut
  <1>1. FramesAreWhole /\ NoFrameIsForgotten /\ ScanSizesAddUp => FramesComeOut
    BY Zenon DEF FramesComeOut
  <1> QED BY <1>1, FramesComeWhole, EveryFrameComesOut, SizesAddUp, PTL

-----------------------------------------------------------------------------
(* What the node makes of packets and parameters (DriverNode).             *)
Transforms == [rotation : [Axes -> Int], translation : Int]
Parameters == [declared : BOOLEAN, x : Int, angle : [Axes -> Int]]

NodeTypeOK ==
  /\ config \in Configurations
  /\ x_ \in Int /\ angle_ \in [Axes -> Int] /\ transform_degree_flag_ \in BOOLEAN
  /\ T_2_0_ \in Transforms /\ parameters \in Parameters /\ changes \in Parameters
  /\ executor \in {"new", "idle", "rotation", "translation", "ended"} /\ parameter_sets \in Nat

(* What a matrix and the parameters of the configuration are.              *)
Turned(angle) == [a \in Axes |-> Folded(angle[a])]
InitialDegrees == [a \in Axes |-> RadianToDegree(config.angle[a])]

(* Until a parameter is set, all of it is the configuration's.             *)
AsConfigured ==
  /\ executor = "new" => parameter_sets = 0 /\ ~parameters.declared
  /\ ~parameters.declared => parameter_sets = 0
  /\ parameters.declared => ~config.matrix
  /\ parameter_sets = 0 =>
       /\ x_ = 0 /\ angle_ = config.angle /\ T_2_0_ = Configured(config)
       /\ executor \in {"new", "idle", "ended"}
       /\ parameters.declared => parameters.x = 0 /\ parameters.angle = InitialDegrees

(* From then on the angles are degrees, those of the driver and those of   *)
(* the node the same if they were degrees before; the matrix has them in   *)
(* two steps.                                                              *)
AsSet ==
  parameter_sets > 0 =>
    /\ transform_degree_flag_
    /\ executor = "idle" => T_2_0_.translation = parameters.x
    /\ executor \in {"rotation", "translation"} => changes.declared /\ changes.x = x_
    /\ AllDegrees =>
         /\ executor = "idle" => /\ parameters.angle = angle_
                                 /\ T_2_0_.rotation = Turned(angle_)
         /\ executor \in {"rotation", "translation"} => changes.angle = angle_
         /\ executor = "translation" => T_2_0_.rotation = Turned(angle_)

(* What comes out is what the conditions of the properties need.           *)
CloudIsShown ==
  node_output.kind = "cloud" /\ InPacketMode(config)
    /\ (AllDegrees \/ (AllRadians /\ parameter_sets = 0)) => node_output.matrix = node_output.due
PointsAreKept ==
  node_output.kind = "points" =>
    /\ node_output.packet \subseteq Points
    /\ node_output.kept = [p \in {q \in node_output.packet : InRange(q)} |-> Flags(p)]

NodeInv == NodeTypeOK /\ AsConfigured /\ AsSet /\ CloudIsShown /\ ImuFollowsPoints /\ PointsAreKept

(* A folded angle is within half a turn, and folding it again leaves it.   *)
LEMMA FoldedTwice ==
  ASSUME NodeAssumption, NEW d \in Int
  PROVE  Folded(d) \in Int /\ Folded(Folded(d)) = Folded(d)
  <1> DEFINE F == FullTurn  H == HalfTurn  r == d % F
  <1>1. F \in Nat /\ F > 0 /\ H \in Nat /\ 2 * H = F
    <2>1. F \in Nat /\ F % 2 = 0
      BY DEF NodeAssumption, FullTurn
    <2>2. H = F \div 2
      BY DEF HalfTurn
    <2>3. TwoPi \in Nat /\ TwoPi > 0 /\ TwoPi < H
      BY DEF NodeAssumption
    <2> HIDE DEF F, H
    <2> QED BY <2>1, <2>2, <2>3
  <1>2. r \in 0 .. (F - 1)
    <2> HIDE DEF F
    <2> QED BY <1>1
  <1>3. Folded(d) = IF r > H THEN r - F ELSE r
    BY DEF Folded
  <1>4. \A e \in Int : Folded(e) = IF e % F > H THEN (e % F) - F ELSE e % F
    BY DEF Folded
  <1> HIDE DEF F, H, r
  <1>5. CASE r > H
    <2>1. Folded(d) = r - F
      BY <1>3, <1>5
    <2>2. (r - F) % F = r
      BY <1>1, <1>2
    <2> QED BY <2>1, <2>2, <1>1, <1>2, <1>4, <1>5
  <1>6. CASE ~(r > H)
    <2>1. Folded(d) = r
      BY <1>3, <1>6
    <2>2. r % F = r
      BY <1>1, <1>2
    <2> QED BY <2>1, <2>2, <1>1, <1>2, <1>4, <1>6
  <1> QED BY <1>5, <1>6

(* Nought is folded to nought.                                             *)
LEMMA FoldedNought == ASSUME NodeAssumption PROVE Folded(0) = 0
  <1> DEFINE F == FullTurn  H == HalfTurn
  <1>1. F \in Nat /\ F > 0 /\ H \in Nat
    BY DEF NodeAssumption, FullTurn, HalfTurn
  <1>2. Folded(0) = IF 0 % F > H THEN (0 % F) - F ELSE 0 % F
    BY DEF Folded
  <1> HIDE DEF F, H
  <1>3. 0 % F = 0
    BY <1>1
  <1> QED BY <1>1, <1>2, <1>3

(* The angles of a configuration are numbers.                              *)
LEMMA ConfiguredAngles ==
  ASSUME NodeAssumption, config \in Configurations
  PROVE  config.angle \in [Axes -> Int] /\ \A a \in Axes : config.angle[a] >= 0
  <1>1. config.angle \in [Axes -> Angles]
    BY DEF Configurations
  <1>2. \A a \in Axes : config.angle[a] \in Angles
    BY <1>1
  <1>3. \A v \in Angles : v \in Int /\ v >= 0
    BY DEF NodeAssumption
  <1>4. \A a \in Axes : config.angle[a] \in Int /\ config.angle[a] >= 0
    BY <1>2, <1>3
  <1> HIDE DEF Axes
  <1> QED BY <1>1, <1>4

(* The matrix of the configuration is that of its parameters, in degrees:  *)
(* if all angles are degrees these are the angles themselves.              *)
LEMMA ConfiguredIsShown ==
  ASSUME NodeAssumption, NEW angle \in [Axes -> Int], \A a \in Axes : angle[a] >= 0,
         \/ \A a \in Axes : angle[a] = 0 \/ angle[a] > TwoPi
         \/ \A a \in Axes : angle[a] <= TwoPi
  PROVE  Rotation(angle, FALSE) = Turned([a \in Axes |-> RadianToDegree(angle[a])])
  <1> DEFINE D == InDegrees(angle, FALSE)
  <1>1. TwoPi \in Nat /\ TwoPi > 0 /\ PerRadian \in Nat
    BY DEF NodeAssumption
  <1>2. ASSUME NEW a \in Axes
        PROVE  Folded(IF D THEN angle[a] ELSE angle[a] * PerRadian) = Folded(RadianToDegree(angle[a]))
    <2>1. angle[a] \in Int /\ angle[a] * PerRadian \in Int
      BY <1>1
    <2>2. CASE angle[a] > TwoPi
      <3>1. D /\ RadianToDegree(angle[a]) = angle[a]
        BY <2>2 DEF InDegrees, RadianToDegree
      <3> QED BY <3>1
    <2>3. CASE ~(angle[a] > TwoPi) /\ D
      <3>1. angle[a] = 0
        BY <2>3, <1>1 DEF InDegrees
      <3>2. angle[a] * PerRadian = 0
        BY <3>1, <1>1
      <3>3. RadianToDegree(angle[a]) = Folded(0)
        BY <2>3, <3>2 DEF RadianToDegree
      <3> QED BY <2>3, <3>1, <3>3, FoldedNought
    <2>4. CASE ~(angle[a] > TwoPi) /\ ~D
      <3>1. RadianToDegree(angle[a]) = Folded(angle[a] * PerRadian)
        BY <2>4 DEF RadianToDegree
      <3> QED BY <2>1, <2>4, <3>1, FoldedTwice
    <2> QED BY <2>2, <2>3, <2>4
  <1> QED BY <1>2 DEF Rotation, Turned

(* Angles of degrees are parameters as they are.                           *)
LEMMA DegreesStay ==
  ASSUME NodeAssumption, NodeTypeOK, AllDegrees
  PROVE  InitialDegrees = config.angle
  <1>1. config.angle \in [Axes -> Angles] /\ TwoPi \in Nat /\ TwoPi > 0 /\ PerRadian \in Nat
    BY DEF NodeTypeOK, Configurations, NodeAssumption
  <1>2. ASSUME NEW a \in Axes PROVE RadianToDegree(config.angle[a]) = config.angle[a]
    <2>1. CASE config.angle[a] > TwoPi
      BY <2>1 DEF RadianToDegree
    <2>2. CASE config.angle[a] = 0
      <3>1. 0 * PerRadian = 0
        BY <1>1
      <3> QED BY <2>2, <3>1, <1>1, FoldedNought DEF RadianToDegree
    <2> QED BY <2>1, <2>2 DEF AllDegrees
  <1> QED BY <1>1, <1>2 DEF InitialDegrees

(* Whenever the executor is idle the matrix is the one the node shows.     *)
LEMMA IdleIsShown ==
  ASSUME NodeAssumption, NodeTypeOK, AsConfigured, AsSet, executor = "idle",
         AllDegrees \/ (AllRadians /\ parameter_sets = 0)
  PROVE  T_2_0_ = Shown
  <1>1. CASE ~parameters.declared
    BY <1>1 DEF AsConfigured, Shown
  <1>2. CASE parameters.declared /\ parameter_sets = 0
    <2>1. /\ T_2_0_ = Configured(config) /\ ~config.matrix
          /\ parameters.x = 0 /\ parameters.angle = InitialDegrees
      BY <1>2 DEF AsConfigured
    <2>2. T_2_0_ = [rotation |-> Rotation(config.angle, FALSE), translation |-> 0]
      BY <2>1 DEF Configured
    <2>3. config.angle \in [Axes -> Int] /\ \A a \in Axes : config.angle[a] >= 0
      BY ConfiguredAngles DEF NodeTypeOK
    <2>4. \/ \A a \in Axes : config.angle[a] = 0 \/ config.angle[a] > TwoPi
          \/ \A a \in Axes : config.angle[a] <= TwoPi
      BY DEF AllDegrees, AllRadians
    <2>5. Rotation(config.angle, FALSE) = Turned(InitialDegrees)
      BY <2>3, <2>4, ConfiguredIsShown DEF InitialDegrees
    <2>6. Shown = [rotation |-> Turned(InitialDegrees), translation |-> 0]
      BY <1>2, <2>1 DEF Shown, Turned
    <2> QED BY <2>2, <2>5, <2>6
  <1>3. CASE parameters.declared /\ parameter_sets # 0
    <2>1. parameter_sets > 0 /\ AllDegrees
      BY <1>3 DEF NodeTypeOK
    <2>2. /\ T_2_0_.translation = parameters.x /\ parameters.angle = angle_
          /\ T_2_0_.rotation = Turned(angle_)
      BY <2>1 DEF AsSet
    <2>3. T_2_0_ = [rotation |-> T_2_0_.rotation, translation |-> T_2_0_.translation]
      BY DEF NodeTypeOK, Transforms
    <2>4. Shown = [rotation |-> Turned(parameters.angle), translation |-> parameters.x]
      BY <1>3 DEF Shown, Turned
    <2> QED BY <2>2, <2>3, <2>4
  <1> QED BY <1>1, <1>2, <1>3

(* The axes of an IMU message are assigned in place and still come out     *)
(* like those of a point.                                                  *)
LEMMA ImuAxes ==
  ASSUME NEW mode \in CoordinateModes
  PROVE  CoordinateImu(mode, <<1, 2, 3>>) = CoordinateTransfer(mode, <<1, 2, 3>>)
  <1> DEFINE d == <<1, 2, 3>>
  <1>1. mode \in {0, 1, 2, 3, 4, 5}
    BY DEF CoordinateModes
  <1>2. ASSUME NEW p, NEW q, NEW r, NEW v
        PROVE  /\ Assign(<<p, q, r>>, 1, v) = <<v, q, r>>
               /\ Assign(<<p, q, r>>, 2, v) = <<p, v, r>>
               /\ Assign(<<p, q, r>>, 3, v) = <<p, q, v>>
    BY DEF Assign
  <1>3. d[1] = 1 /\ d[2] = 2 /\ d[3] = 3
    OBVIOUS
  <1>4. CASE mode = 1
    BY <1>2, <1>3, <1>4 DEF CoordinateImu, CoordinateTransfer
  <1>5. CASE mode = 2
    BY <1>2, <1>3, <1>5 DEF CoordinateImu, CoordinateTransfer
  <1>6. CASE mode = 3
    BY <1>2, <1>3, <1>6 DEF CoordinateImu, CoordinateTransfer
  <1>7. CASE mode = 4
    BY <1>2, <1>3, <1>7 DEF CoordinateImu, CoordinateTransfer
  <1>8. CASE mode \in {0, 5}
    BY <1>8 DEF CoordinateImu, CoordinateTransfer
  <1> QED BY <1>1, <1>4, <1>5, <1>6, <1>7, <1>8

(* The byte of a point has its three parts in different bits.              *)
LEMMA FlagsDiffer ==
  ASSUME NEW p \in Points, NEW q \in Points, Flags(p) = Flags(q)
  PROVE  p.channel = q.channel /\ p.in_roi = q.in_roi /\ p.facet = q.facet
  <1> DEFINE Low(s) == IF s.in_roi = 3 THEN 4 ELSE 0
  <1>1. \A s \in Points : s.channel \in {0, 3} /\ s.in_roi \in {0, 3} /\ s.facet \in {0, 4}
    BY DEF Points
  <1>2. \A s \in Points : Flags(s) = s.channel + Low(s) + s.facet * 8
    BY DEF Flags
  <1>3. \A s \in Points : Low(s) \in {0, 4} /\ (Low(s) = 4 <=> s.in_roi = 3)
    OBVIOUS
  <1> HIDE DEF Low
  <1> QED BY <1>1, <1>2, <1>3

LEMMA KeptTellApart == PointsAreKept => FlagsTellApart
  <1> SUFFICES ASSUME PointsAreKept, node_output.kind = "points", NEW p \in node_output.packet
               PROVE  InRange(p) <=>
                        /\ p \in DOMAIN node_output.kept
                        /\ \A q \in DOMAIN node_output.kept :
                             node_output.kept[p] = node_output.kept[q] =>
                               p.channel = q.channel /\ p.in_roi = q.in_roi /\ p.facet = q.facet
    BY DEF FlagsTellApart
  <1>1. /\ node_output.packet \subseteq Points
        /\ node_output.kept = [s \in {q \in node_output.packet : InRange(q)} |-> Flags(s)]
    BY DEF PointsAreKept
  <1>2. /\ DOMAIN node_output.kept = {q \in node_output.packet : InRange(q)}
        /\ \A s \in DOMAIN node_output.kept : node_output.kept[s] = Flags(s) /\ s \in Points
    BY <1>1
  <1>3. p \in DOMAIN node_output.kept <=> InRange(p)
    BY <1>2
  <1>4. ASSUME p \in DOMAIN node_output.kept, NEW q \in DOMAIN node_output.kept,
               node_output.kept[p] = node_output.kept[q]
        PROVE  p.channel = q.channel /\ p.in_roi = q.in_roi /\ p.facet = q.facet
    BY <1>2, <1>4, FlagsDiffer
  <1> QED BY <1>3, <1>4

LEMMA NodeInvInit == ASSUME NodeAssumption, NodeInit PROVE NodeInv
  <1>1. config \in Configurations
    BY DEF NodeInit
  <1>2. config.angle \in [Axes -> Int]
    BY <1>1, ConfiguredAngles
  <1>3. Configured(config) \in Transforms
    <2>1. \A a \in Axes : /\ config.angle[a] \in Int
                          /\ config.angle[a] * PerRadian \in Int
      BY <1>2 DEF NodeAssumption
    <2>2. \A e \in Int : Folded(e) \in Int
      BY FoldedTwice
    <2>3. Rotation(config.angle, FALSE) \in [Axes -> Int]
      <3> DEFINE D == InDegrees(config.angle, FALSE)
                 turned(a) == IF D THEN config.angle[a] ELSE config.angle[a] * PerRadian
      <3>1. \A a \in Axes : turned(a) \in Int
        BY <2>1
      <3>2. Rotation(config.angle, FALSE) = [a \in Axes |-> Folded(turned(a))]
        BY DEF Rotation
      <3> HIDE DEF turned
      <3> QED BY <2>2, <3>1, <3>2
    <2>4. SpeltOut \in Transforms
      BY DEF SpeltOut, Transforms
    <2>5. [rotation |-> Rotation(config.angle, FALSE), translation |-> 0] \in Transforms
      <3>1. ASSUME NEW turn \in [Axes -> Int]
            PROVE  [rotation |-> turn, translation |-> 0] \in Transforms
        BY DEF Transforms
      <3> QED BY <2>3, <3>1, Zenon
    <2> QED BY <2>4, <2>5 DEF Configured
  <1>4. NodeTypeOK
    <2>1. Undeclared \in Parameters
      BY DEF Undeclared, Parameters
    <2>2. /\ x_ = 0 /\ angle_ = config.angle /\ transform_degree_flag_ = FALSE
          /\ T_2_0_ = Configured(config) /\ parameters = Undeclared /\ executor = "new"
          /\ changes = Undeclared /\ parameter_sets = 0
      BY DEF NodeInit
    <2>3. x_ \in Int /\ parameter_sets \in Nat /\ transform_degree_flag_ \in BOOLEAN
      <3>1. 0 \in Int /\ 0 \in Nat
        OBVIOUS
      <3> QED BY <2>2, <3>1, Zenon
    <2>4. angle_ \in [Axes -> Int] /\ T_2_0_ \in Transforms
      BY <1>2, <1>3, <2>2, Zenon
    <2>5. parameters \in Parameters /\ changes \in Parameters
      BY <2>1, <2>2, Zenon
    <2>6. executor \in {"new", "idle", "rotation", "translation", "ended"}
      BY <2>2
    <2> QED BY <1>1, <2>3, <2>4, <2>5, <2>6, Zenon DEF NodeTypeOK
  <1>5. AsConfigured /\ AsSet
    BY DEF NodeInit, AsConfigured, AsSet, Undeclared
  <1>6. CloudIsShown /\ ImuFollowsPoints /\ PointsAreKept
    BY DEF NodeInit, CloudIsShown, ImuFollowsPoints, PointsAreKept
  <1> QED BY <1>4, <1>5, <1>6 DEF NodeInv

(* What a step that sends nothing leaves of what came out.                 *)
LEMMA NothingNewOut ==
  ASSUME CloudIsShown, ImuFollowsPoints, PointsAreKept, NodeTypeOK,
         UNCHANGED <<config, node_output>>, parameter_sets' = parameter_sets \/ parameter_sets' > 0
  PROVE  CloudIsShown' /\ ImuFollowsPoints' /\ PointsAreKept'
  <1>1. /\ InPacketMode(config)' = InPacketMode(config) /\ AllDegrees' = AllDegrees
        /\ AllRadians' = AllRadians
    BY DEF InPacketMode, AllDegrees, AllRadians
  <1>2. parameter_sets' = 0 => parameter_sets = 0
    OBVIOUS
  <1>3. CloudIsShown'
    BY <1>1, <1>2 DEF CloudIsShown
  <1>4. ImuFollowsPoints'
    BY DEF ImuFollowsPoints
  <1>5. PointsAreKept'
    BY DEF PointsAreKept, InRange
  <1> QED BY <1>3, <1>4, <1>5

LEMMA InitDynamicParamsKeeps ==
  ASSUME NodeAssumption, NodeInv, InitDynamicParams PROVE NodeInv'
  <1> DEFINE degrees == [a \in Axes |-> RadianToDegree(config.angle[a])]
  <1>1. /\ executor = "new" /\ parameter_sets = 0 /\ ~parameters.declared
        /\ x_ = 0 /\ angle_ = config.angle /\ T_2_0_ = Configured(config)
    BY DEF InitDynamicParams, NodeInv, AsConfigured
  <1>2. degrees \in [Axes -> Int]
    <2>1. \A a \in Axes : config.angle[a] \in Int /\ config.angle[a] * PerRadian \in Int
      BY ConfiguredAngles DEF NodeInv, NodeTypeOK, NodeAssumption
    <2>2. \A e \in Int : Folded(e) \in Int
      BY FoldedTwice
    <2> QED BY <2>1, <2>2 DEF RadianToDegree
  <1>3. \/ executor' \in {"idle", "ended"} /\ UNCHANGED parameters
        \/ /\ executor' = "idle" /\ ~config.matrix
           /\ parameters' = [declared |-> TRUE, x |-> x_, angle |-> degrees]
    BY DEF InitDynamicParams
  <1>4. UNCHANGED <<config, x_, angle_, transform_degree_flag_, T_2_0_, changes, parameter_sets,
                    node_output>>
    BY DEF InitDynamicParams
  <1>5. NodeTypeOK'
    <2>1. NodeTypeOK
      BY DEF NodeInv
    <2>2. [declared |-> TRUE, x |-> x_, angle |-> degrees] \in Parameters
      BY <1>2, <2>1 DEF NodeTypeOK, Parameters
    <2>3. parameters' \in Parameters
      BY <1>3, <2>1, <2>2 DEF NodeTypeOK
    <2> HIDE DEF degrees
    <2> QED BY <1>3, <1>4, <2>1, <2>3 DEF NodeTypeOK, Configurations
  <1>6. AsConfigured'
    <2>1. Configured(config)' = Configured(config) /\ InitialDegrees' = degrees
      BY <1>4 DEF InitialDegrees
    <2> QED BY <1>1, <1>3, <1>4, <2>1 DEF AsConfigured
  <1>7. AsSet'
    BY <1>1, <1>4 DEF AsSet
  <1>8. CloudIsShown' /\ ImuFollowsPoints' /\ PointsAreKept'
    BY <1>4, NothingNewOut DEF NodeInv
  <1> QED BY <1>5, <1>6, <1>7, <1>8 DEF NodeInv

LEMMA SetParametersKeeps ==
  ASSUME NodeAssumption, NodeInv, NEW names \in SUBSET Axes, NEW value \in Angles,
         NEW x \in {parameters.x, parameters.x + 1}, SetParameters(names, x, value)
  PROVE  NodeInv'
  <1>1. /\ executor = "idle" /\ parameters.declared /\ parameter_sets' = parameter_sets + 1
        /\ changes' = [parameters EXCEPT !.x = x,
                         !.angle = [a \in Axes |-> IF a \in names THEN value ELSE @[a]]]
        /\ x_' = x /\ angle_' = [a \in Axes |-> IF a \in names THEN value ELSE angle_[a]]
        /\ transform_degree_flag_' = TRUE /\ executor' = "rotation"
        /\ UNCHANGED <<config, T_2_0_, parameters, node_output>>
    BY DEF SetParameters
  <1>2. /\ parameters \in Parameters /\ parameters.angle \in [Axes -> Int]
        /\ parameters.x \in Int /\ angle_ \in [Axes -> Int] /\ parameter_sets \in Nat
        /\ value \in Int /\ x \in Int
    BY DEF NodeInv, NodeTypeOK, Parameters, NodeAssumption
  <1>3. /\ changes' \in Parameters /\ changes'.declared /\ changes'.x = x
        /\ changes'.angle = [a \in Axes |-> IF a \in names THEN value ELSE parameters.angle[a]]
    <2>1. changes' = [declared |-> parameters.declared, x |-> x,
                      angle |-> [a \in Axes |-> IF a \in names THEN value ELSE parameters.angle[a]]]
      BY <1>1, <1>2 DEF Parameters
    <2>2. [a \in Axes |-> IF a \in names THEN value ELSE parameters.angle[a]] \in [Axes -> Int]
      BY <1>2
    <2>3. ASSUME NEW angle \in [Axes -> Int]
          PROVE  /\ [declared |-> parameters.declared, x |-> x, angle |-> angle] \in Parameters
                 /\ [declared |-> parameters.declared, x |-> x, angle |-> angle].declared
                 /\ [declared |-> parameters.declared, x |-> x, angle |-> angle].x = x
                 /\ [declared |-> parameters.declared, x |-> x, angle |-> angle].angle = angle
      BY <1>1, <1>2 DEF Parameters
    <2> QED BY <2>1, <2>2, <2>3, Zenon
  <1>4. parameter_sets' > 0 /\ parameter_sets' \in Nat
    BY <1>1, <1>2
  <1>5. NodeTypeOK'
    BY <1>1, <1>2, <1>3, <1>4 DEF NodeInv, NodeTypeOK, Configurations
  <1>6. AsConfigured'
    BY <1>1, <1>4 DEF NodeInv, AsConfigured
  <1>7. AllDegrees => parameters.angle = angle_
    BY <1>1, <1>2, DegreesStay DEF NodeInv, AsConfigured, AsSet
  <1>8. AllDegrees' = AllDegrees
    BY <1>1 DEF AllDegrees
  <1>9. AsSet'
    BY <1>1, <1>3, <1>7, <1>8 DEF AsSet
  <1>10. CloudIsShown' /\ ImuFollowsPoints' /\ PointsAreKept'
    BY <1>1, <1>4, NothingNewOut DEF NodeInv
  <1> QED BY <1>5, <1>6, <1>9, <1>10 DEF NodeInv

LEMMA SetRotationKeeps ==
  ASSUME NodeAssumption, NodeInv, SetRotation PROVE NodeInv'
  <1>1. /\ executor = "rotation" /\ executor' = "translation"
        /\ T_2_0_' = [T_2_0_ EXCEPT !.rotation = Rotation(angle_, transform_degree_flag_)]
        /\ UNCHANGED <<config, x_, angle_, transform_degree_flag_, parameters, changes,
                       parameter_sets, node_output>>
    BY DEF SetRotation
  <1>2. /\ T_2_0_ \in Transforms /\ angle_ \in [Axes -> Int] /\ parameter_sets > 0
        /\ parameters.declared /\ transform_degree_flag_
    BY <1>1 DEF NodeInv, NodeTypeOK, AsConfigured, AsSet
  <1>3. Rotation(angle_, transform_degree_flag_) = Turned(angle_)
    BY <1>2 DEF Rotation, InDegrees, Turned
  <1>4. Turned(angle_) \in [Axes -> Int]
    BY <1>2, FoldedTwice DEF Turned
  <1>5. T_2_0_' \in Transforms /\ T_2_0_'.rotation = Turned(angle_)
    BY <1>1, <1>2, <1>3, <1>4 DEF Transforms
  <1>6. NodeTypeOK'
    BY <1>1, <1>5 DEF NodeInv, NodeTypeOK, Configurations
  <1>7. AsConfigured'
    BY <1>1, <1>2 DEF NodeInv, AsConfigured
  <1>8. AllDegrees' = AllDegrees /\ Turned(angle_)' = Turned(angle_)
    BY <1>1 DEF AllDegrees, Turned
  <1>9. AsSet'
    BY <1>1, <1>2, <1>5, <1>8 DEF NodeInv, AsSet
  <1>10. CloudIsShown' /\ ImuFollowsPoints' /\ PointsAreKept'
    BY <1>1, NothingNewOut DEF NodeInv
  <1> QED BY <1>6, <1>7, <1>9, <1>10 DEF NodeInv

LEMMA SetTranslationKeeps ==
  ASSUME NodeAssumption, NodeInv, SetTranslation PROVE NodeInv'
  <1>1. /\ executor = "translation" /\ executor' = "idle"
        /\ T_2_0_' = [T_2_0_ EXCEPT !.translation = x_] /\ parameters' = changes
        /\ UNCHANGED <<config, x_, angle_, transform_degree_flag_, changes, parameter_sets,
                       node_output>>
    BY DEF SetTranslation
  <1>2. /\ T_2_0_ \in Transforms /\ x_ \in Int /\ parameter_sets > 0
        /\ changes.declared /\ changes.x = x_ /\ parameters.declared /\ ~config.matrix
    BY <1>1 DEF NodeInv, NodeTypeOK, AsConfigured, AsSet
  <1>3. /\ T_2_0_' \in Transforms /\ T_2_0_'.rotation = T_2_0_.rotation
        /\ T_2_0_'.translation = x_
    BY <1>1, <1>2 DEF Transforms
  <1>4. NodeTypeOK'
    BY <1>1, <1>3 DEF NodeInv, NodeTypeOK, Configurations
  <1>5. AsConfigured'
    BY <1>1, <1>2 DEF NodeInv, AsConfigured
  <1>6. AllDegrees' = AllDegrees /\ Turned(angle_)' = Turned(angle_)
    BY <1>1 DEF AllDegrees, Turned
  <1>7. AsSet'
    BY <1>1, <1>2, <1>3, <1>6 DEF NodeInv, AsSet
  <1>8. CloudIsShown' /\ ImuFollowsPoints' /\ PointsAreKept'
    BY <1>1, NothingNewOut DEF NodeInv
  <1> QED BY <1>4, <1>5, <1>7, <1>8 DEF NodeInv

(* A step that sends something leaves the rest as it is.                   *)
LEMMA OthersStay ==
  ASSUME NodeTypeOK, AsConfigured, AsSet,
         UNCHANGED <<config, x_, angle_, transform_degree_flag_, T_2_0_, parameters, executor,
                     changes, parameter_sets>>
  PROVE  NodeTypeOK' /\ AsConfigured' /\ AsSet'
  <1>1. NodeTypeOK'
    BY DEF NodeTypeOK, Configurations
  <1>2. AsConfigured'
    BY DEF AsConfigured, InitialDegrees
  <1>3. AllDegrees' = AllDegrees /\ Turned(angle_)' = Turned(angle_)
    BY DEF AllDegrees, Turned
  <1>4. AsSet'
    BY <1>3 DEF AsSet
  <1> QED BY <1>1, <1>2, <1>4

LEMMA SendingKeeps ==
  ASSUME NodeAssumption, NodeInv,
         \/ TransformPointcloud
         \/ \E mode \in CoordinateModes : StatusCallback(mode)
         \/ \E packet \in {Points, {}} : DataPacketParse(packet)
  PROVE  NodeInv'
  <1>1. UNCHANGED <<config, x_, angle_, transform_degree_flag_, T_2_0_, parameters, executor,
                    changes, parameter_sets>>
    <2>1. TransformPointcloud => UNCHANGED <<config, x_, angle_, transform_degree_flag_, T_2_0_,
                                   parameters, executor, changes, parameter_sets>>
      BY DEF TransformPointcloud
    <2>2. ASSUME NEW mode, StatusCallback(mode)
          PROVE  UNCHANGED <<config, x_, angle_, transform_degree_flag_, T_2_0_, parameters,
                             executor, changes, parameter_sets>>
      BY <2>2 DEF StatusCallback
    <2>3. ASSUME NEW packet, DataPacketParse(packet)
          PROVE  UNCHANGED <<config, x_, angle_, transform_degree_flag_, T_2_0_, parameters,
                             executor, changes, parameter_sets>>
      BY <2>3, Zenon DEF DataPacketParse
    <2> QED BY <2>1, <2>2, <2>3, Zenon
  <1>2. NodeTypeOK' /\ AsConfigured' /\ AsSet'
    BY <1>1, OthersStay DEF NodeInv
  <1>3. CASE TransformPointcloud
    <2>1. CASE node_output' = [kind |-> "unturned"]
      <3>1. node_output'.kind = "unturned"
        BY <2>1
      <3> QED BY <1>2, <3>1 DEF CloudIsShown, ImuFollowsPoints, PointsAreKept, NodeInv
    <2>2. CASE node_output' = [kind |-> "cloud", matrix |-> T_2_0_, due |-> Shown]
      <3>1. /\ node_output'.kind = "cloud" /\ node_output'.matrix = T_2_0_
            /\ node_output'.due = Shown
        BY <2>2
      <3>2. /\ InPacketMode(config)' = InPacketMode(config) /\ AllDegrees' = AllDegrees
            /\ AllRadians' = AllRadians /\ parameter_sets' = parameter_sets
        BY <1>1 DEF InPacketMode, AllDegrees, AllRadians
      <3>3. InPacketMode(config) => executor = "idle"
        BY <1>3, Zenon DEF TransformPointcloud
      <3>4. CloudIsShown'
        BY <3>1, <3>2, <3>3, IdleIsShown DEF CloudIsShown, NodeInv
      <3> QED BY <1>2, <3>1, <3>4 DEF ImuFollowsPoints, PointsAreKept, NodeInv
    <2> QED BY <1>3, <2>1, <2>2 DEF TransformPointcloud
  <1>4. ASSUME NEW mode \in CoordinateModes, StatusCallback(mode) PROVE NodeInv'
    <2>1. node_output' = [kind |-> "imu", mode |-> mode, axes |-> CoordinateImu(mode, <<1, 2, 3>>)]
      BY <1>4 DEF StatusCallback
    <2>2. /\ node_output'.kind = "imu" /\ node_output'.mode = mode
          /\ node_output'.axes = CoordinateImu(mode, <<1, 2, 3>>)
      BY <2>1
    <2>3. ImuFollowsPoints'
      BY <2>2, ImuAxes DEF ImuFollowsPoints
    <2> QED BY <1>2, <2>2, <2>3 DEF CloudIsShown, PointsAreKept, NodeInv
  <1>5. ASSUME NEW packet \in {Points, {}}, DataPacketParse(packet) PROVE NodeInv'
    <2>1. node_output' = [kind |-> "points", packet |-> packet,
                          kept |-> [p \in {q \in packet : InRange(q)} |-> Flags(p)]]
      BY <1>5 DEF DataPacketParse
    <2>2. /\ node_output'.kind = "points" /\ node_output'.packet = packet
          /\ node_output'.kept = [p \in {q \in packet : InRange(q)} |-> Flags(p)]
      BY <2>1
    <2>3. \A q : InRange(q)' = InRange(q)
      BY <1>1 DEF InRange
    <2>4. PointsAreKept'
      BY <1>1, <2>2, <2>3 DEF PointsAreKept, InRange
    <2> QED BY <1>2, <2>2, <2>4 DEF CloudIsShown, ImuFollowsPoints, NodeInv
  <1> QED BY <1>3, <1>4, <1>5

LEMMA NodeInvStep == ASSUME NodeAssumption, NodeInv, [NodeNext]_nodeVars PROVE NodeInv'
  <1>1. CASE InitDynamicParams
    BY <1>1, InitDynamicParamsKeeps
  <1>2. CASE SetRotation
    BY <1>2, SetRotationKeeps
  <1>3. CASE SetTranslation
    BY <1>3, SetTranslationKeeps
  <1>4. ASSUME NEW names \in SUBSET Axes, NEW value \in Angles,
               NEW x \in {parameters.x, parameters.x + 1}, SetParameters(names, x, value)
        PROVE  NodeInv'
    BY <1>4, SetParametersKeeps
  <1>5. CASE \/ TransformPointcloud
             \/ \E mode \in CoordinateModes : StatusCallback(mode)
             \/ \E packet \in {Points, {}} : DataPacketParse(packet)
    BY <1>5, SendingKeeps
  <1>6. CASE UNCHANGED nodeVars
    <2>1. NodeTypeOK' /\ AsConfigured' /\ AsSet'
      BY <1>6, OthersStay DEF nodeVars, NodeInv
    <2>2. CloudIsShown' /\ ImuFollowsPoints' /\ PointsAreKept'
      BY <1>6, NothingNewOut DEF nodeVars, NodeInv
    <2> QED BY <2>1, <2>2 DEF NodeInv
  <1> QED BY <1>1, <1>2, <1>3, <1>4, <1>5, <1>6 DEF NodeNext

(* For any angles, configuration and number of sets of parameters: in      *)
(* packet mode a cloud is transformed by the matrix the node shows (or was *)
(* configured with), as long as all angles are degrees, or radians and no  *)
(* parameter was set; an IMU message has the axes of the points, and no    *)
(* point in the range is left out or mistaken for one of another channel,  *)
(* region or facet.                                                        *)
THEOREM NodeStaysSound == ASSUME NodeAssumption PROVE NodeSpec => []NodeIsSound
  <1>1. NodeInit => NodeInv
    BY NodeInvInit
  <1>2. NodeInv /\ [NodeNext]_nodeVars => NodeInv'
    BY NodeInvStep
  <1>3. NodeInv => NodeIsSound
    BY KeptTellApart DEF NodeInv, NodeIsSound, CloudIsShown, TransformIsShown
  <1> QED BY <1>1, <1>2, <1>3, PTL DEF NodeSpec
=============================================================================
