------------------------------ MODULE Recorder ------------------------------
(***************************************************************************)
(* The recorder of inno_pc packets (sdk_client/stage_client_read.cpp): the *)
(* thread that reads the lidar copies every data packet into a circular    *)
(* buffer (utils/circular_buffer.h) and a thread of its own hands the      *)
(* copies to the recorder callback, from the first packet to the end of    *)
(* the read stage.                                                         *)
(*                                                                         *)
(* One thread reads: data packets come through one port.  Packets are      *)
(* numbers; the buffer of a copy is left out, only how many are lent is    *)
(* counted.                                                                *)
(***************************************************************************)
EXTENDS Integers, Sequences

CONSTANTS
  kRecorderQueueMaxLen, kRecorderNotifyInterval,
  MaxPackets,     (* bound: packets that are read                            *)
  MaxStarts,      (* bound: times the lidar is started                       *)
  Prompt          (* the recorder is not between its tests and its wait when *)
                  (* the read stage is deleted, some time after its stop     *)

ConstantAssumption ==
  /\ {kRecorderQueueMaxLen, MaxPackets, MaxStarts} \subseteq Nat \ {0}
  /\ kRecorderNotifyInterval \in 0..kRecorderQueueMaxLen /\ Prompt \in BOOLEAN

VARIABLES
  life,           (* of the read stage, as stop() and its destructor see it  *)
  starts,
  sent,           (* packets read so far                                     *)
  reading,        (* where the reading thread is in inno_pc_recorder         *)
  callback,       (* recorder_callbacks_[INNO_PC] is set                     *)
  recorder_queue_,
  recorder_thread_runing_,
  recorder,       (* where the recorder thread is                            *)
  dequeued,       (* the packet it holds, 0 if none                          *)
  lent,           (* buffers taken from the pool and not freed               *)
  terminated,     (* a running std::thread was assigned to                   *)
  recorded        (* history: the packets the callback got                   *)

readVars     == <<starts, sent, reading>>
recorderVars == <<recorder, dequeued>>
vars == <<life, readVars, callback, recorder_queue_, recorder_thread_runing_,
          recorderVars, lent, terminated, recorded>>

(* recorder_thread_ is joinable from its start to the join.                *)
Joinable == recorder # "none"

Init ==
  /\ life = "running" /\ starts = 1 /\ sent = 0 /\ reading = "input"
  /\ callback = TRUE /\ recorder_queue_ = <<>> /\ recorder_thread_runing_ = FALSE
  /\ recorder = "none" /\ dequeued = 0
  /\ lent = 0 /\ terminated = FALSE /\ recorded = <<>>

-----------------------------------------------------------------------------
(* inno_pc_recorder, by the thread that reads.                             *)

(* A packet without a recorder callback goes its way.                      *)
ReadUnrecorded ==
  /\ ~callback /\ life = "running" /\ reading = "input" /\ sent < MaxPackets
  /\ sent' = sent + 1
  /\ UNCHANGED <<life, starts, reading, callback, recorder_queue_, recorder_thread_runing_,
                 recorderVars, lent, terminated, recorded>>

IsFull == Len(recorder_queue_) = kRecorderQueueMaxLen

(* The copy is queued, or dropped because the queue is full.               *)
Enqueue ==
  /\ callback /\ life = "running" /\ reading = "input" /\ sent < MaxPackets
  /\ sent' = sent + 1
  /\ IF IsFull THEN reading' = "queued" /\ UNCHANGED <<recorder_queue_, lent>>
     ELSE /\ recorder_queue_' = Append(recorder_queue_, sent + 1) /\ lent' = lent + 1
          /\ reading' = "enqueued"
  /\ UNCHANGED <<life, starts, callback, recorder_thread_runing_, recorderVars, terminated, recorded>>

(* recorder_cv_.notify_one().  Nobody waits but the recorder thread.       *)
Notified == IF recorder = "waits" THEN "loop" ELSE recorder

Notify ==
  /\ reading = "enqueued" /\ reading' = "queued"
  /\ recorder' = IF Len(recorder_queue_) > kRecorderNotifyInterval THEN Notified ELSE recorder
  /\ UNCHANGED <<life, starts, sent, callback, recorder_queue_, recorder_thread_runing_,
                 dequeued, lent, terminated, recorded>>

(* std::thread's assignment ends the process if the old thread was never   *)
(* joined, as it was not when the lidar was stopped and started again.     *)
StartRecorder ==
  /\ reading = "queued" /\ reading' = "input"
  /\ IF recorder_thread_runing_ THEN UNCHANGED <<recorder_thread_runing_, recorder, terminated>>
     ELSE /\ recorder_thread_runing_' = TRUE
          /\ terminated' = Joinable
          /\ recorder' = IF Joinable THEN recorder ELSE "loop"
  /\ UNCHANGED <<life, starts, sent, callback, recorder_queue_, dequeued, lent, recorded>>

-----------------------------------------------------------------------------
(* async_recorder.                                                         *)
TestRunning ==
  /\ recorder = "loop"
  /\ recorder' = IF recorder_thread_runing_ THEN "test" ELSE "drain"
  /\ UNCHANGED <<life, readVars, callback, recorder_queue_, recorder_thread_runing_, dequeued,
                 lent, terminated, recorded>>

Dequeue ==
  /\ recorder = "test"
  /\ IF recorder_queue_ = <<>>
     THEN recorder' = "empty" /\ UNCHANGED <<recorder_queue_, dequeued>>
     ELSE /\ recorder' = "callback" /\ dequeued' = Head(recorder_queue_)
          /\ recorder_queue_' = Tail(recorder_queue_)
  /\ UNCHANGED <<life, readVars, callback, recorder_thread_runing_, lent, terminated, recorded>>

(* The wait has no predicate: what happened since the test of the queue    *)
(* wakes nobody.                                                           *)
Wait ==
  /\ recorder = "empty" /\ recorder' = "waits"
  /\ UNCHANGED <<life, readVars, callback, recorder_queue_, recorder_thread_runing_, dequeued,
                 lent, terminated, recorded>>

WakesUp ==
  /\ recorder = "waits" /\ recorder' = "loop"
  /\ UNCHANGED <<life, readVars, callback, recorder_queue_, recorder_thread_runing_, dequeued,
                 lent, terminated, recorded>>

(* Mutant of FreeDequeued: only a packet that was recorded is freed.       *)
FreeRecorded == IF callback THEN lent - 1 ELSE lent
FreeDequeued == lent - 1

(* do_recorder_callback; a callback that returns an error is called no     *)
(* more.                                                                   *)
Record ==
  /\ recorder = "callback"
  /\ IF callback THEN callback' \in BOOLEAN /\ recorded' = Append(recorded, dequeued)
     ELSE UNCHANGED <<callback, recorded>>
  /\ recorder' = "loop" /\ dequeued' = 0 /\ lent' = FreeDequeued
  /\ UNCHANGED <<life, readVars, recorder_queue_, recorder_thread_runing_, terminated>>

(* What waits when the recorder is told to stop is freed unrecorded.       *)
Drain ==
  /\ recorder = "drain"
  /\ recorder' = "done" /\ recorder_queue_' = <<>> /\ lent' = lent - Len(recorder_queue_)
  /\ UNCHANGED <<life, readVars, callback, recorder_thread_runing_, dequeued, terminated, recorded>>

-----------------------------------------------------------------------------
(* The end of stop(): the input has ended.  It does not join the recorder. *)
Stop ==
  /\ life = "running" /\ reading = "input"
  /\ life' = "stopped" /\ recorder_thread_runing_' = FALSE
  /\ recorder' = Notified
  /\ UNCHANGED <<readVars, callback, recorder_queue_, dequeued, lent, terminated, recorded>>

(* InnoLidarClient keeps stage_read_ and starts it again.                  *)
Restart ==
  /\ life = "stopped" /\ starts < MaxStarts
  /\ life' = "running" /\ starts' = starts + 1
  /\ UNCHANGED <<sent, reading, callback, recorder_queue_, recorder_thread_runing_, recorderVars,
                 lent, terminated, recorded>>

NotifiedByDestructor == Notified

(* ~StageClientRead                                                        *)
Delete ==
  /\ life = "stopped" /\ (Prompt => recorder \notin {"test", "empty"})
  /\ life' = "deleting" /\ recorder_thread_runing_' = FALSE
  /\ recorder' = NotifiedByDestructor
  /\ UNCHANGED <<readVars, callback, recorder_queue_, dequeued, lent, terminated, recorded>>

Join ==
  /\ life = "deleting" /\ recorder \in {"none", "done"}
  /\ life' = "deleted" /\ recorder' = "none"
  /\ UNCHANGED <<readVars, callback, recorder_queue_, recorder_thread_runing_, dequeued,
                 lent, terminated, recorded>>

Ended == (terminated \/ life = "deleted") /\ UNCHANGED vars

-----------------------------------------------------------------------------
Reader   == ReadUnrecorded \/ Enqueue \/ Notify \/ StartRecorder
Recorder == TestRunning \/ Dequeue \/ Wait \/ Record \/ Drain

Next ==
  \/ ~terminated /\ (Reader \/ Recorder \/ WakesUp \/ Stop \/ Restart \/ Delete \/ Join)
  \/ Ended

Spec == Init /\ [][Next]_vars

FairSpec ==
  /\ Spec
  /\ WF_vars(~terminated /\ (Notify \/ StartRecorder))
  /\ WF_vars(~terminated /\ Recorder)
  /\ WF_vars(~terminated /\ Join)

-----------------------------------------------------------------------------
TypeOK ==
  /\ life \in {"running", "stopped", "deleting", "deleted"} /\ starts \in 1..MaxStarts
  /\ sent \in 0..MaxPackets /\ reading \in {"input", "enqueued", "queued"}
  /\ callback \in BOOLEAN /\ recorder_queue_ \in Seq(1..MaxPackets)
  /\ recorder_thread_runing_ \in BOOLEAN /\ dequeued \in 0..MaxPackets
  /\ recorder \in {"none", "loop", "test", "empty", "waits", "callback", "drain", "done"}
  /\ lent \in Nat /\ terminated \in BOOLEAN /\ recorded \in Seq(1..MaxPackets)

Held == IF dequeued = 0 THEN <<>> ELSE <<dequeued>>

(* The recording keeps the order of the packets, none of them comes twice, *)
(* the queue never outgrows its array, and a buffer that is lent belongs   *)
(* to a packet that waits or is in the callback: the pool gets every other *)
(* one back, whatever the callback returns and whenever the lidar stops.   *)
BuffersReturn ==
  LET ahead == recorded \o Held \o recorder_queue_
  IN  /\ \A i, j \in DOMAIN ahead : i < j => ahead[i] < ahead[j]
      /\ Len(recorder_queue_) <= kRecorderQueueMaxLen
      /\ lent = Len(Held) + Len(recorder_queue_)
      /\ life = "deleted" => lent = 0

(* Deleting the read stage ends: the recorder that waits when stop()'s     *)
(* notification is gone gets the destructor's.                             *)
DeleteReturns == life = "deleting" ~> (life = "deleted" \/ terminated)

(* inno_lidar_stop (inno_lidar_api.h:54): no further callbacks will be     *)
(* called once this call returns.                                          *)
NoCallbackAfterStop == ~(life = "stopped" /\ recorder = "callback" /\ callback)
=============================================================================
