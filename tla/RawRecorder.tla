---------------------------- MODULE RawRecorder -----------------------------
(***************************************************************************)
(* The recorder of raw data (sdk_client/raw_recorder.{h,cpp}) with the     *)
(* InnoThread it runs in: a receiver takes packets from a port and gives   *)
(* each to the saver of its message, which has a thread that writes them   *)
(* to a file in order and a thread that stops it when nothing comes.       *)
(*                                                                         *)
(* One message and its saver are modelled; packets of other messages make  *)
(* the receiver delete the saver when it has ended.  Time is left out: a   *)
(* wait with a timeout may end any time.  Spurious wakeups are left out.   *)
(***************************************************************************)
EXTENDS Integers, Sequences, FiniteSets

CONSTANTS
  LastId,         (* the packet with the end of the field; ids count from 0  *)
  MaxSavers       (* bound: how often a saver is made for the message        *)

RawAssumption == LastId \in Nat /\ MaxSavers \in Nat \ {0}

Ids == 0..LastId
NoId == -1

VARIABLES
  shutdown_,      (* of the InnoThread of the receiver                       *)
  receiver,       (* where receive_loop_ is                                  *)
  packet,         (* the packet in add_data, NoId if there is none          *)
  savers,         (* how many savers were made                               *)
  (* the saver                                                               *)
  status_, cache_, expect_id_,
  flush, eid, tmp_file_done,
  timer,
  saved, incomplete_,
  files,          (* the files that were finished                            *)
  panic           (* the verification that failed, "none" if none did        *)

receiverVars == <<shutdown_, receiver, packet, savers>>
flushVars    == <<flush, eid, tmp_file_done>>
savedVars    == <<saved, incomplete_, files>>
rawVars == <<receiverVars, status_, cache_, expect_id_, flushVars, timer, savedVars, panic>>

RawInit ==
  /\ shutdown_ = FALSE /\ receiver = "recv" /\ packet = NoId /\ savers = 0
  /\ status_ = "none" /\ cache_ = {} /\ expect_id_ = 0
  /\ flush = "none" /\ eid = NoId /\ tmp_file_done = FALSE /\ timer = "none"
  /\ saved = <<>> /\ incomplete_ = FALSE /\ files = {} /\ panic = "none"

(* InnoThread::shutdown, which then joins the receiver.                    *)
Shutdown ==
  /\ ~shutdown_ /\ shutdown_' = TRUE
  /\ UNCHANGED <<receiver, packet, savers, status_, cache_, expect_id_, flushVars, timer, savedVars, panic>>

-----------------------------------------------------------------------------
(* cond_status_.notify_one(): a timer that waits while the saver works     *)
(* looks at the status again; one that waits to destroy it expects that    *)
(* somebody else has, and verifies it.                                     *)
Wakes(status) ==
  CASE timer = "wait"    -> timer' = "read" /\ UNCHANGED panic
    [] timer = "waitEnd" -> /\ timer' = "read"
                            /\ panic' = IF status = "DESTROYED" THEN panic ELSE "error status"
    [] OTHER             -> UNCHANGED <<timer, panic>>

(* A packet of the message: a new saver is made for the first one.  A      *)
(* saver that is stopped or destroyed takes no more.                       *)
FirstPacket == \E id \in Ids :
  /\ receiver = "recv" /\ ~shutdown_ /\ status_ = "none" /\ savers < MaxSavers
  /\ savers' = savers + 1 /\ status_' = "WORKING" /\ flush' = "test" /\ timer' = "read"
  /\ receiver' = "add" /\ packet' = id
  /\ UNCHANGED <<shutdown_, cache_, expect_id_, eid, tmp_file_done, savedVars, panic>>

NextPacket == \E id \in Ids :
  /\ receiver = "recv" /\ ~shutdown_ /\ status_ = "WORKING"
  /\ receiver' = "add" /\ packet' = id
  /\ UNCHANGED <<shutdown_, savers, status_, cache_, expect_id_, flushVars, timer, savedVars, panic>>

(* The rest of add_data: what the status is by now, it no longer asks.     *)
NotifyTimer ==
  /\ receiver = "add" /\ receiver' = "cache" /\ Wakes(status_)
  /\ UNCHANGED <<shutdown_, packet, savers, status_, cache_, expect_id_, flushVars, savedVars>>

CacheData ==
  /\ receiver = "cache" /\ receiver' = "recv" /\ packet' = NoId
  /\ cache_' = IF packet >= expect_id_ THEN cache_ \cup {packet} ELSE cache_
  /\ UNCHANGED <<shutdown_, savers, status_, expect_id_, flushVars, timer, savedVars, panic>>

(* A new message comes, and the saver has ended.                           *)
CleanMap ==
  /\ receiver = "recv" /\ ~shutdown_ /\ status_ = "DESTROYED" /\ receiver' = "delete"
  /\ UNCHANGED <<shutdown_, packet, savers, status_, cache_, expect_id_, flushVars, timer, savedVars, panic>>

(* The receiver is told to stop: RawSaver::shutdown.                       *)
ShutdownSaver ==
  /\ receiver = "recv" /\ shutdown_ /\ status_ # "none"
  /\ status_' = "DESTROYED" /\ receiver' = "delete"
  /\ IF status_ = "DESTROYED" THEN UNCHANGED <<timer, panic>> ELSE Wakes("DESTROYED")
  /\ UNCHANGED <<shutdown_, packet, savers, cache_, expect_id_, flushVars, savedVars>>

(* ~RawSaver: the timer, which joins the other thread, has been joined.    *)
DeleteSaver ==
  /\ receiver = "delete" /\ timer = "exit"
  /\ receiver' = "recv" /\ status_' = "none" /\ cache_' = {} /\ expect_id_' = 0
  /\ flush' = "none" /\ eid' = NoId /\ tmp_file_done' = FALSE /\ timer' = "none"
  /\ saved' = <<>> /\ incomplete_' = FALSE
  /\ panic' = IF cache_ = {} THEN panic ELSE "cache is not empty"
  /\ UNCHANGED <<shutdown_, packet, savers, files>>

ReceiverEnds ==
  /\ receiver = "recv" /\ shutdown_ /\ status_ = "none" /\ receiver' = "ended"
  /\ UNCHANGED <<shutdown_, packet, savers, status_, cache_, expect_id_, flushVars, timer, savedVars, panic>>

-----------------------------------------------------------------------------
(* flush_loop_.                                                            *)
StillWorks(status) == status = "WORKING"

FlushTest ==
  /\ flush = "test"
  /\ flush' = IF StillWorks(status_) THEN "wait"
              ELSE IF tmp_file_done THEN "clear" ELSE "last"
  /\ UNCHANGED <<receiverVars, status_, cache_, expect_id_, eid, tmp_file_done, timer, savedVars, panic>>

(* The expected packet is there, or it is waited for in vain.              *)
FlushWait ==
  /\ flush = "wait"
  /\ flush' = IF cache_ = {} THEN "test" ELSE "take"
  /\ UNCHANGED <<receiverVars, status_, cache_, expect_id_, eid, tmp_file_done, timer, savedVars, panic>>

TakeExpected ==
  /\ flush = "take" /\ expect_id_ \in cache_
  /\ flush' = "save" /\ eid' = expect_id_ /\ expect_id_' = expect_id_ + 1
  /\ UNCHANGED <<receiverVars, status_, cache_, tmp_file_done, timer, savedVars, panic>>

(* The next expected id is searched no further than the cache has packets. *)
Reached == {id \in cache_ : id > expect_id_ /\ id <= expect_id_ + Cardinality(cache_)}

SkipMissing ==
  /\ flush = "take" /\ expect_id_ \notin cache_
  /\ expect_id_' = IF Reached = {} THEN expect_id_ + Cardinality(cache_)
                   ELSE CHOOSE id \in Reached : \A other \in Reached : id <= other
  /\ flush' = "test"
  /\ UNCHANGED <<receiverVars, status_, cache_, eid, tmp_file_done, timer, savedVars, panic>>

(* Mutant of IsGap: the first packet may be any.                           *)
GapBetween(id) == saved # <<>> /\ id # saved[Len(saved)] + 1
IsGap(id) == id # (IF saved = <<>> THEN 0 ELSE saved[Len(saved)] + 1)

(* save_to_tmp_file_ and clear_cache_by_sid_; a write may fail.            *)
Save ==
  /\ flush = "save" /\ eid' = NoId /\ cache_' = cache_ \ {eid}
  /\ incomplete_' = (incomplete_ \/ IsGap(eid))
  /\ \E written \in BOOLEAN :
       /\ saved' = IF written THEN Append(saved, eid) ELSE saved
       /\ tmp_file_done' = (~written \/ eid = LastId)
       /\ flush' = IF ~written \/ eid = LastId THEN "finish" ELSE "test"
  /\ UNCHANGED <<receiverVars, status_, expect_id_, timer, files, panic>>

(* finish_: the file gets its name, and the saver stops.                   *)
Finish ==
  /\ flush \in {"finish", "last"}
  /\ flush' = IF flush = "finish" THEN "test" ELSE "clear"
  /\ files' = files \cup {[saved |-> saved, incomplete |-> incomplete_]}
  /\ IF status_ = "WORKING" THEN status_' = "STOPPED" /\ Wakes("STOPPED")
     ELSE UNCHANGED <<status_, timer, panic>>
  /\ UNCHANGED <<receiverVars, cache_, expect_id_, eid, tmp_file_done, saved, incomplete_>>

ClearCache ==
  /\ flush = "clear" /\ flush' = "exit" /\ cache_' = {}
  /\ UNCHANGED <<receiverVars, status_, expect_id_, eid, tmp_file_done, timer, savedVars, panic>>

-----------------------------------------------------------------------------
(* timer_loop_.  It waits on a status it read before.                      *)
TimerReads ==
  /\ timer = "read"
  /\ timer' = CASE status_ = "WORKING" -> "working" [] status_ = "STOPPED" -> "stopped"
                [] status_ = "DESTROYED" -> "join"
  /\ UNCHANGED <<receiverVars, status_, cache_, expect_id_, flushVars, savedVars, panic>>

TimerWaits ==
  /\ timer \in {"working", "stopped"}
  /\ timer' = IF timer = "working" THEN "wait" ELSE "waitEnd"
  /\ UNCHANGED <<receiverVars, status_, cache_, expect_id_, flushVars, savedVars, panic>>

(* Nothing came for 30 seconds, or for two minutes after that.             *)
TimedOut ==
  /\ timer \in {"wait", "waitEnd"} /\ timer' = "read"
  /\ status_' = IF timer = "wait" THEN "STOPPED" ELSE "DESTROYED"
  /\ UNCHANGED <<receiverVars, cache_, expect_id_, flushVars, savedVars, panic>>

TimerEnds ==
  /\ timer = "join" /\ flush = "exit" /\ timer' = "exit"
  /\ UNCHANGED <<receiverVars, status_, cache_, expect_id_, flushVars, savedVars, panic>>

-----------------------------------------------------------------------------
Packets  == FirstPacket \/ NextPacket \/ CleanMap
Receiver == NotifyTimer \/ CacheData \/ ShutdownSaver \/ DeleteSaver \/ ReceiverEnds
Flush    == FlushTest \/ FlushWait \/ TakeExpected \/ SkipMissing \/ Save \/ Finish \/ ClearCache
Timer    == TimerReads \/ TimerWaits \/ TimedOut \/ TimerEnds

Ended == (receiver = "ended" \/ panic # "none") /\ UNCHANGED rawVars

RawNext == (panic = "none" /\ (Shutdown \/ Packets \/ Receiver \/ Flush \/ Timer)) \/ Ended

RawSpec == RawInit /\ [][RawNext]_rawVars

RawFairSpec ==
  /\ RawSpec
  /\ WF_rawVars(panic = "none" /\ Receiver) /\ WF_rawVars(panic = "none" /\ Flush)
  /\ WF_rawVars(panic = "none" /\ Timer)

-----------------------------------------------------------------------------
Statuses == {"none", "WORKING", "STOPPED", "DESTROYED"}

RawTypeOK ==
  /\ shutdown_ \in BOOLEAN /\ receiver \in {"recv", "add", "cache", "delete", "ended"}
  /\ packet \in Ids \cup {NoId} /\ savers \in 0..MaxSavers
  /\ status_ \in Statuses /\ cache_ \subseteq Ids /\ expect_id_ \in Nat
  /\ flush \in {"none", "test", "wait", "take", "save", "finish", "last", "clear", "exit"}
  /\ eid \in Ids \cup {NoId} /\ tmp_file_done \in BOOLEAN
  /\ timer \in {"none", "read", "working", "stopped", "wait", "waitEnd", "join", "exit"}
  /\ saved \in Seq(Ids) /\ incomplete_ \in BOOLEAN
  /\ panic \in {"none", "error status", "cache is not empty"}

(* A file holds each packet once and in order, and one that is not named   *)
(* incomplete has no gap: it is the beginning of the message.  (That it    *)
(* goes to the end is not promised: a message whose end is lost is not     *)
(* named incomplete.)                                                      *)
FilesAreGapless ==
  \A f \in files :
    /\ \A i, j \in DOMAIN f.saved : i < j => f.saved[i] < f.saved[j]
    /\ ~f.incomplete => \A i \in DOMAIN f.saved : f.saved[i] = i - 1

(* Once shut down, the receiver and the saver's threads end, whatever      *)
(* notification is lost between a read of the status and the wait on it.   *)
ShutdownEnds == shutdown_ ~> (receiver = "ended" \/ panic # "none")

(* The verifications of raw_recorder.cpp (139, 469): the cache of a saver  *)
(* that exits is empty, and who wakes a stopped saver has destroyed it.    *)
NothingPanics == panic = "none"
=============================================================================
