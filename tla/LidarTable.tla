----------------------------- MODULE LidarTable -----------------------------
(***************************************************************************)
(* The table of lidars behind the C interface of the SDK                   *)
(* (sdk_client/api.cpp, sdk_common/api_common.cpp): several threads open,  *)
(* use and close lidars by their handles.                                  *)
(*                                                                         *)
(* A call looks its lidar up under static_mutex_s and uses it without;     *)
(* close takes it out of the table under the mutex and deletes it after;   *)
(* close_all and stop_all do all their work under the mutex, and stop_all  *)
(* waits there for callbacks of the lidars to end.  So nobody may close    *)
(* all lidars or one while another thread uses it (Careful), and nobody    *)
(* may stop all whose callbacks call the interface (asks).  How one lidar  *)
(* starts and stops is LidarLifecycle.                                     *)
(***************************************************************************)
EXTENDS Naturals, FiniteSets

CONSTANTS
  Threads,      \* threads of the application
  MaxOpened,    \* bound: lidars that are opened
  MaxTableCalls,\* bound: calls in all
  Careful       \* nothing is closed that is used or not stopped

ConstantAssumption ==
  MaxOpened \in Nat \ {0} /\ MaxTableCalls \in Nat /\ Careful \in BOOLEAN /\ "free" \notin Threads

VARIABLES
  asks,         \* whether the callbacks of the lidars call the interface
  max_handle_s,
  lidars_s,     \* handles in the table
  mutex,        \* the thread that keeps static_mutex_s over several steps, or "free"
  lidar,        \* lidar[h]: "none", "init", "up" or "deleted"
  callback,     \* callback[h]: "none", "runs" or "asks"
  at,           \* at[t]: what thread t is about to do
  of,           \* of[t]: the handle it does that with
  ret,          \* ret[t]: what its last call returned: "ok", "error" or "none"
  deletions,    \* deletions[h]: how often lidar h was deleted
  table_calls, misuse   \* misuse: a deleted lidar was used, or one deleted that is up

tableVars == <<asks, max_handle_s, lidars_s, mutex, lidar, callback, at, of, ret, deletions,
               table_calls, misuse>>

Handles == 1..MaxOpened

(* What a call answers when there is no lidar of that handle: most of them *)
(* 1 or -1; a ring id is 0 then, which is also a ring id, and a converter  *)
(* NULL.                                                                   *)
Settings == [op \in {"set_mode", "set_attribute", "set_table", "set_callbacks", "set_config",
                     "set_roi", "set_motion_compensation"} |-> "error"]
Queries  == [op \in {"mode_status", "get_attribute", "get_table", "get_state", "get_roi",
                     "fw_state", "fw_version"} |-> "error"]
Rings    == [op \in {"get_ring_id", "get_converter"} |-> "none"]

Uses     == {"start", "stop", "set", "query", "ring"}
Unknown(op) == CASE op = "set"   -> Settings["set_config"]
                 [] op = "query" -> Queries["get_state"]
                 [] op = "ring"  -> Rings["get_ring_id"]
                 [] OTHER        -> "error"

Idle(t) == at[t] = "idle"
Free    == mutex = "free"

Init ==
  /\ asks \in BOOLEAN
  /\ max_handle_s = 0 /\ lidars_s = {} /\ mutex = "free"
  /\ lidar = [h \in Handles |-> "none"] /\ callback = [h \in Handles |-> "none"]
  /\ at = [t \in Threads |-> "idle"] /\ of = [t \in Threads |-> 0]
  /\ ret = [t \in Threads |-> "none"]
  /\ deletions = [h \in Handles |-> 0] /\ table_calls = 0 /\ misuse = FALSE

Begin(t, what, h) ==
  /\ Idle(t) /\ table_calls < MaxTableCalls
  /\ table_calls' = table_calls + 1
  /\ at' = [at EXCEPT ![t] = what] /\ of' = [of EXCEPT ![t] = h]

Return(t, answer) == at' = [at EXCEPT ![t] = "idle"] /\ ret' = [ret EXCEPT ![t] = answer]

-----------------------------------------------------------------------------
(* inno_lidar_open_file: a file that cannot be opened is refused before a  *)
(* client is made; so is a protocol that is not implemented.               *)
OpenRefused(t) ==
  /\ Idle(t) /\ table_calls < MaxTableCalls /\ table_calls' = table_calls + 1
  /\ ret' = [ret EXCEPT ![t] = "error"]
  /\ UNCHANGED <<asks, max_handle_s, lidars_s, mutex, lidar, callback, at, of, deletions, misuse>>

(* init_ of the client: the next handle.                                   *)
NextHandle == max_handle_s + 1
OpenLidar(t) ==
  /\ Free /\ max_handle_s < MaxOpened
  /\ Begin(t, "add", NextHandle)
  /\ max_handle_s' = max_handle_s + 1
  /\ lidar' = [lidar EXCEPT ![NextHandle] = "init"]
  /\ UNCHANGED <<asks, lidars_s, mutex, callback, ret, deletions, misuse>>

AddLidar(t) ==
  /\ at[t] = "add" /\ Free
  /\ lidars_s' = lidars_s \cup {of[t]}
  /\ Return(t, "ok")
  /\ UNCHANGED <<asks, max_handle_s, mutex, lidar, callback, of, deletions, table_calls, misuse>>

(* find_lidar: what is found is used after the mutex is released.          *)
FindLidar(t, op, h) ==
  /\ Free
  /\ IF h \in lidars_s
       THEN Begin(t, op, h) /\ UNCHANGED ret
       ELSE /\ Idle(t) /\ table_calls < MaxTableCalls /\ table_calls' = table_calls + 1
            /\ ret' = [ret EXCEPT ![t] = Unknown(op)]
            /\ UNCHANGED <<at, of>>
  /\ UNCHANGED <<asks, max_handle_s, lidars_s, mutex, lidar, callback, deletions, misuse>>

(* inno_lidar_start and the calls that only set or ask something.          *)
UseLidar(t) ==
  /\ at[t] \in {"start", "set", "query", "ring"}
  /\ misuse' = (misuse \/ lidar[of[t]] = "deleted")
  /\ lidar' = IF at[t] = "start" /\ lidar[of[t]] = "init" THEN [lidar EXCEPT ![of[t]] = "up"] ELSE lidar
  /\ Return(t, IF at[t] = "start" /\ lidar[of[t]] # "init" THEN "error" ELSE "ok")
  /\ UNCHANGED <<asks, max_handle_s, lidars_s, mutex, callback, of, deletions, table_calls>>

(* stop lets no further callback begin and waits for the one that runs.    *)
Up          == {h \in lidars_s : lidar[h] = "up"}
Stopping(h) == \E t \in Threads : \/ at[t] = "stop" /\ of[t] = h
                                  \/ at[t] = "stop_all" /\ h \in Up /\ \A g \in Up : h <= g
StopLidar(t) ==
  /\ at[t] = "stop" /\ callback[of[t]] = "none"
  /\ misuse' = (misuse \/ lidar[of[t]] = "deleted")
  /\ lidar' = IF lidar[of[t]] = "up" THEN [lidar EXCEPT ![of[t]] = "init"] ELSE lidar
  /\ Return(t, "ok")
  /\ UNCHANGED <<asks, max_handle_s, lidars_s, mutex, callback, of, deletions, table_calls>>

-----------------------------------------------------------------------------
UnusedLidar(h) == lidar[h] # "up" /\ \A t \in Threads : at[t] \in Uses => of[t] # h

(* remove_lidar: erased under the mutex, verified and deleted after.       *)
CloseLidar(t, h) ==
  /\ Free /\ (Careful => UnusedLidar(h))
  /\ IF h \in lidars_s
       THEN Begin(t, "delete", h) /\ lidars_s' = lidars_s \ {h} /\ UNCHANGED ret
       ELSE /\ Idle(t) /\ table_calls < MaxTableCalls /\ table_calls' = table_calls + 1
            /\ ret' = [ret EXCEPT ![t] = "error"]
            /\ UNCHANGED <<at, of, lidars_s>>
  /\ UNCHANGED <<asks, max_handle_s, mutex, lidar, callback, deletions, misuse>>

Deletion(h) ==
  /\ misuse' = (misuse \/ lidar[h] # "init")
  /\ lidar' = [lidar EXCEPT ![h] = "deleted"]
  /\ deletions' = [deletions EXCEPT ![h] = @ + 1]

DeleteLidar(t) ==
  /\ at[t] = "delete"
  /\ Deletion(of[t]) /\ Return(t, "ok")
  /\ UNCHANGED <<asks, max_handle_s, lidars_s, mutex, callback, of, table_calls>>

(* remove_lidar_all and stop_lidar_all keep the mutex to their end.        *)
LockAll(t, what) ==
  /\ Free
  /\ what = "close_all" => (Careful => \A h \in lidars_s : UnusedLidar(h))
  /\ what = "stop_all" => ~asks
  /\ Begin(t, what, 0) /\ mutex' = t
  /\ UNCHANGED <<asks, max_handle_s, lidars_s, lidar, callback, ret, deletions, misuse>>

First(set) == CHOOSE h \in set : \A g \in set : h <= g
CloseFirst(t) ==
  /\ at[t] = "close_all" /\ lidars_s # {}
  /\ Deletion(First(lidars_s)) /\ lidars_s' = lidars_s \ {First(lidars_s)}
  /\ UNCHANGED <<asks, max_handle_s, mutex, callback, at, of, ret, table_calls>>

StopFirst(t) ==
  /\ at[t] = "stop_all" /\ Up # {} /\ callback[First(Up)] = "none"
  /\ lidar' = [lidar EXCEPT ![First(Up)] = "init"]
  /\ UNCHANGED <<asks, max_handle_s, lidars_s, mutex, callback, at, of, ret, deletions,
                 table_calls, misuse>>

UnlockAll(t) ==
  /\ \/ at[t] = "close_all" /\ lidars_s = {}
     \/ at[t] = "stop_all" /\ Up = {}
  /\ mutex' = "free" /\ Return(t, "ok")
  /\ UNCHANGED <<asks, max_handle_s, lidars_s, lidar, callback, of, deletions, table_calls, misuse>>

-----------------------------------------------------------------------------
(* A callback of a lidar that is up; the driver's asks for a table         *)
(* (driver_lidar.cc), which looks the lidar up.                            *)
CallbackBegins(h) ==
  /\ lidar[h] = "up" /\ callback[h] = "none" /\ ~Stopping(h)
  /\ table_calls < MaxTableCalls
  /\ callback' = [callback EXCEPT ![h] = IF asks THEN "asks" ELSE "runs"]
  /\ UNCHANGED <<asks, max_handle_s, lidars_s, mutex, lidar, at, of, ret, deletions,
                 table_calls, misuse>>

CallbackAsks(h) ==
  /\ callback[h] = "asks" /\ Free
  /\ callback' = [callback EXCEPT ![h] = "runs"]
  /\ UNCHANGED <<asks, max_handle_s, lidars_s, mutex, lidar, at, of, ret, deletions,
                 table_calls, misuse>>

CallbackEnds(h) ==
  /\ callback[h] = "runs"
  /\ callback' = [callback EXCEPT ![h] = "none"]
  /\ UNCHANGED <<asks, max_handle_s, lidars_s, mutex, lidar, at, of, ret, deletions,
                 table_calls, misuse>>

ThreadStep(t) == AddLidar(t) \/ UseLidar(t) \/ StopLidar(t) \/ DeleteLidar(t) \/ CloseFirst(t)
                 \/ StopFirst(t) \/ UnlockAll(t)

Calls(t) ==
  \/ OpenRefused(t) \/ OpenLidar(t)
  \/ \E h \in Handles : CloseLidar(t, h) \/ \E op \in Uses : FindLidar(t, op, h)
  \/ \E what \in {"close_all", "stop_all"} : LockAll(t, what)

CallbackSteps == \E h \in Handles : CallbackAsks(h) \/ CallbackEnds(h)

Next ==
  \/ \E t \in Threads : Calls(t) \/ ThreadStep(t)
  \/ CallbackSteps \/ \E h \in Handles : CallbackBegins(h)

Spec == /\ Init /\ [][Next]_tableVars
        /\ \A t \in Threads : WF_tableVars(ThreadStep(t))
        /\ \A h \in Handles : WF_tableVars(CallbackAsks(h) \/ CallbackEnds(h))

-----------------------------------------------------------------------------
(* However threads race to close them, each lidar is deleted at most once, *)
(* and what the table holds, and so what find_lidar finds, is not deleted, *)
(* has a handle that was given out once, and is no longer being opened.    *)
(* With care for the order nothing deleted is used, nothing running        *)
(* deleted, and nobody but close_all keeps lidars from closing: what is    *)
(* neither in the table nor on its way in or out is gone.                  *)
TableIsSound ==
  /\ \A h \in Handles : deletions[h] <= 1
  /\ \A h \in lidars_s : lidar[h] \in {"init", "up"} /\ \A t \in Threads : ~(at[t] = "add" /\ of[t] = h)
  /\ Careful => ~misuse
  /\ \A h \in 1..max_handle_s :
       h \in lidars_s \/ lidar[h] = "deleted"
       \/ Cardinality({t \in Threads : at[t] \in {"add", "delete"} /\ of[t] = h}) = 1
=============================================================================
