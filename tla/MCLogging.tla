----------------------------- MODULE MCLogging -----------------------------
(***************************************************************************)
(* The parts of the logger in one run, chosen in the initial state: the    *)
(* asynchronous logger (AsyncLog) in four uses, the filter for repeated    *)
(* messages (LogStorm) and the log files (RotateLog).                      *)
(*                                                                         *)
(* Mixed: messages of every level, and the callback is replaced.  Large:   *)
(* messages of every level, too large for a buffer of the pool.  Burst:    *)
(* many plain messages between the start and the shutdown of the worker,   *)
(* on the number of buffers the constructor asks for (as in Mixed and      *)
(* Large) and one more: two for every logger but one.  Crowded: the same   *)
(* without that one.                                                       *)
(***************************************************************************)
EXTENDS AsyncLog, LogStorm, RotateLog

VARIABLE mode

mcVars == <<mode, vars, stormVars, rotateVars>>

(* A node holds keys up to 3; the others look the same in it.              *)
CutKey(k) == IF k > 3 THEN 0 ELSE k

Mixed    == INSTANCE AsyncLog WITH MaxLogs <- 3
Large    == INSTANCE AsyncLog WITH MaxLogs <- 3, LogSizes <- {TRUE}, MaxSets <- 0
Burst    == INSTANCE AsyncLog WITH LogLevels <- {"info"}, MaxSets <- 0,
                                   BufferCount <- BufferCount + 1
Crowded  == INSTANCE AsyncLog WITH LogLevels <- {"info"}, MaxSets <- 0, MaxLogs <- 5

ASSUME FilterAssumption == StormAssumption
ASSUME FilesAssumption  == RotateAssumption

Logger     == {"mixed", "large", "burst", "crowded"}
Async(A)   == mode \in Logger /\ A /\ UNCHANGED <<mode, stormVars, rotateVars>>
In(m, A)   == mode = m /\ Async(A)

WorkerIsUp == (logs' # logs => exist) /\ main' # "disable"

(* The logger is down or stays up, and nobody calls it any more; or a      *)
(* message waits for itself.  The other parts may stop anywhere.           *)
Terminated ==
  /\ \/ \A l \in Loggers : pc[l] = "idle"
     \/ pool_mutex # None
  /\ mode \in {"mixed", "large"} => main = "down"
  /\ UNCHANGED mcVars

MCInit ==
  /\ \/ mode \in {"mixed", "large", "crowded", "storm", "files"} /\ Init
     \/ mode = "burst" /\ Burst!Init
  /\ StormInit /\ RotateInit

MCNext ==
  \/ In("mixed", Mixed!Next) \/ In("large", Large!Next)
  \/ In("burst", Burst!Next /\ WorkerIsUp) \/ In("crowded", Crowded!Next /\ WorkerIsUp)
  \/ mode = "storm" /\ StormNext /\ UNCHANGED <<mode, vars, rotateVars>>
  \/ mode = "files" /\ RotateNext /\ UNCHANGED <<mode, vars, stormVars>>
  \/ Terminated

MCSpec == /\ MCInit /\ [][MCNext]_mcVars
          /\ \A l \in Loggers : WF_mcVars(Async(LoggerStep(l)))
          /\ WF_mcVars(Async(WorkerStep))
          /\ WF_mcVars(Async(MainStep))
          /\ WF_mcVars(mode \in {"mixed", "large"} /\ Async(Start \/ BeginShutdown))

(* No message finds the pool empty, if there are two buffers for every     *)
(* logger but one, and one for that one, besides the queue and the worker: *)
(* a logger holds two while it drops the head of the queue.  With the      *)
(* number the constructor asks for one can find it empty.                  *)
PoolSuffices == mode = "burst" => pool_mutex = None

(* Every call of the logger returns, and so does the shutdown of its       *)
(* worker, unless a message waits for the mutex it holds itself.           *)
CallsReturn == LogCallsReturn /\ ShutdownReturns
=============================================================================
