----------------------------- MODULE JobService -----------------------------
(***************************************************************************)
(* What the callers of a ConsumerProducer may rely on, without threads,    *)
(* queues or locks: a job that is handed over is consumed exactly once     *)
(* (processed, or dropped through the same callback, which frees its       *)
(* buffer), and when shutdown() has returned nothing is outstanding.       *)
(***************************************************************************)
EXTENDS Naturals

CONSTANT Jobs

VARIABLES
  outstanding,   (* handed over, not yet consumed                            *)
  consumptions,  (* how often each job was consumed                          *)
  open           (* FALSE once shutdown() has returned                       *)

svars == <<outstanding, consumptions, open>>

SInit ==
  /\ outstanding = {}
  /\ consumptions = [j \in Jobs |-> 0]
  /\ open = TRUE

HandOver(j) ==
  /\ open
  /\ j \notin outstanding /\ consumptions[j] = 0
  /\ outstanding' = outstanding \cup {j}
  /\ UNCHANGED <<consumptions, open>>

ConsumeJob(j) ==
  /\ open
  /\ j \in outstanding
  /\ outstanding' = outstanding \ {j}
  /\ consumptions' = [consumptions EXCEPT ![j] = @ + 1]
  /\ UNCHANGED open

Close ==
  /\ open /\ outstanding = {}
  /\ open' = FALSE
  /\ UNCHANGED <<outstanding, consumptions>>

SNext == Close \/ \E j \in Jobs : HandOver(j) \/ ConsumeJob(j)

SSpec == SInit /\ [][SNext]_svars
=============================================================================
