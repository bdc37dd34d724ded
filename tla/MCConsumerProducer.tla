------------------------- MODULE MCConsumerProducer -------------------------
(* Instances of ConsumerProducer for TLC: the threads, jobs and sizes are  *)
(* given by each configuration; producers and jobs are interchangeable.    *)
EXTENDS ConsumerProducer, TLC

Symmetry == Permutations(Producers) \cup Permutations(Workers) \cup Permutations(Jobs)

(* The pool has been shut down: it stays so (this is not a deadlock).      *)
Terminated == ctl = "down" /\ UNCHANGED vars

MCNext == Next \/ Terminated
MCSpec == Init /\ [][MCNext]_vars
MCFairSpec == MCSpec /\ Fairness
=============================================================================
