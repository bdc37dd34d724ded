------------------------------ MODULE LogStorm ------------------------------
(***************************************************************************)
(* The cache that thins repeated log messages                              *)
(* (utils/logstorm_controller.h, and its use in InnoLog::log_v).  A        *)
(* message has a key of thread, file and line; the cache holds a count for *)
(* the keys used last, and lets every message pass at first, then one of   *)
(* ten, one of a hundred, and so on.                                       *)
(*                                                                         *)
(* A node holds a key of limited length.  check() runs under mutex_, so a  *)
(* call is one step.  Times are left out: whether a node has been quiet    *)
(* long enough to start again is a choice.                                 *)
(***************************************************************************)
EXTENDS Integers, SequencesExt

CONSTANTS
  Nodes,                 (* the nodes of the cache; capacity_ is their number *)
  Keys,
  Cut(_),                (* what fits of a key into a node                   *)
  kNoRateControlCounts,
  kIncreaseTimes,
  MaxCount               (* bound: repetitions of a message                  *)

capacity == Cardinality(Nodes)
NodeKeys == {Cut(k) : k \in Keys}

StormAssumption ==
  /\ IsFiniteSet(Nodes) /\ Nodes # {}
  /\ kNoRateControlCounts \in Nat \ {0, 1} /\ kIncreaseTimes \in Nat \ {0, 1}
  /\ MaxCount \in Nat

VARIABLES
  key2node,         (* a function from the keys it holds                     *)
  list,             (* nodes in use, the one used last at the end            *)
  free,             (* pool_                                                 *)
  node,
  assert_failed,    (* pool_ was empty when a node was needed                *)
  (* History: a key that does not fit was used; what check() said last      *)
  was_cut, answer

stormVars == <<key2node, list, free, node, assert_failed, was_cut, answer>>

Fresh(name) == [key |-> name, target |-> kNoRateControlCounts, count |-> 0, interval |-> 1]

StormInit ==
  /\ key2node = <<>> /\ list = <<>> /\ free = SetToSeq(Nodes)
  /\ node \in [Nodes -> {Fresh(CHOOSE n \in NodeKeys : TRUE)}]
  /\ assert_failed = FALSE /\ was_cut = FALSE
  /\ answer = [valid |-> TRUE, count |-> 0, interval |-> 1]

Answer(valid, n) == answer' = [valid |-> valid, count |-> n.count, interval |-> n.interval]

(* The node goes to the end of the list.                                   *)
MadeLatest(x) == Append(RemoveAt(list, CHOOSE i \in DOMAIN list : list[i] = x), x)

(* A node that is known: counted, thinned and made the latest.             *)
(* Mutant of Thinned: the target is not raised with the interval.          *)
ThinnedOnce(n) ==
  IF n.count % n.interval = 0 /\ n.count >= n.target
  THEN [n EXCEPT !.interval = @ * kIncreaseTimes] ELSE n
Thinned(n) ==
  IF n.count % n.interval = 0 /\ n.count >= n.target
  THEN [n EXCEPT !.interval = @ * kIncreaseTimes, !.target = @ * kIncreaseTimes] ELSE n

Known(k) ==
  /\ k \in DOMAIN key2node
  /\ \E start_again \in BOOLEAN :
       LET x == key2node[k]
           n == [(IF start_again THEN Fresh(node[x].key) ELSE node[x]) EXCEPT !.count = @ + 1]
       IN  /\ n.count <= MaxCount
           /\ node' = [node EXCEPT ![x] = Thinned(n)]
           /\ Answer(n.count % n.interval = 0, n)
           /\ list' = MadeLatest(x)
  /\ UNCHANGED <<key2node, free, assert_failed>>

(* push(): the oldest node makes room while the map is full.  Only one can *)
(* be needed unless keys were cut: then a node of the list may have lost   *)
(* its entry, and giving it up leaves the map as large as it was.          *)
MapAfter(i) == LET gone == {node[list[j]].key : j \in 1..i}
               IN  [k \in DOMAIN key2node \ gone |-> key2node[k]]
Evicted == CHOOSE i \in 0 .. Len(list) :
             /\ Cardinality(DOMAIN MapAfter(i)) < capacity
             /\ \A j \in 0 .. (i - 1) : Cardinality(DOMAIN MapAfter(j)) >= capacity

(* Mutant of Pool: a node that is given up does not go back to the pool.   *)
PoolShrinks == IF Evicted = 0 THEN free ELSE SubSeq(list, 2, Evicted)
Pool        == free \o SubSeq(list, 1, Evicted)

Push(k) ==
  /\ k \notin DOMAIN key2node
  /\ was_cut' = (was_cut \/ Cut(k) # k)
  /\ IF Pool = <<>>
     THEN assert_failed' = TRUE /\ UNCHANGED <<key2node, list, free, node, answer>>
     ELSE LET x == Head(Pool)
              n == [Fresh(Cut(k)) EXCEPT !.count = 1]
          IN  /\ node' = [node EXCEPT ![x] = n]
              /\ list' = Append(SubSeq(list, Evicted + 1, Len(list)), x)
              /\ free' = Tail(Pool)
              /\ key2node' = [name \in DOMAIN MapAfter(Evicted) \cup {Cut(k)} |->
                                IF name = Cut(k) THEN x ELSE key2node[name]]
              /\ Answer(TRUE, n) /\ UNCHANGED assert_failed

Check(k) == Push(k) \/ (Known(k) /\ UNCHANGED was_cut)

StormNext == ~assert_failed /\ \E k \in Keys : Check(k)

StormSpec == StormInit /\ [][StormNext]_stormVars

-----------------------------------------------------------------------------
StormTypes ==
  /\ DOMAIN key2node \subseteq NodeKeys /\ \A k \in DOMAIN key2node : key2node[k] \in Nodes
  /\ {list, free} \subseteq Seq(Nodes)
  /\ {assert_failed, was_cut} \subseteq BOOLEAN

(* A node is in the list or in the pool, once.  As long as no key was cut  *)
(* the map has the nodes of the list under their keys and no others, so    *)
(* that a node is there when one is needed; a key that is cut is never     *)
(* found again, and each time it is used takes one more node.              *)
CacheIntact ==
  /\ ToSet(list) \cap ToSet(free) = {} /\ ToSet(list) \cup ToSet(free) = Nodes
  /\ Len(list) + Len(free) = capacity
  /\ \A k \in DOMAIN key2node : key2node[k] \in ToSet(list) /\ node[key2node[k]].key = k
  /\ ~was_cut => /\ {key2node[k] : k \in DOMAIN key2node} = ToSet(list)
                 /\ ~assert_failed

(* The interval of a message whose target was raised j times.              *)
Raised[j \in Nat] == IF j = 0 THEN 1 ELSE kIncreaseTimes * Raised[j - 1]

(* A message passes while it has not been repeated kNoRateControlCounts    *)
(* times, and after that at the multiples of the power of kIncreaseTimes   *)
(* that its count has passed.                                              *)
PassesThin ==
  LET Limit(j) == kNoRateControlCounts * Raised[j]
      c        == answer.count
  IN  \A j \in 0..c : (IF j = 0 THEN c >= 1 ELSE c > Limit(j - 1)) /\ c <= Limit(j)
                      => (answer.valid <=> c % Raised[j] = 0)

(* The filter for repeated messages keeps its nodes, and lets a message    *)
(* pass ever more rarely as it repeats.                                    *)
StormIsThinned == CacheIntact /\ PassesThin
=============================================================================
