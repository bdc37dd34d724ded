------------------------------ MODULE CpQueue ------------------------------
(***************************************************************************)
(* ConsumerProducer::CpQueue, the ring buffer behind both queues of a      *)
(* ConsumerProducer.  head_ = tail_ holds both for the empty and for the   *)
(* full ring; the flags empty_ and full_ tell the two apart.  It has no    *)
(* lock of its own: every caller holds mutex_.                             *)
(***************************************************************************)
EXTENDS Integers, Sequences

CONSTANTS
  Items,       (* the jobs                                                  *)
  QueueSize,   (* queue_size_                                               *)
  NoItem       (* a default-constructed Job                                 *)

(* The constructor does not check the size.  A size of 0 (AsyncLogManager  *)
(* and the read stage give their high-priority queue one) makes a ring     *)
(* that is never full and has no slot: it must never be added to.          *)
ASSUME QueueAssumption ==
  /\ QueueSize \in Nat \ {0}
  /\ NoItem \notin Items

VARIABLES head, tail, full, empty, count, jobs,
          popped   (* what the last pop or peek returned, and its *job      *)

ringVars == <<head, tail, full, empty, count, jobs, popped>>

Slots == 0..(QueueSize - 1)

RingInit ==
  /\ head = 0 /\ tail = 0
  /\ full = FALSE /\ empty = TRUE
  /\ count = 0
  /\ jobs = [s \in Slots |-> NoItem]
  /\ popped = [length |-> 0, item |-> NoItem]

(* s++; if (s == queue_size_) s = 0;                                       *)
Step(s) == IF s + 1 = QueueSize THEN 0 ELSE s + 1

TailMeetsHead(newTail) == newTail = head

(* add: add_job_do_ calls it only when is_full() is false.                 *)
Add(job) ==
  /\ ~full
  /\ jobs' = [jobs EXCEPT ![tail] = job]
  /\ tail' = Step(tail)
  /\ full' = IF TailMeetsHead(Step(tail)) THEN TRUE ELSE full
  /\ empty' = FALSE
  /\ count' = count + 1
  /\ UNCHANGED <<head, popped>>

(* pop on an empty ring returns 0 and leaves *job alone.                   *)
PopNothing ==
  /\ empty
  /\ popped' = [length |-> 0, item |-> NoItem]
  /\ UNCHANGED <<head, tail, full, empty, count, jobs>>

(* pop returns the length before the pop, and the job at head_.            *)
Answer == popped' = [length |-> count, item |-> jobs[head]]

Peek ==
  /\ ~empty
  /\ Answer
  /\ UNCHANGED <<head, tail, full, empty, count, jobs>>

(* Mutant of EmptyAfterPop: the flag stays as it is.                       *)
NeverEmpty(newHead) == empty

FullAfterPop == FALSE
EmptyAfterPop(newHead) == IF newHead = tail THEN TRUE ELSE empty

Pop ==
  /\ ~empty
  /\ Answer
  /\ head' = Step(head)
  /\ count' = count - 1
  /\ empty' = EmptyAfterPop(Step(head))
  /\ full' = FullAfterPop
  /\ UNCHANGED <<tail, jobs>>

RingNext == (\E j \in Items : Add(j)) \/ Pop \/ Peek \/ PopNothing

RingSpec == RingInit /\ [][RingNext]_ringVars

-----------------------------------------------------------------------------
(* Types, and the assertion count_ <= queue_size_ of add.                  *)
RingTypeOK ==
  /\ head \in Slots /\ tail \in Slots
  /\ full \in BOOLEAN /\ empty \in BOOLEAN
  /\ count \in 0..QueueSize
  /\ jobs \in [Slots -> Items \cup {NoItem}]
  /\ popped \in [length : 0..QueueSize, item : Items \cup {NoItem}]

(* The slot n places after head_.                                          *)
At(n) == IF head + n < QueueSize THEN head + n ELSE head + n - QueueSize

(* The redundant fields agree: pop and is_full go by the flags,            *)
(* queue_length by count_, and nothing ever compares them (the assertions  *)
(* in pop do so only when logging is allowed).                             *)
FieldsAgree ==
  /\ empty <=> count = 0
  /\ full <=> count = QueueSize
  /\ tail = IF count = QueueSize THEN head ELSE At(count)

(* What the ring holds, oldest first.                                      *)
Content == [n \in 1..count |-> jobs[At(n - 1)]]

Queue == INSTANCE Fifo WITH Bound <- QueueSize, items <- Content, answer <- popped

(* The ring is a bounded FIFO queue, through every wrap of its cursors.    *)
ImplementsFifo == Queue!FSpec
=============================================================================
