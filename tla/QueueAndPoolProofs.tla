------------------------- MODULE QueueAndPoolProofs -------------------------
(***************************************************************************)
(* The two containers every thread pool is made of, for every size: the    *)
(* ring buffer CpQueue is a bounded FIFO queue of jobs, and the free list  *)
(* of MemPoolManager stays intact whatever the order in which its users    *)
(* take and return units, and lends the unit that was returned longest     *)
(* ago.  Then the mapped memory the pools are made in: for every size of   *)
(* the map and of a page its ranges fill it, and each one in use is one    *)
(* caller's.                                                               *)
(***************************************************************************)
EXTENDS CpQueue, MemPool, MemAllocator, FiniteSetTheorems, SequenceTheorems, WellFoundedInduction,
        TLAPS

RingInv == RingTypeOK /\ FieldsAgree

(* The cursors never leave the ring.                                       *)
LEMMA StepInSlots ==
  ASSUME NEW s \in Slots
  PROVE  Step(s) \in Slots
  BY QueueAssumption DEF QueueAssumption, Step, Slots

(* A place counted from any slot and wrapped once is a slot.               *)
LEMMA Wraps ==
  ASSUME NEW s \in Slots, NEW k \in 0..(QueueSize - 1)
  PROVE  (IF s + k < QueueSize THEN s + k ELSE s + k - QueueSize) \in Slots
  BY QueueAssumption DEF QueueAssumption, Slots

(* The types, and the agreement of head_, tail_, count_, full_ and empty_, *)
(* are preserved by every operation of the ring.                           *)
THEOREM RingInvariant == RingSpec => []RingInv
  <1> USE QueueAssumption DEF QueueAssumption
  <1>1. RingInit => RingInv
    <2> SUFFICES ASSUME RingInit PROVE RingInv
      OBVIOUS
    <2>1. 0 \in Slots /\ 0 \in 0..QueueSize /\ QueueSize # 0
      BY DEF Slots
    <2>2. RingTypeOK
      BY <2>1 DEF RingInit, RingTypeOK
    <2>3. FieldsAgree
      BY <2>1 DEF RingInit, FieldsAgree, At
    <2> QED BY <2>2, <2>3 DEF RingInv
  <1>2. RingInv /\ [RingNext]_ringVars => RingInv'
    <2> SUFFICES ASSUME RingInv, [RingNext]_ringVars PROVE RingInv'
      OBVIOUS
    <2>1. ASSUME NEW j \in Items, Add(j) PROVE RingInv'
      <3>1. count < QueueSize /\ ~full
        BY <2>1 DEF Add, RingInv, FieldsAgree, RingTypeOK
      <3>2. RingTypeOK'
        <4>1. tail' \in Slots /\ head' \in Slots
          BY <2>1, StepInSlots DEF Add, RingInv, RingTypeOK
        <4>2. full' \in BOOLEAN /\ empty' \in BOOLEAN
          BY <2>1 DEF Add, RingInv, RingTypeOK
        <4>3. count' \in 0..QueueSize
          BY <2>1, <3>1 DEF Add, RingInv, RingTypeOK
        <4>4. jobs' \in [Slots -> Items \cup {NoItem}]
          BY <2>1 DEF Add, RingInv, RingTypeOK
        <4>5. popped' \in [length : 0..QueueSize, item : Items \cup {NoItem}]
          BY <2>1 DEF Add, RingInv, RingTypeOK
        <4> QED BY <4>1, <4>2, <4>3, <4>4, <4>5 DEF RingTypeOK
      <3>3. FieldsAgree'
        BY <2>1, <3>1
        DEF Add, RingInv, RingTypeOK, FieldsAgree, At, Step, Slots, TailMeetsHead
      <3> QED BY <3>2, <3>3 DEF RingInv
    <2>2. CASE Pop
      <3>1. count > 0
        BY <2>2 DEF Pop, RingInv, FieldsAgree, RingTypeOK
      <3>2. RingTypeOK'
        <4>1. tail' \in Slots /\ head' \in Slots
          BY <2>2, StepInSlots DEF Pop, RingInv, RingTypeOK
        <4>2. full' \in BOOLEAN /\ empty' \in BOOLEAN
          BY <2>2 DEF Pop, RingInv, RingTypeOK, EmptyAfterPop, FullAfterPop
        <4>3. count' \in 0..QueueSize
          BY <2>2, <3>1 DEF Pop, RingInv, RingTypeOK
        <4>4. jobs' \in [Slots -> Items \cup {NoItem}]
          BY <2>2 DEF Pop, RingInv, RingTypeOK
        <4>5. popped' \in [length : 0..QueueSize, item : Items \cup {NoItem}]
          BY <2>2 DEF Pop, Answer, RingInv, RingTypeOK
        <4> QED BY <4>1, <4>2, <4>3, <4>4, <4>5 DEF RingTypeOK
      <3>3. FieldsAgree'
        BY <2>2, <3>1
        DEF Pop, RingInv, RingTypeOK, FieldsAgree, At, Step, Slots, EmptyAfterPop, FullAfterPop
      <3> QED BY <3>2, <3>3 DEF RingInv
    <2>3. CASE Peek
      BY <2>3 DEF Peek, Answer, RingInv, RingTypeOK, FieldsAgree, At
    <2>4. CASE PopNothing
      BY <2>4 DEF PopNothing, RingInv, RingTypeOK, FieldsAgree, At
    <2>5. CASE UNCHANGED ringVars
      BY <2>5 DEF ringVars, RingInv, RingTypeOK, FieldsAgree, At
    <2> QED BY <2>1, <2>2, <2>3, <2>4, <2>5 DEF RingNext
  <1> QED BY <1>1, <1>2, PTL DEF RingSpec

-----------------------------------------------------------------------------
(* The content is a sequence of jobs, as long as count_ says.              *)
LEMMA ContentIsSeq ==
  ASSUME RingInv
  PROVE  /\ Content \in Seq(Items \cup {NoItem})
         /\ Len(Content) = count
         /\ \A n \in 1..count : Content[n] = jobs[At(n - 1)]
         /\ Content = <<>> <=> count = 0
  <1> USE QueueAssumption DEF QueueAssumption
  <1>1. count \in Nat
    BY DEF RingInv, RingTypeOK
  <1>2. \A n \in 1..count : jobs[At(n - 1)] \in Items \cup {NoItem}
    BY DEF RingInv, RingTypeOK, At, Slots
  <1>3. /\ Content \in Seq(Items \cup {NoItem})
        /\ Len(Content) = count
    <2> DEFINE S == Items \cup {NoItem}
               item(n) == jobs[At(n - 1)]
    <2>1. \A n \in 1..count : item(n) \in S
      BY <1>2
    <2> HIDE DEF S, item
    <2>2. [n \in 1..count |-> item(n)] \in Seq(S) /\ Len([n \in 1..count |-> item(n)]) = count
      BY <1>1, <2>1
    <2> QED BY <2>2 DEF Content, S, item
  <1>4. \A n \in 1..count : Content[n] = jobs[At(n - 1)]
    BY DEF Content
  <1>5. Content = <<>> <=> Len(Content) = 0
    BY <1>3, EmptySeq
  <1> QED BY <1>3, <1>4, <1>5

(* The content after an add is the old content with the job at its end.    *)
LEMMA AddAppends ==
  ASSUME RingInv, RingInv', NEW j \in Items, Add(j)
  PROVE  /\ Content' = Append(Content, j)
         /\ Len(Content) < QueueSize
  <1> USE QueueAssumption DEF QueueAssumption
  <1> DEFINE S == Items \cup {NoItem}
  <1>1. count \in Nat /\ count < QueueSize /\ count' = count + 1 /\ head' = head
    BY DEF Add, RingInv, FieldsAgree, RingTypeOK
  <1>2. /\ Content \in Seq(S) /\ Len(Content) = count
        /\ \A n \in 1..count : Content[n] = jobs[At(n - 1)]
    BY ContentIsSeq
  <1>3. /\ Content' \in Seq(S) /\ Len(Content') = count + 1
        /\ \A n \in 1..(count + 1) : Content'[n] = jobs'[At(n - 1)']
    <2>1. \A n \in 1..(count + 1) : jobs'[At(n - 1)'] \in S
      BY <1>1, RingInv' DEF RingInv, RingTypeOK, At, Slots
    <2>2. Content' = [n \in 1..(count + 1) |-> jobs'[At(n - 1)']]
      BY <1>1 DEF Content
    <2> QED BY <1>1, <2>1, <2>2
  <1>4. /\ Append(Content, j) \in Seq(S)
        /\ Len(Append(Content, j)) = count + 1
        /\ \A n \in 1..(count + 1) :
             Append(Content, j)[n] = IF n = count + 1 THEN j ELSE Content[n]
    BY <1>1, <1>2
  <1>5. ASSUME NEW n \in 1..(count + 1)
        PROVE  jobs'[At(n - 1)'] = IF n = count + 1 THEN j ELSE Content[n]
    <2>1. At(n - 1)' = At(n - 1) /\ At(n - 1) \in Slots
      BY <1>1, <1>5 DEF At, RingInv, RingTypeOK, Slots
    <2>2. CASE n = count + 1
      BY <1>1, <2>1, <2>2 DEF Add, RingInv, RingTypeOK, FieldsAgree, At, Slots
    <2>3. CASE n # count + 1
      <3>1. At(n - 1) # tail
        BY <1>1, <1>5, <2>3 DEF At, RingInv, RingTypeOK, FieldsAgree, Slots
      <3>2. n \in 1..count
        BY <1>1, <1>5, <2>3
      <3> QED BY <1>2, <2>1, <2>3, <3>1, <3>2 DEF Add, RingInv, RingTypeOK
    <2> QED BY <2>2, <2>3
  <1>6. \A n \in 1..Len(Content') : Content'[n] = Append(Content, j)[n]
    BY <1>3, <1>4, <1>5
  <1> HIDE DEF S
  <1>7. Content' = Append(Content, j)
    BY <1>3, <1>4, <1>6, SeqEqual
  <1> QED BY <1>1, <1>2, <1>7

(* A pop hands out the oldest job and leaves the others in their order.    *)
LEMMA PopTakesHead ==
  ASSUME RingInv, RingInv', Pop
  PROVE  /\ Content # <<>>
         /\ jobs[head] = Head(Content)
         /\ Len(Content) = count
         /\ Content' = Tail(Content)
  <1> USE QueueAssumption DEF QueueAssumption
  <1> DEFINE S == Items \cup {NoItem}
  <1>1. count \in Nat /\ count > 0 /\ count' = count - 1 /\ jobs' = jobs /\ head \in Slots
    BY DEF Pop, RingInv, FieldsAgree, RingTypeOK
  <1>2. /\ Content \in Seq(S) /\ Len(Content) = count /\ Content # <<>>
        /\ \A n \in 1..count : Content[n] = jobs[At(n - 1)]
    BY <1>1, ContentIsSeq
  <1>3. /\ Content' \in Seq(S) /\ Len(Content') = count - 1
        /\ \A n \in 1..(count - 1) : Content'[n] = jobs[At(n - 1)']
    <2>1. \A n \in 1..(count - 1) : jobs'[At(n - 1)'] \in S
      <3>1. jobs' \in [Slots -> S] /\ head' \in Slots /\ count <= QueueSize
        BY <1>1, RingInv, RingInv' DEF RingInv, RingTypeOK
      <3>2. \A n \in 1..(count - 1) : At(n - 1)' \in Slots
        <4>1. \A k \in 0..(QueueSize - 1) : At(k)' \in Slots
          BY <3>1, Wraps DEF At
        <4>2. \A n \in 1..(count - 1) : n - 1 \in 0..(QueueSize - 1)
          BY <1>1, <3>1
        <4> QED BY <4>1, <4>2
      <3> QED BY <3>1, <3>2
    <2>2. Content' = [n \in 1..(count - 1) |-> jobs'[At(n - 1)']]
      BY <1>1 DEF Content
    <2> QED BY <1>1, <2>1, <2>2
  <1>4. Content[1] = jobs[head] /\ Head(Content) = Content[1]
    BY <1>1, <1>2 DEF At, Slots
  <1>5. \A n \in 1..(count - 1) : At(n - 1)' = At((n + 1) - 1)
    BY <1>1 DEF Pop, At, Step, RingInv, RingTypeOK, Slots
  <1>6. \A n \in 1..(count - 1) : Content'[n] = Content[n + 1]
    <2> TAKE n \in 1..(count - 1)
    <2>1. n + 1 \in 1..count
      BY <1>1
    <2>2. Content'[n] = jobs[At(n - 1)'] /\ Content[n + 1] = jobs[At((n + 1) - 1)]
      BY <1>2, <1>3, <2>1
    <2>3. At(n - 1)' = At((n + 1) - 1)
      BY <1>5
    <2> QED BY <2>2, <2>3
  <1> HIDE DEF S
  <1>7. /\ Tail(Content) \in Seq(S)
        /\ Len(Tail(Content)) = count - 1
        /\ \A n \in 1..(count - 1) : Tail(Content)[n] = Content[n + 1]
    BY <1>1, <1>2, HeadTailProperties
  <1>8. Content' = Tail(Content)
    BY <1>3, <1>6, <1>7, SeqEqual
  <1> QED BY <1>2, <1>4, <1>8

(* Looking at the ring does not change what it holds.                      *)
LEMMA ContentUnchanged ==
  ASSUME UNCHANGED <<head, count, jobs>>
  PROVE  Content' = Content
  BY DEF Content, At

(* The ring buffer implements a bounded FIFO queue.                        *)
THEOREM RingIsFifo == RingSpec => ImplementsFifo
  <1>1. RingInit => Queue!FInit
    BY DEF RingInit, Queue!FInit, Content
  <1>2. RingInv /\ RingInv' /\ [RingNext]_ringVars => [Queue!FNext]_(Queue!fvars)
    <2> SUFFICES ASSUME RingInv, RingInv', [RingNext]_ringVars
                 PROVE  Queue!FNext \/ UNCHANGED Queue!fvars
      OBVIOUS
    <2>1. ASSUME NEW j \in Items, Add(j) PROVE Queue!FNext
      <3>1. Queue!Put(j)
        BY <2>1, AddAppends DEF Queue!Put, Add
      <3> QED BY <3>1 DEF Queue!FNext
    <2>2. CASE Pop
      <3>1. Queue!Take
        BY <2>2, PopTakesHead DEF Queue!Take, Queue!Front, Pop, Answer
      <3> QED BY <3>1 DEF Queue!FNext
    <2>3. CASE Peek
      <3>1. Content' = Content
        BY <2>3, ContentUnchanged DEF Peek
      <3>2. count \in Nat /\ count > 0 /\ At(0) = head
        BY <2>3, QueueAssumption
        DEF QueueAssumption, Peek, RingInv, FieldsAgree, RingTypeOK, At, Slots
      <3>3. Content # <<>> /\ Len(Content) = count /\ Head(Content) = jobs[head]
        BY <3>2, ContentIsSeq
      <3>4. Queue!Look
        BY <2>3, <3>1, <3>3 DEF Queue!Look, Queue!Front, Peek, Answer
      <3> QED BY <3>4 DEF Queue!FNext
    <2>4. CASE PopNothing
      <3>1. Content' = Content
        BY <2>4, ContentUnchanged DEF PopNothing
      <3>2. Content = <<>>
        BY <2>4, ContentIsSeq DEF PopNothing, RingInv, FieldsAgree
      <3>3. Queue!Nothing
        BY <2>4, <3>1, <3>2 DEF Queue!Nothing, PopNothing
      <3> QED BY <3>3 DEF Queue!FNext
    <2>5. CASE UNCHANGED ringVars
      BY <2>5, ContentUnchanged DEF ringVars, Queue!fvars
    <2> QED BY <2>1, <2>2, <2>3, <2>4, <2>5 DEF RingNext
  <1> QED BY <1>1, <1>2, RingInvariant, PTL DEF RingSpec, ImplementsFifo, Queue!FSpec

-----------------------------------------------------------------------------
(* MemPool.  FreeListIntact is not inductive alone: free() appends a unit  *)
(* without clearing its link, so it relies on alloc having cleared it when *)
(* the unit was lent (LentUnlinked); and free_count_ stays below           *)
(* unit_count_ because it counts the units not in use (Counted).           *)
Idle == {u \in Units : ~in_use[u]}

LentUnlinked == \A u \in Units : in_use[u] => next_free[u] = Nil
Counted      == free_count = Cardinality(Idle)

IInv == PoolTypeOK /\ LentUnlinked /\ Counted /\ FreeListIntact

(* No set of units, the idle ones included, is larger than the pool.       *)
LEMMA UnitsAreFinite ==
  ASSUME NEW S \in SUBSET Units
  PROVE  IsFiniteSet(S) /\ Cardinality(S) \in 0..UnitCount
<1>1. IsFiniteSet(Units) /\ Cardinality(Units) = UnitCount
  <2>1. UnitCount \in Nat /\ UnitCount - 1 \in Int /\ 0 \in Int
    BY UnitAssumption
  <2>2. IsFiniteSet(0..(UnitCount - 1))
    BY <2>1, FS_Interval
  <2>3. Cardinality(0..(UnitCount - 1)) = IF 0 > UnitCount - 1 THEN 0 ELSE (UnitCount - 1) - 0 + 1
    BY <2>1, FS_Interval
  <2> QED  BY <2>1, <2>2, <2>3, UnitAssumption DEF Units
<1>2. IsFiniteSet(S) /\ Cardinality(S) =< UnitCount
  BY <1>1, FS_Subset
<1>3. Cardinality(S) \in Nat
  BY <1>2, FS_CardinalityType
<1> QED  BY <1>2, <1>3, UnitAssumption

-----------------------------------------------------------------------------
LEMMA InitIntact == PoolInit => IInv
<1> SUFFICES ASSUME PoolInit PROVE IInv
  OBVIOUS
<1> USE UnitAssumption DEF Units, Nil
<1>1. PoolTypeOK
  BY DEF PoolInit, PoolTypeOK, Links
<1>2. LentUnlinked
  BY DEF PoolInit, LentUnlinked
<1>3. Counted
  <2>1. Idle = Units
    BY DEF PoolInit, Idle
  <2>2. Cardinality(0..(UnitCount - 1)) = UnitCount
    <3>1. 0 \in Int /\ UnitCount - 1 \in Int
      OBVIOUS
    <3>2. Cardinality(0..(UnitCount - 1)) = IF 0 > UnitCount - 1 THEN 0 ELSE (UnitCount - 1) - 0 + 1
      BY <3>1, FS_Interval
    <3> QED  BY <3>2
  <2> QED  BY <2>1, <2>2 DEF PoolInit, Counted
<1>4. FreeListIntact
  <2> DEFINE c == [i \in 1..free_count |-> i - 1]
  <2>1. c \in [1..free_count -> Units] /\ DOMAIN c = 1..UnitCount /\ free_count = UnitCount
    BY DEF PoolInit
  <2>2. IsFreeList(c)
    <3>1. \A u \in Units : u + 1 \in DOMAIN c /\ c[u + 1] = u
      BY <2>1
    <3>2. \A u \in Units : in_use[u] <=> \A i \in DOMAIN c : c[i] # u
      BY <3>1 DEF PoolInit
    <3> QED  BY <2>1, <3>2 DEF PoolInit, IsFreeList, Links
  <2> QED  BY <2>1, <2>2 DEF FreeListIntact
<1> QED  BY <1>1, <1>2, <1>3, <1>4 DEF IInv

-----------------------------------------------------------------------------
(* alloc takes the first unit of the list: the rest is the list after it.  *)
LEMMA AllocIntact == IInv /\ Alloc => IInv'
<1> SUFFICES ASSUME IInv, Alloc PROVE IInv'
  OBVIOUS
<1> USE UnitAssumption DEF Nil
<1>t. PoolTypeOK
  BY DEF IInv
<1>0. PICK c \in [1..free_count -> Units] : IsFreeList(c)
  BY DEF IInv, FreeListIntact
<1>n. PICK n \in 0..UnitCount : n = free_count
  BY <1>t DEF PoolTypeOK
<1> DEFINE f == first_free
           d == [i \in 1..(n - 1) |-> c[i + 1]]
<1>1. free_count \in 1..UnitCount /\ f \in Units /\ f = c[1]
  BY <1>0, <1>t DEF Alloc, PoolTypeOK, IsFreeList
<1>2. \A u \in Units : u # f => in_use'[u] = in_use[u] /\ next_free'[u] = next_free[u]
  BY <1>1, <1>t DEF Alloc, PoolTypeOK, CutOff
<1>3. in_use'[f] = TRUE /\ next_free'[f] = Nil /\ ~in_use[f]
  BY <1>0, <1>1, <1>t DEF Alloc, PoolTypeOK, CutOff, IsFreeList
<1>4. PoolTypeOK'
  BY <1>1, <1>t DEF Alloc, PoolTypeOK, CutOff, LastAfter
<1>5. LentUnlinked'
  BY <1>2, <1>3, <1>t DEF IInv, LentUnlinked, PoolTypeOK
<1>6. Counted'
  <2>1. Idle' = Idle \ {f} /\ f \in Idle
    BY <1>1, <1>2, <1>3, <1>t DEF Idle, PoolTypeOK
  <2>2. IsFiniteSet(Idle) /\ Cardinality(Idle) \in Nat
    <3>1. Idle \in SUBSET Units
      BY DEF Idle
    <3> QED  BY <3>1, UnitsAreFinite
  <2>3. Cardinality(Idle \ {f}) = Cardinality(Idle) - 1
    BY <2>1, <2>2, FS_RemoveElement
  <2> QED  BY <2>1, <2>2, <2>3 DEF IInv, Counted, Alloc
<1>7. FreeListIntact'
  <2>1. free_count' = free_count - 1 /\ d \in [1..free_count' -> Units] /\ DOMAIN d = 1..free_count'
    BY <1>n, <1>1 DEF Alloc
  <2>2. \A i \in DOMAIN d : d[i] = c[i + 1] /\ i + 1 \in DOMAIN c /\ d[i] \in Units /\ d[i] # f
    BY <1>0, <1>n, <1>1, <2>1 DEF IsFreeList
  <2>3. \A i, j \in DOMAIN d : d[i] = d[j] => i = j
    BY <1>0, <1>1, <2>1, <2>2 DEF IsFreeList
  <2>4. ASSUME NEW u \in Units
        PROVE  in_use'[u] <=> \A i \in DOMAIN d : d[i] # u
    <3>1. CASE u = f
      BY <3>1, <1>3, <2>2
    <3>2. CASE u # f
      <4>1. \A i \in DOMAIN c : c[i] = u => i # 1 /\ i - 1 \in DOMAIN d /\ d[i - 1] = c[i]
        BY <3>2, <1>n, <1>1, <2>1
      <4>2. in_use[u] <=> \A i \in DOMAIN c : c[i] # u
        BY <1>0 DEF IsFreeList
      <4>3. in_use'[u] = in_use[u]
        BY <3>2, <1>2
      <4> HIDE DEF d
      <4>4. (\E i \in DOMAIN d : d[i] = u) <=> \E i \in DOMAIN c : c[i] = u
        BY <4>1, <2>2
      <4> QED  BY <4>2, <4>3, <4>4
    <3> QED  BY <3>1, <3>2
  <2>5. ASSUME NEW i \in 1..(free_count' - 1) PROVE next_free'[d[i]] = d[i + 1]
    <3>1. i \in DOMAIN d /\ i + 1 \in DOMAIN d /\ i + 1 \in 1..free_count - 1
      BY <1>1, <2>1
    <3>2. d[i] = c[i + 1] /\ d[i] \in Units /\ d[i] # f /\ d[i + 1] = c[i + 1 + 1]
      BY <2>2, <3>1
    <3>3. next_free[c[i + 1]] = c[i + 1 + 1]
      BY <1>0, <3>1 DEF IsFreeList
    <3> QED  BY <1>2, <3>2, <3>3
  <2>6. free_count' > 0 => /\ first_free' = d[1] /\ last_free' = d[free_count']
                           /\ next_free'[d[free_count']] = Nil
    BY <1>0, <1>1, <1>2, <2>1, <2>2 DEF IsFreeList, Alloc, LastAfter
  <2>7. free_count' = 0 => first_free' = Nil /\ last_free' = Nil
    BY <1>0, <1>1, <2>1 DEF IsFreeList, Alloc, LastAfter
  <2>8. IsFreeList(d)'
    BY <2>3, <2>4, <2>5, <2>6, <2>7 DEF IsFreeList
  <2> QED  BY <2>1, <2>8 DEF FreeListIntact
<1> QED  BY <1>4, <1>5, <1>6, <1>7 DEF IInv

(* free appends the unit returned, whose link alloc has cleared.           *)
LEMMA FreeIntact == ASSUME IInv, NEW u \in Units, Free(u) PROVE IInv'
<1> USE UnitAssumption DEF Nil
<1>t. PoolTypeOK
  BY DEF IInv
<1>0. PICK c \in [1..free_count -> Units] : IsFreeList(c)
  BY DEF IInv, FreeListIntact
<1>n. PICK n \in 0..UnitCount : n = free_count
  BY <1>t DEF PoolTypeOK
<1> DEFINE d == [i \in 1..(n + 1) |-> IF i = n + 1 THEN u ELSE c[i]]
<1>1. n \in 0..UnitCount /\ in_use[u] /\ next_free[u] = Nil /\ \A i \in 1..n : c[i] # u
  BY <1>0, <1>n, <1>t DEF Free, PoolTypeOK, IsFreeList, IInv, LentUnlinked
<1>2. \A w \in Units : w # u => in_use'[w] = in_use[w]
  BY <1>t DEF Free, PoolTypeOK
<1>3. in_use'[u] = FALSE
  BY <1>t DEF Free, PoolTypeOK
<1>4. last_free = Nil <=> n = 0
  BY <1>0, <1>n, <1>1, <1>t DEF IsFreeList, PoolTypeOK, Units
<1>6. Counted' /\ n + 1 =< UnitCount
  <2>1. Idle' = Idle \cup {u} /\ u \notin Idle
    BY <1>1, <1>2, <1>3, <1>t DEF Idle, PoolTypeOK
  <2>2. Idle \in SUBSET Units /\ Idle \cup {u} \in SUBSET Units
    BY DEF Idle
  <2>3. IsFiniteSet(Idle) /\ Cardinality(Idle \cup {u}) \in 0..UnitCount
    BY <2>2, UnitsAreFinite
  <2>4. Cardinality(Idle \cup {u}) = Cardinality(Idle) + 1
    BY <2>1, <2>3, FS_AddElement
  <2> QED  BY <2>1, <2>3, <2>4, <1>n, <1>1 DEF IInv, Counted, Free
<1>7. PoolTypeOK'
  BY <1>n, <1>1, <1>6, <1>t DEF Free, PoolTypeOK, LinkedToTail
<1>8. LentUnlinked'
  <2>1. last_free # Nil => ~in_use[last_free] /\ last_free \in Units
    BY <1>0, <1>n, <1>1, <1>4, <1>t DEF IsFreeList, PoolTypeOK
  <2> QED  BY <1>2, <1>3, <2>1, <1>t DEF IInv, LentUnlinked, Free, LinkedToTail, PoolTypeOK
<1>9. FreeListIntact'
  <2>1. free_count' = n + 1 /\ d \in [1..free_count' -> Units] /\ DOMAIN d = 1..(n + 1)
    BY <1>n, <1>1 DEF Free
  <2>2. \A i \in 1..n : d[i] = c[i] /\ d[i] \in Units
    BY <1>n, <1>1
  <2>3. d[n + 1] = u
    BY <1>1
  <2> HIDE DEF d
  <2>4. \A i, j \in DOMAIN d : d[i] = d[j] => i = j
    BY <1>0, <1>n, <1>1, <2>1, <2>2, <2>3 DEF IsFreeList
  <2>5. ASSUME NEW w \in Units
        PROVE  in_use'[w] <=> \A i \in DOMAIN d : d[i] # w
    <3>1. CASE w = u
      BY <3>1, <1>1, <1>3, <2>1, <2>3
    <3>2. CASE w # u
      <4>1. in_use[w] <=> \A i \in 1..n : c[i] # w
        BY <1>0, <1>n DEF IsFreeList
      <4> QED  BY <3>2, <4>1, <1>1, <1>2, <2>1, <2>2, <2>3
    <3> QED  BY <3>1, <3>2
  <2>6. \A i \in 1..n : next_free'[d[i]] = d[i + 1]
    <3>1. CASE n = 0
      BY <3>1
    <3>2. CASE n > 0
      <4>1. last_free = c[n] /\ next_free' = [next_free EXCEPT ![c[n]] = u]
        BY <3>2, <1>0, <1>n, <1>1, <1>4 DEF IsFreeList, Free, LinkedToTail
      <4>2. next_free'[c[n]] = u
        BY <4>1, <3>2, <1>n, <1>1, <1>t DEF PoolTypeOK
      <4>3. \A i \in 1..(n - 1) : c[i] # c[n] /\ next_free'[c[i]] = c[i + 1]
        BY <4>1, <3>2, <1>0, <1>n, <1>1, <1>t DEF PoolTypeOK, IsFreeList
      <4> QED  BY <4>2, <4>3, <2>2, <2>3, <1>1
    <3> QED  BY <3>1, <3>2, <1>1
  <2>7. first_free' = d[1] /\ last_free' = d[n + 1] /\ next_free'[u] = Nil
    <3>1. CASE n = 0
      BY <3>1, <1>1, <1>4, <2>3 DEF Free
    <3>2. CASE n > 0
      <4>1. last_free = c[n] /\ c[n] # u /\ first_free = c[1]
        BY <3>2, <1>0, <1>n, <1>1 DEF IsFreeList
      <4> QED  BY <3>2, <4>1, <1>1, <1>4, <1>t, <2>2, <2>3 DEF Free, LinkedToTail, PoolTypeOK
    <3> QED  BY <3>1, <3>2, <1>1
  <2>8. IsFreeList(d)'
    <3>1. \A i \in 1..(free_count' - 1) : next_free'[d[i]] = d[i + 1]
      BY <2>1, <2>6, <1>1
    <3>2. free_count' > 0 /\ d[free_count'] = u
      BY <2>1, <2>3, <1>1
    <3> QED  BY <2>1, <2>3, <2>4, <2>5, <2>7, <3>1, <3>2 DEF IsFreeList
  <2> QED  BY <2>1, <2>8 DEF FreeListIntact
<1> QED  BY <1>6, <1>7, <1>8, <1>9 DEF IInv

LEMMA RefusalIntact == IInv /\ UNCHANGED <<in_use, next_free, first_free, last_free, free_count>>
                            /\ lent_unit' \in Units \cup {Nil} => IInv'
<1> SUFFICES ASSUME IInv, lent_unit' \in Units \cup {Nil},
                    UNCHANGED <<in_use, next_free, first_free, last_free, free_count>>
             PROVE  IInv'
  OBVIOUS
<1>1. PoolTypeOK' /\ LentUnlinked' /\ Counted'
  BY DEF IInv, PoolTypeOK, LentUnlinked, Counted, Idle
<1>2. FreeListIntact'
  BY DEF IInv, FreeListIntact, IsFreeList
<1> QED  BY <1>1, <1>2 DEF IInv

LEMMA IntactStep == IInv /\ [PoolNext]_poolVars => IInv'
<1> SUFFICES ASSUME IInv, [PoolNext]_poolVars PROVE IInv'
  OBVIOUS
<1>1. CASE Alloc
  BY <1>1, AllocIntact
<1>2. CASE AllocTooBig
  BY <1>2, RefusalIntact DEF AllocTooBig, Nil
<1>3. CASE AllocExhausted
  BY <1>3, RefusalIntact DEF AllocExhausted, Nil
<1>4. CASE \E u \in Units : Free(u)
  BY <1>4, FreeIntact
<1>5. CASE UNCHANGED poolVars
  BY <1>5, RefusalIntact DEF poolVars, IInv, PoolTypeOK
<1> QED  BY <1>1, <1>2, <1>3, <1>4, <1>5 DEF PoolNext

-----------------------------------------------------------------------------
(* For every unit count, no order of alloc and free calls breaks the list: *)
(* no unit is lost or lent twice, and no panic of alloc or free can fire.  *)
THEOREM FreeListNeverBreaks == PoolSpec => []FreeListIntact
<1>1. IInv => FreeListIntact
  BY DEF IInv
<1> QED  BY InitIntact, IntactStep, <1>1, PTL DEF PoolSpec

-----------------------------------------------------------------------------
(* The refinement of UnitPool.  What a recursive function yields cannot be *)
(* proved by the induction theorems of the library here; a least           *)
(* counterexample takes their place.                                       *)
LEMMA LeastNumber ==
  ASSUME NEW T, T \subseteq Nat, T # {}
  PROVE  \E n \in T : \A m \in T : n <= m
<1> DEFINE R == OpToRel(<, Nat)
<1>1. IsWellFoundedOn(R, Nat)
  BY NatLessThanWellFounded, Zenon
<1>2. \E x \in T : \A y \in T : ~ (<<y, x>> \in R)
  <2> HIDE DEF R
  <2> QED  BY <1>1, WFMin
<1>3. \A x, y \in Nat : y < x => <<y, x>> \in R
  BY DEF OpToRel
<1> HIDE DEF R
<1>4. PICK x \in T : \A y \in T : ~ (<<y, x>> \in R)
  BY <1>2
<1>5. \A y \in T : x <= y
  <2> SUFFICES ASSUME NEW y \in T PROVE x <= y
    OBVIOUS
  <2>1. x \in Nat /\ y \in Nat
    OBVIOUS
  <2>2. ~ (y < x)
    BY <2>1, <1>3, <1>4
  <2> QED  BY <2>1, <2>2
<1> QED  BY <1>5

(* c is a list of m units threaded from first by next.                     *)
IsThread(first, next, m, c) ==
  /\ c \in [1..m -> Units]
  /\ \A i \in 1..(m - 1) : next[c[i]] = c[i + 1]
  /\ m > 0 => first = c[1] /\ next[c[m]] = Nil
  /\ m = 0 => first = Nil

(* Following the links yields the thread itself: it satisfies the          *)
(* recursion, and no least index differs.                                  *)
LEMMA FollowThread ==
  ASSUME NEW first, NEW next, NEW m \in 0..UnitCount, NEW c, IsThread(first, next, m, c)
  PROVE  \A n \in 1..m : Follow(first, next)[n] = c[n]
<1> USE UnitAssumption
<1> DEFINE K == 1..(UnitCount + 1)
           g == [k \in K |-> IF k <= m THEN c[k] ELSE Nil]
           Unfold(f) == [k \in K |-> IF k = 1 THEN first
                                     ELSE IF f[k - 1] = Nil THEN Nil ELSE next[f[k - 1]]]
           at == CHOOSE f : f = Unfold(f)
<1>1. \A k \in 1..m : c[k] \in Units /\ c[k] # Nil
  BY DEF IsThread, Units, Nil
<1>2. g = Unfold(g)
  <2>1. ASSUME NEW k \in K
        PROVE  g[k] = IF k = 1 THEN first ELSE IF g[k - 1] = Nil THEN Nil ELSE next[g[k - 1]]
    <3>1. CASE k = 1
      BY <3>1 DEF IsThread
    <3>2. CASE k # 1
      <4>1. k - 1 \in K
        BY <3>2
      <4>2. CASE k <= m
        <5>1. g[k - 1] = c[k - 1] /\ g[k - 1] # Nil /\ g[k] = c[k] /\ k - 1 \in 1..(m - 1)
          BY <1>1, <3>2, <4>1, <4>2
        <5>2. next[c[k - 1]] = c[(k - 1) + 1]
          BY <5>1 DEF IsThread
        <5>3. (k - 1) + 1 = k
          OBVIOUS
        <5> QED  BY <3>2, <5>1, <5>2, <5>3
      <4>3. CASE k = m + 1
        <5>1. g[k - 1] = c[m] /\ g[k - 1] # Nil /\ g[k] = Nil /\ next[c[m]] = Nil
          BY <1>1, <3>2, <4>1, <4>3 DEF IsThread
        <5> QED  BY <3>2, <5>1
      <4>4. CASE k > m + 1
        BY <3>2, <4>1, <4>4
      <4> QED  BY <4>2, <4>3, <4>4
    <3> QED  BY <3>1, <3>2
  <2> QED  BY <2>1
<1>3. at = Unfold(at)
  <2> HIDE DEF g, Unfold
  <2> QED  BY <1>2
<1>4. Follow(first, next) = at
  BY DEF Follow
<1>5. \A k \in K : at[k] = IF k = 1 THEN first ELSE IF at[k - 1] = Nil THEN Nil ELSE next[at[k - 1]]
  <2> HIDE DEF at
  <2> QED  BY <1>3
<1>6. \A k \in K : g[k] = IF k = 1 THEN first ELSE IF g[k - 1] = Nil THEN Nil ELSE next[g[k - 1]]
  <2> HIDE DEF g
  <2> QED  BY <1>2
<1>7. \A k \in K : at[k] = g[k]
  <2> HIDE DEF at, g
  <2> DEFINE T == {k \in K : at[k] # g[k]}
  <2> SUFFICES ASSUME T # {} PROVE FALSE
    OBVIOUS
  <2>1. T \subseteq Nat
    OBVIOUS
  <2>2. PICK k \in T : \A l \in T : k <= l
    <3> HIDE DEF T
    <3> QED  BY <2>1, LeastNumber
  <2>3. k # 1
    BY <1>5, <1>6
  <2>4. k - 1 \in K /\ k - 1 \notin T
    BY <2>2, <2>3
  <2>5. at[k - 1] = g[k - 1]
    BY <2>4
  <2> QED  BY <1>5, <1>6, <2>3, <2>5
<1> QED  BY <1>4, <1>7

IsOrder(c) == c \in [1..free_count -> Units] /\ IsFreeList(c)

LEMMA OrderIsList ==
  ASSUME PoolTypeOK, NEW c, IsOrder(c)
  PROVE  FreeOrder = c
<1>1. IsThread(first_free, next_free, free_count, c)
  BY DEF IsOrder, IsFreeList, IsThread
<1>2. free_count \in 0..UnitCount
  BY DEF PoolTypeOK
<1>3. \A n \in 1..free_count : FreeOrder[n] = c[n]
  BY <1>1, <1>2, FollowThread DEF FreeOrder
<1> QED  BY <1>3 DEF FreeOrder, IsOrder

LEMMA OrderOfList ==
  ASSUME IInv
  PROVE  IsOrder(FreeOrder)
<1>1. PICK c \in [1..free_count -> Units] : IsFreeList(c)
  BY DEF IInv, FreeListIntact
<1> QED  BY <1>1, OrderIsList DEF IInv, IsOrder

(* A function on 1..n is a sequence.                                       *)
LEMMA OrderIsSeq ==
  ASSUME NEW n \in Nat, NEW c \in [1..n -> Units]
  PROVE  c \in Seq(Units) /\ Len(c) = n
<1>1. c \in Seq(Units)
  BY SeqDef
<1>2. Len(c) \in Nat /\ 1..Len(c) = 1..n
  BY <1>1, LenProperties
<1> QED  BY <1>1, <1>2

LEMMA AllocLends == IInv /\ IInv' /\ Alloc => Pool!Lend
<1> SUFFICES ASSUME IInv, IInv', Alloc PROVE Pool!Lend
  OBVIOUS
<1> USE UnitAssumption
<1> DEFINE c == FreeOrder
           n == free_count
           d == [i \in 1..(n - 1) |-> c[i + 1]]
<1>0. PoolTypeOK /\ PoolTypeOK' /\ c \in [1..n -> Units] /\ IsFreeList(c)
  BY OrderOfList DEF IInv, IsOrder
<1>1. n \in 1..UnitCount /\ n - 1 \in 0..UnitCount /\ first_free = c[1] /\ first_free \in Units
  BY <1>0 DEF Alloc, PoolTypeOK, IsFreeList
<1>2. c \in Seq(Units) /\ Len(c) = n /\ c # <<>> /\ Head(c) = c[1]
  BY <1>0, <1>1, OrderIsSeq
<1> HIDE DEF c
<1>3. free_count' = n - 1 /\ d \in [1..(n - 1) -> Units]
  BY <1>0, <1>1 DEF Alloc
<1>4. \A i \in 1..(n - 1) : d[i] = c[i + 1] /\ i + 1 \in 1..n /\ d[i] \in Units /\ d[i] # first_free
  BY <1>0, <1>1, SMTT(30) DEF IsFreeList
<1>5. /\ \A u \in Units : u # first_free => next_free'[u] = next_free[u]
      /\ first_free' = next_free[c[1]]
  BY <1>0, <1>1 DEF Alloc, PoolTypeOK, CutOff
<1>6. IsThread(first_free', next_free', n - 1, d)
  <2>1. \A i \in 1..(n - 2) : next_free'[d[i]] = d[i + 1]
    <3> SUFFICES ASSUME NEW i \in 1..(n - 2) PROVE next_free'[d[i]] = d[i + 1]
      OBVIOUS
    <3>1. i \in 1..(n - 1) /\ i + 1 \in 1..(n - 1)
      BY <1>1
    <3>2. next_free[c[i + 1]] = c[(i + 1) + 1]
      BY <3>1, <1>0 DEF IsFreeList, c
    <3> QED  BY <3>1, <3>2, <1>4, <1>5
  <2>2. n - 1 > 0 => first_free' = d[1] /\ next_free'[d[n - 1]] = Nil
    <3> SUFFICES ASSUME n - 1 > 0 PROVE first_free' = d[1] /\ next_free'[d[n - 1]] = Nil
      OBVIOUS
    <3>1. 1 \in 1..(n - 1) /\ n - 1 \in 1..(n - 1) /\ (n - 1) + 1 = n
      BY <1>1
    <3>2. next_free[c[1]] = c[2] /\ next_free[c[n]] = Nil
      BY <3>1, <1>0, <1>1 DEF IsFreeList
    <3> QED  BY <3>1, <3>2, <1>4, <1>5
  <2>3. n - 1 = 0 => first_free' = Nil
    BY <1>0, <1>1, <1>5 DEF IsFreeList
  <2>4. (n - 1) - 1 = n - 2
    BY <1>1
  <2> HIDE DEF d
  <2> QED  BY <1>3, <2>1, <2>2, <2>3, <2>4 DEF IsThread
<1>7. FreeOrder' = d
  <2>1. \A i \in 1..(n - 1) : Follow(first_free', next_free')[i] = d[i]
    BY <1>1, <1>6, FollowThread
  <2> QED  BY <1>3, <2>1 DEF FreeOrder
<1>8. d = Tail(c)
  <2>1. d \in Seq(Units) /\ Len(d) = n - 1
    BY <1>1, <1>3, OrderIsSeq
  <2>2. Tail(c) \in Seq(Units) /\ Len(Tail(c)) = n - 1 /\ \A i \in 1..(n - 1) : Tail(c)[i] = c[i + 1]
    BY <1>2, HeadTailProperties
  <2> HIDE DEF d
  <2> QED  BY <2>1, <2>2, <1>4, SeqEqual
<1>9. {u \in Units : in_use'[u]} = {u \in Units : in_use[u]} \cup {first_free}
  BY <1>0, <1>1 DEF Alloc, PoolTypeOK
<1> QED  BY <1>1, <1>2, <1>7, <1>8, <1>9 DEF Pool!Lend, Alloc, c

LEMMA FreeReturns ==
  ASSUME IInv, IInv', NEW u \in Units, Free(u)
  PROVE  Pool!Return(u)
<1> USE UnitAssumption
<1> DEFINE c == FreeOrder
           n == free_count
           d == Append(c, u)
<1>0. PoolTypeOK /\ PoolTypeOK' /\ c \in [1..n -> Units] /\ IsFreeList(c)
  BY OrderOfList DEF IInv, IsOrder
<1>1. n \in 0..UnitCount /\ n + 1 \in 0..UnitCount /\ free_count' = n + 1
  BY <1>0 DEF Free, PoolTypeOK
<1>2. c \in Seq(Units) /\ Len(c) = n
  BY <1>0, <1>1, OrderIsSeq
<1>3. in_use[u] /\ next_free[u] = Nil /\ \A i \in 1..n : c[i] # u /\ c[i] \in Units
  BY <1>0 DEF Free, IsFreeList, IInv, LentUnlinked
<1> HIDE DEF c
<1>4. /\ d \in Seq(Units) /\ Len(d) = n + 1 /\ d[n + 1] = u
      /\ \A i \in 1..n : d[i] = c[i]
      /\ d \in [1..(n + 1) -> Units]
  <2>1. d \in Seq(Units) /\ Len(d) = n + 1 /\ d[n + 1] = u /\ \A i \in 1..n : d[i] = c[i]
    BY <1>2, AppendProperties
  <2> QED  BY <2>1, LenProperties
<1> HIDE DEF d
<1>5. IsThread(first_free', next_free', n + 1, d)
  <2>1. CASE n = 0
    <3>1. last_free = Nil
      BY <2>1, <1>0 DEF IsFreeList
    <3>2. first_free' = u /\ next_free' = next_free
      BY <3>1 DEF Free
    <3> QED  BY <2>1, <3>2, <1>3, <1>4 DEF IsThread
  <2>2. CASE n > 0
    <3>1. last_free = c[n] /\ first_free = c[1] /\ n \in 1..n /\ 1 \in 1..n /\ last_free # Nil
      BY <2>2, <1>0, <1>1, <1>3 DEF IsFreeList, Units, Nil
    <3>2. first_free' = c[1] /\ next_free' = [next_free EXCEPT ![c[n]] = u]
      BY <3>1 DEF Free, LinkedToTail
    <3>3. next_free'[c[n]] = u /\ \A w \in Units : w # c[n] => next_free'[w] = next_free[w]
      BY <3>1, <3>2, <1>0, <1>3 DEF PoolTypeOK
    <3>4. next_free'[u] = Nil
      BY <3>1, <3>3, <1>3
    <3>5. \A i \in 1..n : next_free'[d[i]] = d[i + 1]
      <4> SUFFICES ASSUME NEW i \in 1..n PROVE next_free'[d[i]] = d[i + 1]
        OBVIOUS
      <4>1. CASE i = n
        BY <4>1, <3>1, <3>3, <1>4
      <4>2. CASE i # n
        <5>1. i \in 1..(n - 1) /\ i + 1 \in 1..n
          BY <4>2, <1>1
        <5>2. next_free[c[i]] = c[i + 1] /\ c[i] # c[n]
          BY <4>2, <5>1, <3>1, <1>0 DEF IsFreeList
        <5> QED  BY <5>1, <5>2, <3>3, <1>3, <1>4
      <4> QED  BY <4>1, <4>2
    <3>6. (n + 1) - 1 = n /\ n + 1 > 0
      BY <1>1
    <3> QED  BY <3>1, <3>2, <3>4, <3>5, <3>6, <1>4 DEF IsThread
  <2> QED  BY <2>1, <2>2, <1>1
<1>6. FreeOrder' = d
  <2>1. \A i \in 1..(n + 1) : Follow(first_free', next_free')[i] = d[i]
    BY <1>1, <1>5, FollowThread
  <2> QED  BY <1>1, <1>4, <2>1 DEF FreeOrder
<1>7. {w \in Units : in_use'[w]} = {w \in Units : in_use[w]} \ {u}
  BY <1>0 DEF Free, PoolTypeOK
<1> QED  BY <1>3, <1>6, <1>7 DEF Pool!Return, Free, c, d

LEMMA InitIsPool == PoolInit => Pool!PInit
<1> SUFFICES ASSUME PoolInit PROVE Pool!PInit
  OBVIOUS
<1> USE UnitAssumption
<1> DEFINE c == [n \in 1..UnitCount |-> n - 1]
<1>1. IsThread(first_free, next_free, UnitCount, c)
  BY DEF PoolInit, IsThread, Links, Units, Nil
<1>2. \A n \in 1..UnitCount : Follow(first_free, next_free)[n] = c[n]
  BY <1>1, FollowThread
<1>3. FreeOrder = c
  BY <1>2 DEF FreeOrder, PoolInit
<1> QED  BY <1>3 DEF Pool!PInit, PoolInit

(* alloc and free, panics included, implement a queue of units: the unit   *)
(* lent is the one returned longest ago, each is taken back once, and a    *)
(* refusal changes nothing.                                                *)
THEOREM PoolIsQueueOfUnits == PoolSpec => ImplementsPool
<1>1. IInv /\ [PoolNext]_poolVars => IInv' /\ [Pool!PNext]_(Pool!pvars)
  <2> SUFFICES ASSUME IInv, [PoolNext]_poolVars PROVE IInv' /\ [Pool!PNext]_(Pool!pvars)
    OBVIOUS
  <2>1. IInv'
    BY IntactStep
  <2>2. CASE Alloc
    BY <2>1, <2>2, AllocLends DEF Pool!PNext
  <2>3. CASE AllocTooBig \/ AllocExhausted
    BY <2>1, <2>3 DEF AllocTooBig, AllocExhausted, Pool!PNext, Pool!Refuse, FreeOrder
  <2>4. ASSUME NEW u \in Units, Free(u) PROVE [Pool!PNext]_(Pool!pvars)
    BY <2>1, <2>4, FreeReturns DEF Pool!PNext
  <2>5. CASE UNCHANGED poolVars
    <3>1. FreeOrder' = FreeOrder
      BY <2>5 DEF poolVars, FreeOrder
    <3> QED  BY <2>1, <2>5, <3>1 DEF poolVars, Pool!pvars
  <2> QED  BY <2>1, <2>2, <2>3, <2>4, <2>5 DEF PoolNext
<1> QED  BY InitIntact, InitIsPool, <1>1, PTL DEF PoolSpec, ImplementsPool, Pool!PSpec

-----------------------------------------------------------------------------
(* The ranges of the mapped memory.  Live are the ranges that are not      *)
(* deleted.                                                                *)
Live(rs) == {r \in Ranges : rs[r] # None}

(* The list, said of each range and those beside it: it holds some of the  *)
(* map, begins where the one before it ends, and links to both.            *)
Placed(rs, r) ==
  /\ rs[r].end = rs[r].offset + rs[r].size - 1 /\ rs[r].size > 0 /\ rs[r].end < MapSize
  /\ rs[r].size >= page_size \/ (rs[r].pre = None /\ rs[r].next = None)

FollowsIts(rs, first, r) ==
  IF rs[r].pre = None THEN r = first /\ rs[r].offset = 0
  ELSE /\ rs[r].pre \in Live(rs) /\ rs[rs[r].pre].next = r
       /\ rs[r].offset = rs[rs[r].pre].end + 1

LeadsTo(rs, r) ==
  IF rs[r].next = None THEN rs[r].end = MapSize - 1
  ELSE rs[r].next \in Live(rs) /\ rs[rs[r].next].pre = r

Apart(rs, r, q) == rs[r].end < rs[q].offset \/ rs[q].end < rs[r].offset

Linked(rs, first) ==
  /\ rs \in [Ranges -> Fields \cup {None}]
  /\ IF first = None THEN Live(rs) = {} ELSE first \in Live(rs) /\ rs[first].pre = None
  /\ \A r \in Live(rs) : Placed(rs, r) /\ FollowsIts(rs, first, r) /\ LeadsTo(rs, r)
  /\ \A r, q \in Live(rs) : r # q => Apart(rs, r, q)

(* No two neighbours are free, but for ranges in X and the one before.     *)
Separated(rs, X) ==
  \A r \in Live(rs) \ X : rs[r].pre # None => rs[r].is_dirty \/ rs[rs[r].pre].is_dirty

(* The ranges in use are the buffers callers hold.                         *)
Mapped(bs) == {b \in bs : b.home = "map"}
InUse(rs) == {r \in Live(rs) : rs[r].is_dirty}

HeldIn(rs, bs) ==
  /\ {rs[r].offset : r \in InUse(rs)} = {b.offset : b \in Mapped(bs)}
  /\ \A b \in Mapped(bs), r \in Live(rs) : rs[r].offset = b.offset => rs[r].size >= b.size
  /\ \A b, c \in Mapped(bs) : b.offset = c.offset => b = c

MemoryInv ==
  /\ AllocatorTypeOK /\ Linked(range, range_list) /\ Separated(range, {})
  /\ is_live_direct_memory_mode <=> range_list # None
  /\ HeldIn(range, buffers)

-----------------------------------------------------------------------------
(* What is in a live range.                                                *)
LEMMA FieldsOf ==
  ASSUME AllocatorAssumption, NEW rs \in [Ranges -> Fields \cup {None}], NEW r \in Live(rs)
  PROVE  /\ r \in Ranges /\ rs[r] \in Fields
         /\ rs[r].offset \in 0..MapSize /\ rs[r].end \in Int /\ rs[r].size \in 0..MapSize
         /\ rs[r].is_dirty \in BOOLEAN
         /\ rs[r].next \in Ranges \cup {None} /\ rs[r].pre \in Ranges \cup {None}
  <1>1. r \in Ranges /\ rs[r] \in Fields
    BY DEF Live
  <1> QED BY <1>1 DEF Fields

(* f walks along the links, K places from the first.                       *)
IsWalk(f, K, rs, first) ==
  f = [n \in 1 .. K |-> IF n = 1 THEN first
                        ELSE IF f[n - 1] = None THEN None ELSE rs[f[n - 1]].next]

LEMMA WalkExists ==
  ASSUME NEW K \in Nat, NEW rs, NEW first
  PROVE  \E f : IsWalk(f, K, rs, first)
  <1> DEFINE P(k) == \E f : IsWalk(f, k, rs, first)
             T    == {k \in Nat : ~P(k)}
  <1>1. P(0)
    <2> DEFINE f == [n \in 1 .. 0 |-> None]
    <2>1. f = [n \in 1 .. 0 |-> IF n = 1 THEN first
                                ELSE IF f[n - 1] = None THEN None ELSE rs[f[n - 1]].next]
      OBVIOUS
    <2> HIDE DEF f
    <2>2. IsWalk(f, 0, rs, first)
      BY <2>1, Zenon DEF IsWalk
    <2> QED BY <2>2
  <1>2. ASSUME NEW k \in Nat, P(k) PROVE P(k + 1)
    <2>1. PICK f : IsWalk(f, k, rs, first)
      BY <1>2
    <2> DEFINE g == [n \in 1 .. k + 1 |->
                       IF n <= k THEN f[n]
                       ELSE IF k = 0 THEN first
                       ELSE IF f[k] = None THEN None ELSE rs[f[k]].next]
    <2>2. \A n \in 1 .. k : f[n] = IF n = 1 THEN first
                                   ELSE IF f[n - 1] = None THEN None ELSE rs[f[n - 1]].next
      BY <2>1 DEF IsWalk
    <2>3. /\ \A n \in 1 .. k : g[n] = f[n]
          /\ g[k + 1] = IF k = 0 THEN first ELSE IF f[k] = None THEN None ELSE rs[f[k]].next
          /\ g = [n \in 1 .. k + 1 |-> g[n]]
      OBVIOUS
    <2> HIDE DEF g
    <2>4. \A n \in 1 .. k + 1 : g[n] = IF n = 1 THEN first
                                       ELSE IF g[n - 1] = None THEN None ELSE rs[g[n - 1]].next
      <3> SUFFICES ASSUME NEW n \in 1 .. k + 1
                   PROVE  g[n] = IF n = 1 THEN first
                                 ELSE IF g[n - 1] = None THEN None ELSE rs[g[n - 1]].next
        OBVIOUS
      <3>1. CASE n = 1
        BY <3>1, <2>2, <2>3
      <3>2. CASE n # 1 /\ n <= k
        <4>1. n \in 1 .. k /\ n - 1 \in 1 .. k
          BY <3>2
        <4>2. g[n] = f[n] /\ g[n - 1] = f[n - 1]
          BY <4>1, <2>3
        <4> QED BY <3>2, <4>1, <4>2, <2>2
      <3>3. CASE n # 1 /\ n = k + 1
        <4>1. k # 0 /\ n - 1 = k /\ k \in 1 .. k
          BY <3>3
        <4>2. g[k] = f[k]
          BY <4>1, <2>3
        <4> QED BY <3>3, <4>1, <4>2, <2>3
      <3> QED BY <3>1, <3>2, <3>3
    <2>5. g = [n \in 1 .. k + 1 |-> IF n = 1 THEN first
                                    ELSE IF g[n - 1] = None THEN None ELSE rs[g[n - 1]].next]
      BY <2>3, <2>4
    <2>6. IsWalk(g, k + 1, rs, first)
      BY <2>5, Zenon DEF IsWalk
    <2> QED BY <2>6
  <1> HIDE DEF P
  <1>3. T = {}
    <2> SUFFICES ASSUME T # {} PROVE FALSE
      OBVIOUS
    <2>1. PICK k \in T : \A l \in T : k <= l
      BY LeastNumber
    <2>2. k # 0 /\ k \in Nat
      BY <1>1
    <2>3. k - 1 \in Nat /\ k - 1 \notin T /\ k = (k - 1) + 1
      BY <2>1, <2>2
    <2> QED BY <1>2, <2>1, <2>3
  <1> QED BY <1>3 DEF P

(* The recursion of nth has a solution, so that nth is one.                *)
LEMMA NthIs ==
  ASSUME AllocatorAssumption
  PROVE  /\ Cardinality(Ranges) \in Nat /\ DOMAIN nth = 1 .. Cardinality(Ranges) + 1
         /\ nth[1] = range_list
         /\ \A n \in 2 .. Cardinality(Ranges) + 1 :
              nth[n] = IF nth[n - 1] = None THEN None ELSE range[nth[n - 1]].next
  <1> DEFINE K == Cardinality(Ranges) + 1
  <1>1. Cardinality(Ranges) \in Nat /\ K \in Nat
    BY FS_CardinalityType DEF AllocatorAssumption
  <1>2. \E f : IsWalk(f, K, range, range_list)
    <2> HIDE DEF K
    <2> QED BY <1>1, WalkExists
  <1> DEFINE walk == CHOOSE f : IsWalk(f, K, range, range_list)
  <1>3. IsWalk(walk, K, range, range_list)
    BY <1>2
  <1>4. nth = walk
    BY DEF nth, IsWalk
  <1> HIDE DEF walk
  <1>5. nth = [n \in 1 .. K |-> IF n = 1 THEN range_list
                                ELSE IF nth[n - 1] = None THEN None ELSE range[nth[n - 1]].next]
    BY <1>3, <1>4, Zenon DEF IsWalk
  <1>6. /\ DOMAIN nth = 1 .. K
        /\ \A n \in 1 .. K : nth[n] = IF n = 1 THEN range_list
                                ELSE IF nth[n - 1] = None THEN None ELSE range[nth[n - 1]].next
    BY <1>5
  <1>7. 1 \in 1 .. K /\ \A n \in 2 .. K : n \in 1 .. K /\ n # 1
    BY <1>1
  <1> QED BY <1>1, <1>6, <1>7

(* The walk stays in the list, and on the map goes up.                     *)
LEMMA WalkAscends ==
  ASSUME AllocatorAssumption, Linked(range, range_list)
  PROVE  /\ \A n \in 1 .. Cardinality(Ranges) + 1 : nth[n] \in Live(range) \cup {None}
         /\ \A n \in 2 .. Cardinality(Ranges) + 1 : nth[n] # None =>
              /\ nth[n - 1] \in Live(range) /\ nth[n] = range[nth[n - 1]].next
              /\ range[nth[n]].pre = nth[n - 1]
              /\ range[nth[n]].offset = range[nth[n - 1]].end + 1
         /\ \A m, n \in 1 .. Cardinality(Ranges) + 1 : m < n /\ nth[n] # None =>
              nth[m] # None /\ range[nth[m]].offset < range[nth[n]].offset
  <1> DEFINE K == Cardinality(Ranges) + 1
  <1>0. /\ Cardinality(Ranges) \in Nat /\ K \in Nat /\ nth[1] = range_list
        /\ \A n \in 2 .. K : nth[n] = IF nth[n - 1] = None THEN None ELSE range[nth[n - 1]].next
    BY NthIs
  <1>a. None \notin Live(range)
    BY DEF AllocatorAssumption, Live
  <1>1. \A n \in 1 .. K : nth[n] \in Live(range) \cup {None}
    <2> DEFINE T == {n \in 1 .. K : nth[n] \notin Live(range) \cup {None}}
    <2> SUFFICES ASSUME T # {} PROVE FALSE
      OBVIOUS
    <2>1. T \subseteq Nat
      OBVIOUS
    <2>2. PICK n \in T : \A m \in T : n <= m
      <3> HIDE DEF T
      <3> QED BY <2>1, LeastNumber
    <2>3. n # 1
      BY <1>0 DEF Linked
    <2>4. n - 1 \in 1 .. K /\ n - 1 \notin T /\ n \in 2 .. K
      <3>1. n \in 1 .. K /\ K \in Nat
        BY <1>0
      <3>2. n - 1 \in 1 .. K /\ n \in 2 .. K /\ ~(n <= n - 1)
        BY <2>3, <3>1
      <3> HIDE DEF T
      <3> QED BY <2>2, <3>2
    <2>5. nth[n - 1] \in Live(range) \cup {None}
      BY <2>4
    <2>6. nth[n - 1] # None /\ nth[n] = range[nth[n - 1]].next
      BY <1>0, <2>4
    <2>7. LeadsTo(range, nth[n - 1])
      BY <2>5, <2>6 DEF Linked
    <2> QED BY <2>6, <2>7 DEF LeadsTo
  <1> HIDE DEF K
  <1>2. ASSUME NEW n \in 2 .. K, nth[n] # None
        PROVE  /\ nth[n - 1] \in Live(range) /\ nth[n] \in Live(range) /\ nth[n] = range[nth[n - 1]].next
               /\ range[nth[n]].pre = nth[n - 1]
               /\ range[nth[n]].offset = range[nth[n - 1]].end + 1
    <2>1. nth[n - 1] # None /\ nth[n] = range[nth[n - 1]].next
      BY <1>0, <1>2
    <2>2. n - 1 \in 1 .. K /\ n \in 1 .. K
      BY <1>0
    <2>3. nth[n - 1] \in Live(range) /\ nth[n] \in Live(range)
      BY <1>1, <1>2, <2>1, <2>2
    <2>4. LeadsTo(range, nth[n - 1]) /\ FollowsIts(range, range_list, nth[n])
      BY <2>3 DEF Linked
    <2>5. range[nth[n]].pre = nth[n - 1]
      BY <1>2, <2>1, <2>4 DEF LeadsTo
    <2> QED BY <2>1, <2>3, <2>4, <2>5 DEF FollowsIts
  <1>3. ASSUME NEW r \in Live(range)
        PROVE  /\ range[r].offset \in Nat /\ range[r].end \in Int /\ range[r].offset < range[r].end + 1
    <2>1. Placed(range, r) /\ range \in [Ranges -> Fields \cup {None}]
      BY DEF Linked
    <2>2. range[r].offset \in 0..MapSize /\ range[r].end \in Int /\ range[r].size \in 0..MapSize
      BY <2>1, FieldsOf
    <2>3. MapSize \in Nat
      BY DEF AllocatorAssumption
    <2>4. range[r].end = range[r].offset + range[r].size - 1 /\ range[r].size > 0
      BY <2>1 DEF Placed
    <2> QED BY <2>2, <2>3, <2>4
  <1>4. ASSUME NEW m \in 1 .. K, NEW n \in 1 .. K, m < n, nth[n] # None
        PROVE  nth[m] # None /\ range[nth[m]].offset < range[nth[n]].offset
    <2> DEFINE Below(k) == nth[k] # None /\ range[nth[k]].offset < range[nth[n]].offset
               T == {k \in 1 .. K : k < n /\ \A l \in k .. n - 1 : Below(l)}
               U == {j \in Nat : j < n /\ n - j \in 1 .. K /\ j > 0 /\ ~Below(n - j)}
    <2> SUFFICES ASSUME ~Below(m) PROVE FALSE
      BY <1>1, <1>a
    <2>1. n - m \in U
      <3>1. n - (n - m) = m /\ n - m \in Nat /\ n - m < n /\ n - m > 0
        BY <1>4, <1>0
      <3> QED BY <3>1
    <2>2. U \subseteq Nat
      OBVIOUS
    <2>3. PICK j \in U : \A i \in U : j <= i
      <3> HIDE DEF U
      <3> QED BY <2>1, <2>2, LeastNumber
    <2>4. j \in Nat /\ j < n /\ n - j \in 1 .. K /\ j > 0 /\ ~Below(n - j)
      BY <2>3
    <2> DEFINE k == n - j + 1
    <2>5. k \in 2 .. K /\ k - 1 = n - j /\ k <= n /\ k \in Int
      BY <2>4, <1>0
    <2>6. nth[k] # None /\ nth[k] \in Live(range)
          /\ (k = n \/ range[nth[k]].offset < range[nth[n]].offset)
      <3>1. CASE k = n
        BY <3>1, <1>1, <1>4
      <3>2. CASE k # n
        <4>1. j - 1 \in Nat /\ j - 1 < n /\ n - (j - 1) = k /\ j - 1 > 0 /\ k \in 1 .. K
          BY <2>4, <2>5, <3>2
        <4>2. j - 1 \notin U
          BY <2>3, <2>4
        <4>3. Below(k)
          BY <4>1, <4>2
        <4> QED BY <4>1, <4>3, <1>1, <1>a
      <3> QED BY <3>1, <3>2
    <2> HIDE DEF k, U
    <2>7. /\ nth[k - 1] \in Live(range) /\ range[nth[k]].offset = range[nth[k - 1]].end + 1
      BY <1>2, <2>5, <2>6
    <2>8. range[nth[k - 1]].offset < range[nth[k]].offset
      BY <1>3, <2>7
    <2>9. nth[n] \in Live(range)
      BY <1>1, <1>4
    <2>10. range[nth[k - 1]].offset \in Nat /\ range[nth[k]].offset \in Nat /\ range[nth[n]].offset \in Nat
      BY <1>3, <2>6, <2>7, <2>9
    <2>11. range[nth[k - 1]].offset < range[nth[n]].offset
      <3>1. CASE k = n
        BY <2>8, <3>1
      <3>2. CASE range[nth[k]].offset < range[nth[n]].offset
        BY <2>8, <2>10, <3>2
      <3> QED BY <2>6, <3>1, <3>2
    <2>12. Below(k - 1)
      BY <1>a, <2>7, <2>11
    <2> QED BY <2>4, <2>5, <2>12
  <1> QED BY <1>1, <1>2, <1>4 DEF K

(* It ends, and passes each range that is not deleted.                     *)
LEMMA WalkVisitsAll ==
  ASSUME AllocatorAssumption, Linked(range, range_list)
  PROVE  /\ Positions \subseteq 1 .. Cardinality(Ranges) /\ {nth[n] : n \in Positions} = Live(range)
         /\ \A n \in Positions : n = 1 => nth[n] = range_list
         /\ \A n \in Positions : n # 1 =>
              /\ n - 1 \in Positions /\ range[nth[n]].pre = nth[n - 1]
              /\ range[nth[n]].offset = range[nth[n - 1]].end + 1
         /\ \A n \in Positions : n + 1 \notin Positions => range[nth[n]].next = None
  <1> DEFINE N == Cardinality(Ranges)
  <1>0. /\ N \in Nat /\ N + 1 \in Nat /\ nth[1] = range_list /\ DOMAIN nth = 1 .. N + 1
        /\ \A n \in 2 .. N + 1 : nth[n] = IF nth[n - 1] = None THEN None ELSE range[nth[n - 1]].next
    BY NthIs
  <1>a. None \notin Live(range) /\ IsFiniteSet(Ranges)
    BY DEF AllocatorAssumption, Live
  <1>1. \A n \in 1 .. N + 1 : nth[n] \in Live(range) \cup {None}
    BY WalkAscends
  <1>2. \A n \in 2 .. N + 1 : nth[n] # None =>
          /\ nth[n - 1] \in Live(range) /\ nth[n] = range[nth[n - 1]].next
          /\ range[nth[n]].pre = nth[n - 1] /\ range[nth[n]].offset = range[nth[n - 1]].end + 1
    BY WalkAscends
  <1>3. \A m, n \in 1 .. N + 1 : m < n /\ nth[n] # None =>
          nth[m] # None /\ range[nth[m]].offset < range[nth[n]].offset
    BY WalkAscends
  <1>4. ASSUME NEW r \in Live(range)
        PROVE  /\ range[r].offset \in Nat /\ range[r].end \in Int /\ range[r].offset < range[r].end + 1
    <2>1. Placed(range, r) /\ range \in [Ranges -> Fields \cup {None}]
      BY DEF Linked
    <2>2. range[r].offset \in 0..MapSize /\ range[r].end \in Int /\ range[r].size \in 0..MapSize
      BY <2>1, FieldsOf
    <2>3. MapSize \in Nat
      BY DEF AllocatorAssumption
    <2>4. range[r].end = range[r].offset + range[r].size - 1 /\ range[r].size > 0
      BY <2>1 DEF Placed
    <2> QED BY <2>2, <2>3, <2>4
  <1>5. nth[N + 1] = None
    <2> SUFFICES ASSUME nth[N + 1] # None PROVE FALSE
      OBVIOUS
    <2>1. \A n \in 1 .. N + 1 : nth[n] \in Ranges
      <3> SUFFICES ASSUME NEW n \in 1 .. N + 1 PROVE nth[n] # None
        BY <1>1 DEF Live
      <3>1. N + 1 \in 1 .. N + 1 /\ (n = N + 1 \/ n < N + 1)
        BY <1>0
      <3> QED BY <1>3, <3>1
    <2> DEFINE at == [n \in 1 .. N + 1 |-> nth[n]]
    <2>2. at \in [1 .. N + 1 -> Ranges]
      BY <2>1
    <2>3. \A m, n \in 1 .. N + 1 : at[m] = at[n] => m = n
      <3> SUFFICES ASSUME NEW m \in 1 .. N + 1, NEW n \in 1 .. N + 1, nth[m] = nth[n], m < n PROVE FALSE
        BY <1>0
      <3>1. nth[m] \in Live(range) /\ nth[n] # None
        BY <2>1, <1>1, <1>a DEF AllocatorAssumption
      <3>2. range[nth[m]].offset < range[nth[n]].offset
        BY <1>3, <3>1
      <3> QED BY <1>4, <3>1, <3>2
    <2> HIDE DEF at
    <2>4. at \in Injection(1 .. N + 1, Ranges)
      BY <2>2, <2>3 DEF Injection, IsInjective
    <2>5. Cardinality(1 .. N + 1) <= N
      BY <1>a, <2>4, FS_Injection
    <2>6. Cardinality(1 .. N + 1) = N + 1
      <3>1. \A b \in Int : Cardinality(1 .. b) = IF 1 > b THEN 0 ELSE b - 1 + 1
        <4> SUFFICES ASSUME NEW b \in Int PROVE Cardinality(1 .. b) = IF 1 > b THEN 0 ELSE b - 1 + 1
          OBVIOUS
        <4>1. 1 \in Int
          OBVIOUS
        <4> QED BY <4>1, FS_Interval
      <3>2. N + 1 \in Int /\ ~(1 > N + 1)
        BY <1>0
      <3>3. Cardinality(1 .. N + 1) = (N + 1) - 1 + 1
        <4> HIDE DEF N
        <4> QED BY <3>1, <3>2
      <3> QED BY <1>0, <3>3
    <2> QED BY <1>0, <2>5, <2>6
  <1> HIDE DEF N
  <1>6. \A n : n \in Positions <=> n \in 1 .. N /\ nth[n] # None
    BY <1>0, <1>5 DEF Positions
  <1>7. ASSUME NEW r \in Live(range) PROVE \E n \in Positions : nth[n] = r
    <2> DEFINE Missed == {q \in Live(range) : ~ \E n \in Positions : nth[n] = q}
               T == {range[q].offset : q \in Missed}
    <2> SUFFICES ASSUME Missed # {} PROVE FALSE
      OBVIOUS
    <2>1. T \subseteq Nat /\ T # {}
      BY <1>4
    <2>2. PICK t \in T : \A s \in T : t <= s
      <3> HIDE DEF T
      <3> QED BY <2>1, LeastNumber
    <2>3. PICK q \in Missed : t = range[q].offset
      OBVIOUS
    <2>4. q \in Live(range) /\ FollowsIts(range, range_list, q) /\ ~ \E n \in Positions : nth[n] = q
      BY DEF Linked
    <2>5. CASE range[q].pre = None
      <3>1. q = range_list /\ q # None /\ q \in Ranges
        BY <1>a, <2>4, <2>5 DEF FollowsIts, Live
      <3>2. nth[1] = q /\ 1 \in 1 .. N + 1
        BY <1>0, <3>1
      <3>3. 1 \in 1 .. N
        BY <1>0, <1>5, <3>1, <3>2
      <3> QED BY <1>6, <2>4, <3>1, <3>2, <3>3
    <2>6. CASE range[q].pre # None
      <3> DEFINE p == range[q].pre
      <3>1. p \in Live(range) /\ range[p].next = q /\ range[q].offset = range[p].end + 1
        BY <2>4, <2>6 DEF FollowsIts
      <3> HIDE DEF p
      <3>2. range[p].offset < range[q].offset /\ range[p].offset \in Nat /\ range[q].offset \in Nat
        BY <1>4, <2>4, <3>1
      <3>3. p \notin Missed
        BY <2>2, <2>3, <3>2
      <3>4. PICK n \in Positions : nth[n] = p
        BY <3>1, <3>3
      <3>5. n \in 1 .. N /\ n + 1 \in 2 .. N + 1 /\ (n + 1) - 1 = n /\ nth[n] # None
        BY <1>0, <1>6
      <3>6. nth[n + 1] = q /\ q # None
        BY <1>0, <1>a, <2>4, <3>1, <3>4, <3>5
      <3>7. n + 1 \in 1 .. N
        <4>1. n + 1 # N + 1
          BY <1>5, <3>6, Zenon
        <4> QED BY <1>0, <3>5, <4>1
      <3> QED BY <1>6, <2>4, <3>6, <3>7
    <2> QED BY <2>5, <2>6
  <1>8. {nth[n] : n \in Positions} = Live(range)
    <2>1. \A n \in Positions : nth[n] \in Live(range)
      BY <1>0, <1>1, <1>6
    <2> QED BY <1>7, <2>1
  <1>9. ASSUME NEW n \in Positions, n # 1
        PROVE  /\ n - 1 \in Positions /\ range[nth[n]].pre = nth[n - 1]
               /\ range[nth[n]].offset = range[nth[n - 1]].end + 1
    <2>1. n \in 2 .. N + 1 /\ nth[n] # None /\ n - 1 \in 1 .. N
      BY <1>0, <1>6, <1>9
    <2> QED BY <1>2, <1>6, <1>a, <2>1
  <1>10. ASSUME NEW n \in Positions, n + 1 \notin Positions PROVE range[nth[n]].next = None
    <2>1. n + 1 \in 2 .. N + 1 /\ (n + 1) - 1 = n /\ nth[n] # None
      BY <1>0, <1>6
    <2>2. nth[n + 1] = range[nth[n]].next
      BY <1>0, <2>1
    <2>3. nth[n + 1] = None
      <3>1. n + 1 \in 1 .. N \/ n + 1 = N + 1
        BY <1>0, <2>1
      <3> QED BY <1>5, <1>6, <1>10, <3>1
    <2> QED BY <2>2, <2>3
  <1>11. \A n \in Positions : n = 1 => nth[n] = range_list
    BY <1>0
  <1> QED BY <1>6, <1>8, <1>9, <1>10, <1>11 DEF N

(* What the list says of one range.                                        *)
LEMMA LinkedAt ==
  ASSUME AllocatorAssumption, NEW rs, NEW first, Linked(rs, first), NEW r \in Live(rs)
  PROVE  /\ r \in Ranges /\ r # None /\ rs[r] \in Fields
         /\ rs[r].offset \in Nat /\ rs[r].size \in Nat /\ rs[r].end \in Int /\ rs[r].is_dirty \in BOOLEAN
         /\ rs[r].end = rs[r].offset + rs[r].size - 1 /\ rs[r].offset <= rs[r].end /\ rs[r].end < MapSize
         /\ rs[r].size >= page_size \/ (rs[r].pre = None /\ rs[r].next = None)
         /\ rs[r].pre = None => r = first /\ rs[r].offset = 0
         /\ rs[r].pre # None => /\ rs[r].pre \in Live(rs) /\ rs[r].pre # r /\ rs[rs[r].pre].next = r
                                /\ rs[r].offset = rs[rs[r].pre].end + 1
         /\ rs[r].next = None => rs[r].end = MapSize - 1
         /\ rs[r].next # None => /\ rs[r].next \in Live(rs) /\ rs[r].next # r /\ rs[rs[r].next].pre = r
                                 /\ rs[rs[r].next].offset = rs[r].end + 1
  <1>1. Placed(rs, r) /\ FollowsIts(rs, first, r) /\ LeadsTo(rs, r) /\ rs \in [Ranges -> Fields \cup {None}]
    BY DEF Linked
  <1>2. /\ r \in Ranges /\ rs[r] \in Fields /\ rs[r].offset \in 0..MapSize /\ rs[r].end \in Int
        /\ rs[r].size \in 0..MapSize /\ rs[r].is_dirty \in BOOLEAN
    BY <1>1, FieldsOf
  <1>3. MapSize \in Nat /\ page_size \in Nat \ {0} /\ None \notin Ranges
    BY DEF AllocatorAssumption
  <1>4. /\ rs[r].offset \in Nat /\ rs[r].size \in Nat /\ rs[r].end = rs[r].offset + rs[r].size - 1
        /\ rs[r].offset <= rs[r].end /\ rs[r].end < MapSize
        /\ rs[r].size >= page_size \/ (rs[r].pre = None /\ rs[r].next = None)
    BY <1>1, <1>2, <1>3 DEF Placed
  <1>5. rs[r].pre # None => /\ rs[r].pre \in Live(rs) /\ rs[r].pre # r /\ rs[rs[r].pre].next = r
                            /\ rs[r].offset = rs[rs[r].pre].end + 1
    BY <1>1, <1>4 DEF FollowsIts
  <1>6. ASSUME rs[r].next # None
        PROVE  /\ rs[r].next \in Live(rs) /\ rs[r].next # r /\ rs[rs[r].next].pre = r
               /\ rs[rs[r].next].offset = rs[r].end + 1
    <2>1. rs[r].next \in Live(rs) /\ rs[rs[r].next].pre = r
      BY <1>1, <1>6 DEF LeadsTo
    <2>2. FollowsIts(rs, first, rs[r].next) /\ r # None
      BY <1>2, <1>3, <2>1 DEF Linked
    <2>3. rs[rs[r].next].offset = rs[r].end + 1
      BY <2>1, <2>2 DEF FollowsIts
    <2>4. rs[r].next # r
      <3> SUFFICES ASSUME rs[r].next = r PROVE FALSE
        OBVIOUS
      <3>1. rs[r].offset = rs[r].end + 1
        BY <2>3
      <3> QED BY <1>2, <1>4, <3>1
    <2> QED BY <2>1, <2>3, <2>4
  <1> QED BY <1>1, <1>2, <1>3, <1>4, <1>5, <1>6 DEF FollowsIts, LeadsTo

(* A place of the map is in one range.                                     *)
LEMMA Exclusive ==
  ASSUME AllocatorAssumption, NEW rs, NEW first, Linked(rs, first), NEW r \in Live(rs), NEW q \in Live(rs),
         rs[r].offset <= rs[q].offset, rs[q].offset <= rs[r].end
  PROVE  q = r
  <1>1. /\ rs[r].offset \in Nat /\ rs[r].end \in Int /\ rs[q].offset \in Nat /\ rs[q].end \in Int
        /\ rs[q].offset <= rs[q].end
    BY LinkedAt
  <1>2. r # q => Apart(rs, r, q)
    BY DEF Linked
  <1> QED BY <1>1, <1>2 DEF Apart

(* The links do not depend on who uses a range.                            *)
IsMarked(after, rs, r, d) == after = [rs EXCEPT ![r].is_dirty = d]

SameList(after, rs, first, r, d) ==
  /\ Linked(after, first) /\ Live(after) = Live(rs)
  /\ \A x \in Live(rs) : /\ after[x].offset = rs[x].offset /\ after[x].end = rs[x].end
                         /\ after[x].size = rs[x].size
                         /\ after[x].next = rs[x].next /\ after[x].pre = rs[x].pre
                         /\ after[x].is_dirty = IF x = r THEN d ELSE rs[x].is_dirty

LEMMA Dirtied ==
  ASSUME AllocatorAssumption, NEW rs, NEW first, Linked(rs, first), NEW r \in Live(rs), NEW d \in BOOLEAN,
         NEW after, IsMarked(after, rs, r, d)
  PROVE  SameList(after, rs, first, r, d)
  <1>1. /\ rs \in [Ranges -> Fields \cup {None}] /\ r \in Ranges /\ rs[r] \in Fields /\ rs[r] # None
    BY LinkedAt DEF Linked, Live
  <1>2. /\ after[r].offset = rs[r].offset /\ after[r].end = rs[r].end /\ after[r].size = rs[r].size
        /\ after[r].next = rs[r].next /\ after[r].pre = rs[r].pre /\ after[r].is_dirty = d
        /\ after[r] \in Fields
    BY <1>1 DEF Fields, IsMarked
  <1>3. \A x \in Ranges : x # r => after[x] = rs[x]
    BY <1>1 DEF IsMarked
  <1>4. after \in [Ranges -> Fields \cup {None}]
    BY <1>1, <1>2 DEF IsMarked
  <1>5. None \notin Fields
    BY DEF AllocatorAssumption
  <1>6. Live(after) = Live(rs)
    BY <1>1, <1>2, <1>3, <1>5 DEF Live
  <1>7. \A x \in Live(rs) : /\ after[x].offset = rs[x].offset /\ after[x].end = rs[x].end
                            /\ after[x].size = rs[x].size
                            /\ after[x].next = rs[x].next /\ after[x].pre = rs[x].pre
                            /\ after[x].is_dirty = IF x = r THEN d ELSE rs[x].is_dirty
    <2> SUFFICES ASSUME NEW x \in Live(rs)
                 PROVE  /\ after[x].offset = rs[x].offset /\ after[x].end = rs[x].end
                        /\ after[x].size = rs[x].size
                        /\ after[x].next = rs[x].next /\ after[x].pre = rs[x].pre
                        /\ after[x].is_dirty = IF x = r THEN d ELSE rs[x].is_dirty
      OBVIOUS
    <2>1. x \in Ranges
      BY DEF Live
    <2>2. CASE x = r
      BY <1>2, <2>2
    <2>3. CASE x # r
      BY <1>3, <2>1, <2>3
    <2> QED BY <2>2, <2>3
  <1>8. ASSUME NEW x \in Live(after)
        PROVE  Placed(after, x) /\ FollowsIts(after, first, x) /\ LeadsTo(after, x)
    <2>1. x \in Live(rs)
      BY <1>6
    <2>2. Placed(rs, x) /\ FollowsIts(rs, first, x) /\ LeadsTo(rs, x)
      BY <2>1 DEF Linked
    <2>3. Placed(after, x)
      BY <1>7, <2>1, <2>2 DEF Placed
    <2>4. FollowsIts(after, first, x)
      <3>1. after[x].pre = rs[x].pre /\ after[x].offset = rs[x].offset
        BY <1>7, <2>1
      <3>2. rs[x].pre \in Live(rs) => after[rs[x].pre].next = rs[rs[x].pre].next /\ after[rs[x].pre].end = rs[rs[x].pre].end
        BY <1>7
      <3> QED BY <1>6, <2>2, <3>1, <3>2 DEF FollowsIts
    <2>5. LeadsTo(after, x)
      <3>1. after[x].next = rs[x].next /\ after[x].end = rs[x].end
        BY <1>7, <2>1
      <3>2. rs[x].next \in Live(rs) => after[rs[x].next].pre = rs[rs[x].next].pre
        BY <1>7
      <3> QED BY <1>6, <2>2, <3>1, <3>2 DEF LeadsTo
    <2> QED BY <2>3, <2>4, <2>5
  <1>9. IF first = None THEN Live(after) = {} ELSE first \in Live(after) /\ after[first].pre = None
    <2>1. IF first = None THEN Live(rs) = {} ELSE first \in Live(rs) /\ rs[first].pre = None
      BY DEF Linked
    <2> QED BY <1>6, <1>7, <2>1
  <1>10. \A x, q \in Live(after) : x # q => Apart(after, x, q)
    <2> SUFFICES ASSUME NEW x \in Live(rs), NEW q \in Live(rs), x # q PROVE Apart(after, x, q)
      BY <1>6
    <2>1. Apart(rs, x, q)
      BY DEF Linked
    <2>2. /\ after[x].offset = rs[x].offset /\ after[x].end = rs[x].end
          /\ after[q].offset = rs[q].offset /\ after[q].end = rs[q].end
      BY <1>7
    <2> QED BY <2>1, <2>2 DEF Apart
  <1>11. Linked(after, first)
    BY <1>4, <1>8, <1>9, <1>10 DEF Linked
  <1> QED BY <1>6, <1>7, <1>11 DEF SameList

(* Two free neighbours become one range, and the list stays one: what is   *)
(* new of it is only the first of them, and the link back from behind.     *)
LEMMA MergedAt ==
  ASSUME AllocatorAssumption, NEW rs, NEW first, Linked(rs, first), NEW f \in Live(rs), NEW s \in Live(rs),
         rs[f].next = s, NEW after, after = Merged(rs, f, s)
  PROVE  /\ Live(after) = Live(rs) \ {s} /\ after \in [Ranges -> Fields \cup {None}]
         /\ f # s /\ rs[s].pre = f /\ rs[s].offset = rs[f].end + 1
         /\ rs[s].next # f /\ rs[s].next # s
         /\ /\ after[f].offset = rs[f].offset /\ after[f].end = rs[s].end
            /\ after[f].size = rs[f].size + rs[s].size /\ after[f].is_dirty = rs[f].is_dirty
            /\ after[f].pre = rs[f].pre /\ after[f].next = rs[s].next
         /\ \A x \in Live(after) : x # f =>
              /\ after[x].offset = rs[x].offset /\ after[x].end = rs[x].end /\ after[x].size = rs[x].size
              /\ after[x].is_dirty = rs[x].is_dirty /\ after[x].next = rs[x].next
              /\ after[x].pre = IF x = rs[s].next THEN f ELSE rs[x].pre
  <1>1. rs \in [Ranges -> Fields \cup {None}]
    BY DEF Linked
  <1>2. /\ f \in Ranges /\ rs[f] \in Fields /\ s \in Ranges /\ rs[s] \in Fields
        /\ rs[f].offset \in Nat /\ rs[f].size \in Nat /\ rs[f].end \in Int
        /\ rs[s].offset \in Nat /\ rs[s].size \in Nat /\ rs[s].end \in Int
        /\ rs[f].end = rs[f].offset + rs[f].size - 1 /\ rs[f].offset <= rs[f].end
        /\ rs[s].end = rs[s].offset + rs[s].size - 1 /\ rs[s].offset <= rs[s].end /\ rs[s].end < MapSize
    BY LinkedAt
  <1>3. s # None /\ f # s /\ rs[s].pre = f /\ rs[s].offset = rs[f].end + 1
    BY LinkedAt
  <1>4. None \notin Fields /\ MapSize \in Nat /\ None \notin Ranges
    BY DEF AllocatorAssumption
  <1> DEFINE n == rs[s].next
  <1>5. n # s /\ n # f /\ n \in Ranges \cup {None} /\ (n # None => n \in Live(rs) /\ rs[n].pre = s)
    <2>1. n # None => n \in Live(rs) /\ n # s /\ rs[n].pre = s /\ rs[n].offset = rs[s].end + 1
      BY LinkedAt
    <2>2. n \in Ranges \cup {None}
      BY <1>1, FieldsOf
    <2>3. n # s /\ n # f
      <3>1. CASE n = None
        BY <1>2, <1>4, <3>1
      <3>2. CASE n # None
        <4>1. n = f => rs[f].offset = rs[s].end + 1
          BY <2>1, <3>2
        <4> QED BY <1>2, <1>3, <2>1, <3>2, <4>1
      <3> QED BY <3>1, <3>2
    <2> QED BY <2>1, <2>2, <2>3
  <1> HIDE DEF n
  <1> DEFINE one == [rs[f] EXCEPT !.size = @ + rs[s].size, !.end = rs[s].end, !.next = n]
  <1>6. /\ one.offset = rs[f].offset /\ one.end = rs[s].end /\ one.size = rs[f].size + rs[s].size
        /\ one.is_dirty = rs[f].is_dirty /\ one.pre = rs[f].pre /\ one.next = n /\ one \in Fields
    <2>1. rs[f].size + rs[s].size \in 0 .. MapSize
      BY <1>2, <1>3, <1>4
    <2>2. rs[s].end \in Int /\ rs[f] \in Fields
      BY <1>2
    <2> QED BY <1>5, <2>1, <2>2 DEF Fields
  <1> HIDE DEF one
  <1> DEFINE forward == [rs EXCEPT ![f] = one, ![s] = None]
  <1>7. forward = MergedForward(rs, f, s)
    BY <1>1, <1>2 DEF MergedForward, one, n
  <1>8. /\ forward[f] = one /\ forward[s] = None
        /\ \A x \in Ranges : x # f /\ x # s => forward[x] = rs[x]
    <2>1. DOMAIN rs = Ranges /\ f \in Ranges /\ s \in Ranges /\ f # s
      BY <1>1, <1>2, <1>3
    <2>2. \A x \in Ranges : forward[x] = IF x = s THEN None ELSE IF x = f THEN one ELSE rs[x]
      BY <2>1, Zenon
    <2> HIDE DEF forward
    <2> QED BY <2>1, <2>2, Zenon
  <1> HIDE DEF forward
  <1>9. \A x \in Ranges : after[x] = IF x = n THEN [rs[x] EXCEPT !.pre = f] ELSE forward[x]
    BY <1>7 DEF Merged, n
  <1>10. DOMAIN after = Ranges /\ after = [x \in Ranges |-> after[x]]
    BY DEF Merged
  <1>11. after[f] = one /\ after[s] = None
    <2>1. after[f] = forward[f] /\ after[s] = forward[s]
      BY <1>2, <1>5, <1>9
    <2> QED BY <1>8, <2>1
  <1>12. ASSUME NEW x \in Ranges, x # f, x # s
         PROVE  /\ rs[x] = None => after[x] = None
                /\ rs[x] # None =>
                     /\ after[x] \in Fields
                     /\ after[x].offset = rs[x].offset /\ after[x].end = rs[x].end /\ after[x].size = rs[x].size
                     /\ after[x].is_dirty = rs[x].is_dirty /\ after[x].next = rs[x].next
                     /\ after[x].pre = IF x = n THEN f ELSE rs[x].pre
    <2>1. CASE x = n
      <3>1. x # None /\ rs[x] # None /\ rs[x] \in Fields
        BY <1>1, <1>4, <1>5, <2>1 DEF Live
      <3>2. after[x] = [rs[x] EXCEPT !.pre = f]
        BY <1>9, <2>1
      <3> QED BY <1>2, <2>1, <3>1, <3>2 DEF Fields
    <2>2. CASE x # n
      <3>1. after[x] = rs[x]
        BY <1>8, <1>9, <1>12, <2>2
      <3>2. rs[x] \in Fields \cup {None}
        BY <1>1
      <3> QED BY <2>2, <3>1, <3>2
    <2> QED BY <2>1, <2>2
  <1>13. \A x \in Ranges : after[x] \in Fields \cup {None}
    BY <1>6, <1>11, <1>12, <1>1
  <1>14. after \in [Ranges -> Fields \cup {None}]
    BY <1>10, <1>13
  <1>15. Live(after) = Live(rs) \ {s}
    <2>1. \A x \in Ranges : after[x] # None <=> rs[x] # None /\ x # s
      <3> SUFFICES ASSUME NEW x \in Ranges PROVE after[x] # None <=> rs[x] # None /\ x # s
        OBVIOUS
      <3>1. CASE x = s
        BY <1>11, <3>1
      <3>2. CASE x = f
        BY <1>2, <1>3, <1>4, <1>6, <1>11, <3>2
      <3>3. CASE x # f /\ x # s
        BY <1>4, <1>12, <3>3
      <3> QED BY <3>1, <3>2, <3>3
    <2> QED BY <2>1 DEF Live
  <1>16. \A x \in Live(after) : x \in Ranges /\ rs[x] # None /\ x # s
    BY <1>15 DEF Live
  <1>17. \A x \in Live(after) : x # f =>
              /\ after[x].offset = rs[x].offset /\ after[x].end = rs[x].end /\ after[x].size = rs[x].size
              /\ after[x].is_dirty = rs[x].is_dirty /\ after[x].next = rs[x].next
              /\ after[x].pre = IF x = rs[s].next THEN f ELSE rs[x].pre
    BY <1>12, <1>16 DEF n
  <1> QED BY <1>3, <1>5, <1>6, <1>11, <1>14, <1>15, <1>17 DEF n

LEMMA MergeKeepsList ==
  ASSUME AllocatorAssumption, NEW rs, NEW first, Linked(rs, first), NEW f \in Live(rs), NEW s \in Live(rs),
         rs[f].next = s
  PROVE  Linked(Merged(rs, f, s), first)
  <1> DEFINE after == Merged(rs, f, s)
  <1>1. after = Merged(rs, f, s)
    OBVIOUS
  <1> HIDE DEF after
  <1>2. /\ Live(after) = Live(rs) \ {s} /\ after \in [Ranges -> Fields \cup {None}]
        /\ f # s /\ rs[s].pre = f /\ rs[s].offset = rs[f].end + 1 /\ rs[s].next # f /\ rs[s].next # s
    BY <1>1, MergedAt
  <1>3. /\ after[f].offset = rs[f].offset /\ after[f].end = rs[s].end
        /\ after[f].size = rs[f].size + rs[s].size
        /\ after[f].pre = rs[f].pre /\ after[f].next = rs[s].next
    BY <1>1, MergedAt
  <1>4. \A x \in Live(after) : x # f =>
          /\ after[x].offset = rs[x].offset /\ after[x].end = rs[x].end /\ after[x].size = rs[x].size
          /\ after[x].next = rs[x].next
          /\ after[x].pre = IF x = rs[s].next THEN f ELSE rs[x].pre
    BY <1>1, MergedAt
  <1>5. \A x \in Live(rs) :
          /\ rs[x].offset \in Nat /\ rs[x].size \in Nat /\ rs[x].end \in Int
          /\ rs[x].end = rs[x].offset + rs[x].size - 1 /\ rs[x].offset <= rs[x].end /\ rs[x].end < MapSize
    BY LinkedAt
  <1>6. /\ MapSize \in Nat /\ page_size \in Nat \ {0} /\ None \notin Ranges
    BY DEF AllocatorAssumption
  <1>7. \A x \in Live(rs) :
          /\ x # None
          /\ rs[x].size >= page_size \/ (rs[x].pre = None /\ rs[x].next = None)
          /\ rs[x].pre = None => x = first /\ rs[x].offset = 0
          /\ rs[x].pre # None => /\ rs[x].pre \in Live(rs) /\ rs[x].pre # x /\ rs[rs[x].pre].next = x
                                 /\ rs[x].offset = rs[rs[x].pre].end + 1
          /\ rs[x].next = None => rs[x].end = MapSize - 1
          /\ rs[x].next # None => /\ rs[x].next \in Live(rs) /\ rs[rs[x].next].pre = x
    BY LinkedAt
  <1>8. f \in Live(after)
    BY <1>2
  <1>9. ASSUME NEW x \in Live(after) PROVE Placed(after, x)
    <2>1. CASE x = f
      <3>1. rs[f].size >= page_size
        BY <1>7
      <3> QED BY <1>2, <1>3, <1>5, <1>6, <2>1, <3>1 DEF Placed
    <2>2. CASE x # f
      <3>1. x \in Live(rs) /\ x # s
        BY <1>2
      <3>2. rs[x].size >= page_size \/ (rs[x].pre = None /\ rs[x].next = None)
        BY <1>7, <3>1
      <3>3. x = rs[s].next => rs[x].pre = s /\ s # None
        BY <1>7, <3>1
      <3>4. rs[x].size > 0
        BY <1>5, <3>1
      <3>5. /\ after[x].offset = rs[x].offset /\ after[x].end = rs[x].end /\ after[x].size = rs[x].size
            /\ after[x].next = rs[x].next
            /\ after[x].pre = IF x = rs[s].next THEN f ELSE rs[x].pre
        BY <1>4, <2>2
      <3>6. after[x].size >= page_size \/ (after[x].pre = None /\ after[x].next = None)
        BY <3>2, <3>3, <3>5
      <3> QED BY <1>5, <3>1, <3>4, <3>5, <3>6 DEF Placed
    <2> QED BY <2>1, <2>2
  <1>10. ASSUME NEW x \in Live(after) PROVE FollowsIts(after, first, x)
    <2>1. x \in Live(rs) /\ x # s
      BY <1>2
    <2> DEFINE p == after[x].pre
    <2>2. CASE x = rs[s].next
      <3>1. x # f /\ p = f /\ after[x].offset = rs[x].offset
        BY <1>2, <1>4, <2>2
      <3>2. rs[x].pre = s /\ s # None /\ rs[x].offset = rs[s].end + 1
        BY <1>7, <2>1, <2>2
      <3>3. f # None
        BY <1>7
      <3> QED BY <1>3, <1>8, <2>2, <3>1, <3>2, <3>3 DEF FollowsIts
    <2>3. CASE x # rs[s].next
      <3>1. p = rs[x].pre /\ after[x].offset = rs[x].offset
        BY <1>3, <1>4, <2>3
      <3>2. CASE p = None
        BY <1>7, <2>1, <3>1, <3>2 DEF FollowsIts
      <3>3. CASE p # None
        <4>1. p \in Live(rs) /\ rs[p].next = x /\ rs[x].offset = rs[p].end + 1 /\ p # x
          BY <1>7, <2>1, <3>1, <3>3
        <4>2. p # f /\ p # s
          BY <2>1, <2>3, <4>1
        <4>3. p \in Live(after) /\ after[p].next = rs[p].next /\ after[p].end = rs[p].end
          BY <1>2, <1>4, <4>1, <4>2
        <4> QED BY <3>1, <3>3, <4>1, <4>3 DEF FollowsIts
      <3> QED BY <3>2, <3>3
    <2> QED BY <2>2, <2>3
  <1>11. ASSUME NEW x \in Live(after) PROVE LeadsTo(after, x)
    <2>1. x \in Live(rs) /\ x # s
      BY <1>2
    <2>2. CASE x = f
      <3>1. CASE rs[s].next = None
        BY <1>3, <1>7, <2>2, <3>1 DEF LeadsTo
      <3>2. CASE rs[s].next # None
        <4>1. rs[s].next \in Live(after)
          BY <1>2, <1>7, <3>2
        <4>2. after[rs[s].next].pre = f
          BY <1>2, <1>4, <4>1
        <4> QED BY <1>3, <2>2, <3>2, <4>1, <4>2 DEF LeadsTo
      <3> QED BY <3>1, <3>2
    <2>3. CASE x # f
      <3> DEFINE y == rs[x].next
      <3>1. after[x].next = y /\ after[x].end = rs[x].end
        BY <1>4, <2>3
      <3>2. CASE y = None
        BY <1>7, <2>1, <3>1, <3>2 DEF LeadsTo
      <3>3. CASE y # None
        <4>1. y \in Live(rs) /\ rs[y].pre = x
          BY <1>7, <2>1, <3>3
        <4>2. y # s /\ y # rs[s].next
          <5>1. y # s
            BY <1>2, <2>3, <4>1
          <5>2. y = rs[s].next => rs[y].pre = s
            BY <1>7, <3>3
          <5> QED BY <2>1, <4>1, <5>1, <5>2
        <4>3. y \in Live(after)
          BY <1>2, <4>1, <4>2
        <4>4. after[y].pre = rs[y].pre
          BY <1>3, <1>4, <4>2, <4>3
        <4> QED BY <3>1, <3>3, <4>1, <4>3, <4>4 DEF LeadsTo
      <3> QED BY <3>2, <3>3
    <2> QED BY <2>2, <2>3
  <1>12. IF first = None THEN Live(after) = {} ELSE first \in Live(after) /\ after[first].pre = None
    <2>1. IF first = None THEN Live(rs) = {} ELSE first \in Live(rs) /\ rs[first].pre = None
      BY DEF Linked
    <2>2. first # None
      BY <2>1
    <2>3. first # s /\ first # rs[s].next
      <3>1. first # s
        BY <1>2, <1>7, <2>1
      <3>2. s # None /\ (first = rs[s].next => rs[first].pre = s)
        BY <1>7, <2>2
      <3> QED BY <2>1, <2>2, <3>1, <3>2
    <2>4. first \in Live(after)
      BY <1>2, <2>1, <2>2, <2>3
    <2> QED BY <1>3, <1>4, <2>1, <2>2, <2>3, <2>4
  <1>13. ASSUME NEW x \in Live(after), x # f PROVE Apart(after, x, f) /\ Apart(after, f, x)
    <2>1. x \in Live(rs) /\ x # s
      BY <1>2
    <2>2. Apart(rs, x, f) /\ Apart(rs, x, s)
      BY <1>13, <2>1 DEF Linked
    <2>3. after[x].offset = rs[x].offset /\ after[x].end = rs[x].end
      BY <1>4, <1>13
    <2>4. rs[s].offset = rs[f].end + 1 /\ after[f].offset = rs[f].offset /\ after[f].end = rs[s].end
      BY <1>2, <1>3
    <2>5. rs[x].end < rs[f].offset \/ rs[s].end < rs[x].offset
      BY <1>5, <2>1, <2>2, <2>4 DEF Apart
    <2> QED BY <2>3, <2>4, <2>5 DEF Apart
  <1>14. ASSUME NEW x \in Live(after), NEW q \in Live(after), x # q PROVE Apart(after, x, q)
    <2>1. CASE x = f \/ q = f
      BY <1>13, <1>14, <2>1
    <2>2. CASE x # f /\ q # f
      <3>1. Apart(rs, x, q)
        BY <1>2, <1>14 DEF Linked
      <3>2. /\ after[x].offset = rs[x].offset /\ after[x].end = rs[x].end
            /\ after[q].offset = rs[q].offset /\ after[q].end = rs[q].end
        BY <1>4, <2>2
      <3> QED BY <3>1, <3>2 DEF Apart
    <2> QED BY <2>1, <2>2
  <1>15. Linked(after, first)
    BY <1>2, <1>9, <1>10, <1>11, <1>12, <1>14 DEF Linked
  <1> QED BY <1>1, <1>15

(* Merging takes away one pair of free neighbours and makes none.          *)
LEMMA MergeSeparates ==
  ASSUME AllocatorAssumption, NEW rs, NEW first, Linked(rs, first), NEW f \in Live(rs), NEW s \in Live(rs),
         rs[f].next = s, ~rs[f].is_dirty, ~rs[s].is_dirty, NEW X, Separated(rs, X)
  PROVE  Separated(Merged(rs, f, s), X \ {s})
  <1> DEFINE after == Merged(rs, f, s)
  <1>1. after = Merged(rs, f, s)
    OBVIOUS
  <1> HIDE DEF after
  <1>2. /\ Live(after) = Live(rs) \ {s} /\ f # s /\ rs[s].next # f
        /\ after[f].is_dirty = rs[f].is_dirty /\ after[f].pre = rs[f].pre
    BY <1>1, MergedAt
  <1>3. \A x \in Live(after) : x # f =>
          /\ after[x].is_dirty = rs[x].is_dirty
          /\ after[x].pre = IF x = rs[s].next THEN f ELSE rs[x].pre
    BY <1>1, MergedAt
  <1>4. /\ s # None
        /\ \A x \in Live(rs) : rs[x].pre # None => rs[x].pre \in Live(rs) /\ rs[rs[x].pre].next = x
        /\ \A x \in Live(rs) : rs[x].next # None => rs[x].next \in Live(rs) /\ rs[rs[x].next].pre = x
        /\ \A x \in Live(rs) : x # None
    <2>1. \A x \in Live(rs) : x # None
      BY LinkedAt
    <2>2. ASSUME NEW x \in Live(rs), rs[x].pre # None
          PROVE  rs[x].pre \in Live(rs) /\ rs[rs[x].pre].next = x
      BY <2>2, LinkedAt
    <2>3. ASSUME NEW x \in Live(rs), rs[x].next # None
          PROVE  rs[x].next \in Live(rs) /\ rs[rs[x].next].pre = x
      BY <2>3, LinkedAt
    <2> QED BY <2>1, <2>2, <2>3
  <1>5. SUFFICES ASSUME NEW x \in Live(after) \ (X \ {s}), after[x].pre # None
                 PROVE  after[x].is_dirty \/ after[after[x].pre].is_dirty
    BY <1>1 DEF Separated
  <1>6. x \in Live(rs) /\ x \notin X /\ x # s
    BY <1>2, <1>5
  <1>7. after[x].is_dirty = rs[x].is_dirty
    BY <1>2, <1>3, <1>5
  <1>8. CASE x = rs[s].next
    <2>1. rs[x].pre = s
      BY <1>4, <1>6, <1>8
    <2>2. rs[x].is_dirty \/ rs[s].is_dirty
      <3>1. x \in Live(rs) \ X /\ rs[x].pre # None
        BY <1>4, <1>6, <2>1
      <3> QED BY <2>1, <3>1 DEF Separated
    <2> QED BY <1>7, <2>2
  <1>9. CASE x # rs[s].next
    <2> DEFINE p == rs[x].pre
    <2>1. after[x].pre = p
      BY <1>2, <1>3, <1>5, <1>9
    <2>2. p # None /\ p \in Live(rs) /\ rs[p].next = x
      BY <1>4, <1>5, <1>6, <2>1
    <2>3. p # s /\ p \in Live(after)
      BY <1>2, <1>9, <2>2
    <2>4. rs[x].is_dirty \/ rs[p].is_dirty
      BY <1>6, <2>2 DEF Separated
    <2>5. after[p].is_dirty = rs[p].is_dirty
      BY <1>2, <1>3, <2>3
    <2> QED BY <1>7, <2>1, <2>4, <2>5
  <1> QED BY <1>8, <1>9

(* What is left of rs: no range that was not there, each where it was and  *)
(* at least as large, and those in use as they were.                       *)
Shrunk(rs, after) ==
  /\ Live(after) \subseteq Live(rs)
  /\ \A x \in Live(after) : after[x].offset = rs[x].offset /\ after[x].size >= rs[x].size
  /\ InUse(after) = InUse(rs)

LEMMA MergeShrinks ==
  ASSUME AllocatorAssumption, NEW rs, NEW first, Linked(rs, first), NEW f \in Live(rs), NEW s \in Live(rs),
         rs[f].next = s, ~rs[f].is_dirty, ~rs[s].is_dirty
  PROVE  Shrunk(rs, Merged(rs, f, s))
  <1> DEFINE after == Merged(rs, f, s)
  <1>1. after = Merged(rs, f, s)
    OBVIOUS
  <1> HIDE DEF after
  <1>2. /\ Live(after) = Live(rs) \ {s}
        /\ after[f].is_dirty = rs[f].is_dirty /\ after[f].offset = rs[f].offset
        /\ after[f].size = rs[f].size + rs[s].size
    BY <1>1, MergedAt
  <1>3. \A x \in Live(after) : x # f =>
          after[x].is_dirty = rs[x].is_dirty /\ after[x].offset = rs[x].offset /\ after[x].size = rs[x].size
    BY <1>1, MergedAt
  <1>4. \A x \in Live(rs) : rs[x].size \in Nat
    BY LinkedAt
  <1>5. ASSUME NEW x \in Live(after)
        PROVE  after[x].offset = rs[x].offset /\ after[x].size >= rs[x].size
    BY <1>2, <1>3, <1>4
  <1>6. InUse(after) = InUse(rs)
    BY <1>2, <1>3 DEF InUse
  <1>7. Live(after) \subseteq Live(rs)
    BY <1>2
  <1> QED BY <1>1, <1>5, <1>6, <1>7 DEF Shrunk

LEMMA ShrunkTwice ==
  ASSUME NEW rs, NEW mid, NEW after, Shrunk(rs, mid), Shrunk(mid, after),
         \A x \in Live(rs) : rs[x].size \in Int, \A x \in Live(mid) : mid[x].size \in Int,
         \A x \in Live(after) : after[x].size \in Int
  PROVE  Shrunk(rs, after)
  BY DEF Shrunk

(* Freeing a range keeps the list, leaves no free neighbours, and of the   *)
(* ranges in use takes away this one only.                                 *)
LEMMA FreedKeeps ==
  ASSUME AllocatorAssumption, NEW rs, NEW first, Linked(rs, first), Separated(rs, {}), NEW r \in InUse(rs)
  PROVE  /\ Linked(Freed(rs, r), first) /\ Separated(Freed(rs, r), {})
         /\ Live(Freed(rs, r)) \subseteq Live(rs) /\ InUse(Freed(rs, r)) = InUse(rs) \ {r}
         /\ \A x \in Live(Freed(rs, r)) :
              Freed(rs, r)[x].offset = rs[x].offset /\ Freed(rs, r)[x].size >= rs[x].size
  <1> DEFINE clean == [rs EXCEPT ![r].is_dirty = FALSE]
             next  == clean[r].next
             mid   == IF next # None /\ ~clean[next].is_dirty THEN Merged(clean, r, next) ELSE clean
             pre   == mid[r].pre
             after == IF pre # None /\ ~mid[pre].is_dirty THEN Merged(mid, pre, r) ELSE mid
  <1>1. Freed(rs, r) = after
    BY DEF Freed
  <1>2. r \in Live(rs) /\ FALSE \in BOOLEAN
    BY DEF InUse
  <1>3. IsMarked(clean, rs, r, FALSE)
    BY DEF IsMarked
  <1> HIDE DEF clean
  <1>4. /\ Linked(clean, first) /\ Live(clean) = Live(rs)
        /\ \A x \in Live(rs) : /\ clean[x].offset = rs[x].offset /\ clean[x].end = rs[x].end
                               /\ clean[x].size = rs[x].size
                               /\ clean[x].next = rs[x].next /\ clean[x].pre = rs[x].pre
                               /\ clean[x].is_dirty = IF x = r THEN FALSE ELSE rs[x].is_dirty
    <2>1. FALSE \in BOOLEAN
      OBVIOUS
    <2>2. SameList(clean, rs, first, r, FALSE)
      BY <1>2, <1>3, <2>1, Dirtied, Zenon
    <2> QED BY <2>2 DEF SameList
  <1>5. \A q : Linked(q, first) => \A x \in Live(q) : q[x].size \in Nat
    BY LinkedAt
  <1>6. Separated(clean, {r, next})
    <2> SUFFICES ASSUME NEW x \in Live(clean) \ {r, next}, clean[x].pre # None
                 PROVE  clean[x].is_dirty \/ clean[clean[x].pre].is_dirty
      BY DEF Separated
    <2>1. x \in Live(rs) /\ rs[x].pre # None /\ clean[x].pre = rs[x].pre /\ clean[x].is_dirty = rs[x].is_dirty
      BY <1>4
    <2>2. rs[x].pre \in Live(rs) /\ rs[rs[x].pre].next = x
      BY <2>1, LinkedAt
    <2>3. rs[x].pre # r
      BY <1>2, <1>4, <2>2
    <2>4. rs[x].is_dirty \/ rs[rs[x].pre].is_dirty
      BY <2>1 DEF Separated
    <2>5. clean[rs[x].pre].is_dirty = rs[rs[x].pre].is_dirty
      BY <1>4, <2>2, <2>3
    <2> QED BY <2>1, <2>4, <2>5
  <1>7. /\ Linked(mid, first) /\ Separated(mid, {r}) /\ Shrunk(clean, mid)
        /\ r \in Live(mid) /\ ~mid[r].is_dirty
    <2>1. r \in Live(clean) /\ ~clean[r].is_dirty
      BY <1>2, <1>4
    <2>2. CASE next # None /\ ~clean[next].is_dirty
      <3>1. mid = Merged(clean, r, next) /\ next = clean[r].next
        BY <2>2
      <3> HIDE DEF mid, next
      <3>2. next \in Live(clean)
        BY <1>4, <2>1, <2>2, <3>1, LinkedAt
      <3>3. Linked(Merged(clean, r, next), first)
        BY <1>4, <2>1, <3>1, <3>2, MergeKeepsList
      <3>4. Separated(Merged(clean, r, next), {r, next} \ {next})
        BY <1>4, <1>6, <2>1, <2>2, <3>1, <3>2, MergeSeparates
      <3>5. Shrunk(clean, Merged(clean, r, next))
        BY <1>4, <2>1, <2>2, <3>1, <3>2, MergeShrinks
      <3>6. mid = Merged(clean, r, next) /\ clean[r].next = next
        BY <3>1
      <3>7. Live(mid) = Live(clean) \ {next} /\ r # next /\ mid[r].is_dirty = clean[r].is_dirty
        BY <1>4, <2>1, <3>2, <3>6, MergedAt
      <3>8. {r, next} \ {next} = {r}
        BY <3>7
      <3> QED BY <2>1, <3>1, <3>3, <3>4, <3>5, <3>7, <3>8
    <2>3. CASE ~(next # None /\ ~clean[next].is_dirty)
      <3>1. mid = clean
        BY <2>3
      <3>2. Separated(clean, {r})
        <4> SUFFICES ASSUME NEW x \in Live(clean) \ {r}, clean[x].pre # None
                     PROVE  clean[x].is_dirty \/ clean[clean[x].pre].is_dirty
          BY DEF Separated
        <4>1. CASE x = next
          <5>1. x # None
            BY <1>4, LinkedAt
          <5> QED BY <2>3, <4>1, <5>1
        <4>2. CASE x # next
          BY <1>6, <4>2 DEF Separated
        <4> QED BY <4>1, <4>2
      <3>3. Shrunk(clean, clean)
        BY <1>4, <1>5 DEF Shrunk
      <3> QED BY <1>4, <2>1, <3>1, <3>2, <3>3
    <2> QED BY <2>2, <2>3
  <1> HIDE DEF mid, next
  <1>8. Linked(after, first) /\ Separated(after, {}) /\ Shrunk(mid, after)
    <2>1. CASE pre # None /\ ~mid[pre].is_dirty
      <3>1. after = Merged(mid, pre, r)
        BY <2>1
      <3>2. pre = mid[r].pre
        OBVIOUS
      <3> HIDE DEF after, pre
      <3>3. pre \in Live(mid) /\ mid[pre].next = r
        BY <1>7, <2>1, <3>2, LinkedAt
      <3>4. Linked(Merged(mid, pre, r), first)
        BY <1>7, <3>3, MergeKeepsList
      <3>5. Separated(Merged(mid, pre, r), {r} \ {r})
        BY <1>7, <2>1, <3>3, MergeSeparates
      <3>6. Shrunk(mid, Merged(mid, pre, r))
        BY <1>7, <2>1, <3>3, MergeShrinks
      <3>7. {r} \ {r} = {}
        OBVIOUS
      <3> QED BY <3>1, <3>4, <3>5, <3>6, <3>7
    <2>2. CASE ~(pre # None /\ ~mid[pre].is_dirty)
      <3>1. after = mid
        BY <2>2
      <3>2. Separated(mid, {})
        <4> SUFFICES ASSUME NEW x \in Live(mid), mid[x].pre # None
                     PROVE  mid[x].is_dirty \/ mid[mid[x].pre].is_dirty
          BY DEF Separated
        <4>1. CASE x = r
          BY <2>2, <4>1
        <4>2. CASE x # r
          BY <1>7, <4>2 DEF Separated
        <4> QED BY <4>1, <4>2
      <3>3. Shrunk(mid, mid)
        BY <1>5, <1>7 DEF Shrunk
      <3> QED BY <1>7, <3>1, <3>2, <3>3
    <2> QED BY <2>1, <2>2
  <1> HIDE DEF after, pre
  <1>9. Shrunk(clean, after)
    <2>1. /\ \A x \in Live(clean) : clean[x].size \in Int
          /\ \A x \in Live(mid) : mid[x].size \in Int
          /\ \A x \in Live(after) : after[x].size \in Int
      BY <1>4, <1>5, <1>7, <1>8
    <2> QED BY <1>7, <1>8, <2>1, ShrunkTwice
  <1>10. InUse(clean) = InUse(rs) \ {r}
    BY <1>4 DEF InUse
  <1> QED BY <1>1, <1>4, <1>8, <1>9, <1>10 DEF Shrunk

(* There is a range object left for a split: the ranges are apart and each *)
(* as large as a page, and the objects are more than the pages.            *)
LEMMA ObjectLeft ==
  ASSUME AllocatorAssumption, NEW rs, NEW first, Linked(rs, first), NEW r \in Live(rs), rs[r].size >= page_size
  PROVE  \E a \in Ranges : rs[a] = None
  <1> SUFFICES ASSUME Live(rs) = Ranges PROVE FALSE
    BY DEF Live
  <1>1. /\ MapSize \in Nat /\ page_size \in Nat \ {0} /\ IsFiniteSet(Ranges)
        /\ Cardinality(Ranges) * page_size > MapSize /\ Cardinality(Ranges) \in Nat
    BY FS_CardinalityType DEF AllocatorAssumption
  <1>2. \A x \in Ranges :
          /\ rs[x].offset \in Nat /\ rs[x].size \in Nat /\ rs[x].end \in Int
          /\ rs[x].end = rs[x].offset + rs[x].size - 1 /\ rs[x].offset <= rs[x].end /\ rs[x].end < MapSize
          /\ rs[x].size >= page_size \/ (rs[x].pre = None /\ rs[x].next = None)
          /\ rs[x].pre = None => rs[x].offset = 0
          /\ rs[x].next = None => rs[x].end = MapSize - 1
    BY LinkedAt
  <1>3. \A x, y \in Ranges : x # y => Apart(rs, x, y)
    BY DEF Linked
  <1>4. \A x \in Ranges : rs[x].size >= page_size
    <2> SUFFICES ASSUME NEW x \in Ranges, rs[x].pre = None, rs[x].next = None PROVE x = r
      BY <1>2
    <2>1. rs[x].offset = 0 /\ rs[x].end = MapSize - 1
      BY <1>2
    <2>2. 0 <= rs[r].offset /\ rs[r].offset <= MapSize - 1
      BY <1>1, <1>2
    <2>3. rs[x].offset <= rs[r].offset /\ rs[r].offset <= rs[x].end /\ x \in Live(rs)
      BY <2>1, <2>2
    <2> QED BY <2>3, Exclusive
  <1> DEFINE Bytes == 0 .. page_size - 1
             at == [p \in Ranges \X Bytes |-> rs[p[1]].offset + p[2]]
  <1>5. ASSUME NEW x \in Ranges, NEW k \in Bytes
        PROVE  /\ k \in Nat /\ rs[x].offset + k \in 0 .. MapSize - 1
               /\ rs[x].offset <= rs[x].offset + k /\ rs[x].offset + k <= rs[x].end
    <2>1. rs[x].size >= page_size /\ k \in Nat /\ k < page_size
      BY <1>1, <1>4
    <2> QED BY <1>1, <1>2, <2>1
  <1>6. \A p \in Ranges \X Bytes : /\ p[1] \in Ranges /\ p[2] \in Bytes /\ p = <<p[1], p[2]>>
                                  /\ at[p] = rs[p[1]].offset + p[2]
    OBVIOUS
  <1>7. at \in [Ranges \X Bytes -> 0 .. MapSize - 1]
    <2>1. ASSUME NEW p \in Ranges \X Bytes PROVE rs[p[1]].offset + p[2] \in 0 .. MapSize - 1
      <3>1. p[1] \in Ranges /\ p[2] \in Bytes
        BY <1>6
      <3> QED BY <1>5, <3>1
    <2> QED BY <2>1
  <1> HIDE DEF at, Bytes
  <1>8. ASSUME NEW p \in Ranges \X Bytes, NEW q \in Ranges \X Bytes, at[p] = at[q] PROVE p = q
    <2> DEFINE x == p[1]
               y == q[1]
               k == p[2]
               l == q[2]
    <2>1. x \in Ranges /\ k \in Bytes /\ p = <<x, k>> /\ y \in Ranges /\ l \in Bytes /\ q = <<y, l>>
      BY <1>6
    <2>2. rs[x].offset + k = rs[y].offset + l
      BY <1>6, <1>8
    <2> HIDE DEF x, y, k, l
    <2>3. /\ rs[x].offset \in Nat /\ rs[x].end \in Int /\ rs[y].offset \in Nat /\ rs[y].end \in Int
          /\ k \in Nat /\ l \in Nat
          /\ rs[x].offset <= rs[x].offset + k /\ rs[x].offset + k <= rs[x].end
          /\ rs[y].offset <= rs[y].offset + l /\ rs[y].offset + l <= rs[y].end
      BY <1>2, <1>5, <2>1
    <2>4. x = y
      <3> SUFFICES ASSUME x # y PROVE FALSE
        OBVIOUS
      <3>1. rs[x].end < rs[y].offset \/ rs[y].end < rs[x].offset
        BY <1>3, <2>1 DEF Apart
      <3> QED BY <2>2, <2>3, <3>1
    <2>5. k = l
      BY <2>2, <2>3, <2>4
    <2> QED BY <2>1, <2>4, <2>5
  <1>9. at \in Injection(Ranges \X Bytes, 0 .. MapSize - 1)
    BY <1>7, <1>8 DEF Injection, IsInjective
  <1>10. \A n \in Nat : IsFiniteSet(0 .. n - 1) /\ Cardinality(0 .. n - 1) = n
    <2> SUFFICES ASSUME NEW n \in Nat PROVE IsFiniteSet(0 .. n - 1) /\ Cardinality(0 .. n - 1) = n
      OBVIOUS
    <2> DEFINE b == n - 1
    <2>1. 0 \in Int /\ b \in Int
      OBVIOUS
    <2>2. n = IF 0 > b THEN 0 ELSE b - 0 + 1
      OBVIOUS
    <2> HIDE DEF b
    <2>3. IsFiniteSet(0 .. b) /\ Cardinality(0 .. b) = IF 0 > b THEN 0 ELSE b - 0 + 1
      BY <2>1, FS_Interval
    <2> QED BY <2>2, <2>3 DEF b
  <1>11. Cardinality(Ranges \X Bytes) = Cardinality(Ranges) * page_size
    <2>1. IsFiniteSet(Bytes) /\ Cardinality(Bytes) = page_size
      BY <1>1, <1>10 DEF Bytes
    <2>2. Cardinality(Ranges \X Bytes) = Cardinality(Ranges) * Cardinality(Bytes)
      BY <1>1, <2>1, FS_Product
    <2> QED BY <2>1, <2>2
  <1>12. Cardinality(Ranges \X Bytes) <= Cardinality(0 .. MapSize - 1)
    <2>1. IsFiniteSet(0 .. MapSize - 1)
      BY <1>1, <1>10
    <2> QED BY <1>9, <2>1, FS_Injection
  <1>13. Cardinality(0 .. MapSize - 1) = MapSize
    BY <1>1, <1>10
  <1>14. \A n \in Nat : n * page_size \in Int
    BY <1>1
  <1> QED BY <1>1, <1>11, <1>12, <1>13, <1>14

(* What is given away of a range that is larger by a page or more.         *)
IsSplit(after, rs, r, need, a) ==
  LET taken == [MemRange(rs[r].offset, need) EXCEPT !.is_dirty = TRUE, !.next = r, !.pre = rs[r].pre]
      rest  == [rs[r] EXCEPT !.offset = taken.end + 1, !.size = @ - need, !.pre = a]
  IN  after = [x \in Ranges |-> IF x = a THEN taken
                                ELSE IF x = r THEN rest
                                ELSE IF x = taken.pre THEN [rs[x] EXCEPT !.next = a]
                                ELSE rs[x]]

Divided(after, rs, first, r, need, a) ==
  /\ after \in [Ranges -> Fields \cup {None}] /\ Live(after) = Live(rs) \cup {a}
  /\ /\ after[a].offset = rs[r].offset /\ after[a].end = rs[r].offset + need - 1 /\ after[a].size = need
     /\ after[a].is_dirty /\ after[a].next = r /\ after[a].pre = rs[r].pre
  /\ /\ after[r].offset = rs[r].offset + need /\ after[r].end = rs[r].end /\ after[r].size = rs[r].size - need
     /\ after[r].is_dirty = rs[r].is_dirty /\ after[r].next = rs[r].next /\ after[r].pre = a
  /\ \A x \in Live(rs) : x # r =>
       /\ after[x].offset = rs[x].offset /\ after[x].end = rs[x].end /\ after[x].size = rs[x].size
       /\ after[x].is_dirty = rs[x].is_dirty /\ after[x].pre = rs[x].pre
       /\ after[x].next = IF x = rs[r].pre THEN a ELSE rs[x].next

LEMMA SplitAt ==
  ASSUME AllocatorAssumption, NEW rs, NEW first, Linked(rs, first), NEW r \in Live(rs), NEW need \in Nat,
         need >= page_size, rs[r].size - need >= page_size, NEW a \in Ranges, rs[a] = None,
         NEW after, IsSplit(after, rs, r, need, a)
  PROVE  Divided(after, rs, first, r, need, a)
  <1>1. /\ rs \in [Ranges -> Fields \cup {None}] /\ MapSize \in Nat /\ page_size \in Nat \ {0}
        /\ None \notin Fields /\ None \notin Ranges
    BY DEF Linked, AllocatorAssumption
  <1>2. /\ r \in Ranges /\ rs[r] \in Fields /\ rs[r].offset \in Nat /\ rs[r].size \in Nat /\ rs[r].end \in Int
        /\ rs[r].end = rs[r].offset + rs[r].size - 1 /\ rs[r].end < MapSize
        /\ rs[r].pre # r
    BY LinkedAt
  <1>3. r # a /\ rs[r].pre # a
    <2>1. rs[r].pre = None \/ rs[r].pre \in Live(rs)
      BY LinkedAt
    <2> QED BY <1>1, <2>1 DEF Live
  <1>4. rs[r].pre \in Ranges \cup {None}
    BY <1>1, FieldsOf
  <1> DEFINE p == rs[r].pre
             taken == [MemRange(rs[r].offset, need) EXCEPT !.is_dirty = TRUE, !.next = r, !.pre = rs[r].pre]
             rest  == [rs[r] EXCEPT !.offset = taken.end + 1, !.size = @ - need, !.pre = a]
  <1>5. /\ taken.offset = rs[r].offset /\ taken.end = rs[r].offset + need - 1 /\ taken.size = need
        /\ taken.is_dirty = TRUE /\ taken.next = r /\ taken.pre = p /\ taken \in Fields
    <2>1. need \in 0 .. MapSize /\ rs[r].offset \in 0 .. MapSize /\ rs[r].offset + need - 1 \in Int
      BY <1>1, <1>2
    <2> QED BY <1>2, <1>4, <2>1 DEF MemRange, Fields
  <1> HIDE DEF taken
  <1>6. /\ rest.offset = rs[r].offset + need /\ rest.end = rs[r].end /\ rest.size = rs[r].size - need
        /\ rest.is_dirty = rs[r].is_dirty /\ rest.next = rs[r].next /\ rest.pre = a /\ rest \in Fields
    <2>1. rs[r].size - need \in 0 .. MapSize /\ rs[r].offset + need \in 0 .. MapSize
      BY <1>1, <1>2
    <2>2. taken.end + 1 = rs[r].offset + need
      BY <1>2, <1>5
    <2> QED BY <1>2, <2>1, <2>2 DEF Fields
  <1> HIDE DEF rest
  <1>7. after = [x \in Ranges |-> IF x = a THEN taken
                                  ELSE IF x = r THEN rest
                                  ELSE IF x = taken.pre THEN [rs[x] EXCEPT !.next = a]
                                  ELSE rs[x]]
    BY DEF IsSplit, taken, rest
  <1>8. /\ after[a] = taken /\ after[r] = rest
        /\ \A x \in Ranges : x # a /\ x # r => after[x] = IF x = p THEN [rs[x] EXCEPT !.next = a] ELSE rs[x]
    BY <1>2, <1>3, <1>5, <1>7
  <1>9. p # None => p \in Ranges /\ rs[p] \in Fields
    BY LinkedAt
  <1> HIDE DEF p
  <1>10. ASSUME NEW x \in Live(rs), x # r
         PROVE  /\ after[x] \in Fields
                /\ after[x].offset = rs[x].offset /\ after[x].end = rs[x].end /\ after[x].size = rs[x].size
                /\ after[x].is_dirty = rs[x].is_dirty /\ after[x].pre = rs[x].pre
                /\ after[x].next = IF x = p THEN a ELSE rs[x].next
    <2>1. x \in Ranges /\ x # a /\ rs[x] \in Fields
      BY <1>1 DEF Live
    <2>2. CASE x = p
      <3>1. after[x] = [rs[x] EXCEPT !.next = a]
        BY <1>8, <1>10, <2>1, <2>2
      <3> QED BY <2>1, <2>2, <3>1 DEF Fields
    <2>3. CASE x # p
      <3>1. after[x] = rs[x]
        BY <1>8, <1>10, <2>1, <2>3
      <3> QED BY <2>1, <2>3, <3>1
    <2> QED BY <2>2, <2>3
  <1>11. ASSUME NEW x \in Ranges, x \notin Live(rs), x # a PROVE after[x] = None
    <2>1. x # r /\ rs[x] = None
      BY <1>11 DEF Live
    <2>2. x # p
      BY <1>1, <1>9, <2>1
    <2> QED BY <1>8, <1>11, <2>1, <2>2
  <1>12. Live(after) = Live(rs) \cup {a}
    <2>1. \A x \in Ranges : after[x] # None <=> x \in Live(rs) \/ x = a
      <3> SUFFICES ASSUME NEW x \in Ranges PROVE after[x] # None <=> x \in Live(rs) \/ x = a
        OBVIOUS
      <3>1. CASE x = a
        BY <1>1, <1>5, <1>8, <3>1
      <3>2. CASE x = r
        BY <1>1, <1>6, <1>8, <3>2
      <3>3. CASE x \in Live(rs) /\ x # r
        BY <1>1, <1>10, <3>3
      <3>4. CASE x \notin Live(rs) /\ x # a
        BY <1>11, <3>4
      <3> QED BY <3>1, <3>2, <3>3, <3>4
    <2> QED BY <2>1 DEF Live
  <1>13. after \in [Ranges -> Fields \cup {None}]
    <2>1. \A x \in Ranges : after[x] \in Fields \cup {None}
      BY <1>5, <1>6, <1>8, <1>10, <1>11
    <2>2. after = [x \in Ranges |-> after[x]]
      BY <1>7
    <2> QED BY <2>1, <2>2
  <1> QED BY <1>5, <1>6, <1>8, <1>10, <1>12, <1>13 DEF Divided, p

LEMMA SplitKeepsList ==
  ASSUME AllocatorAssumption, NEW rs, NEW first, Linked(rs, first), NEW r \in Live(rs), NEW need \in Nat,
         need >= page_size, rs[r].size - need >= page_size, NEW a \in Ranges, rs[a] = None,
         NEW after, Divided(after, rs, first, r, need, a)
  PROVE  Linked(after, IF first = r THEN a ELSE first)
  <1>1. /\ after \in [Ranges -> Fields \cup {None}] /\ Live(after) = Live(rs) \cup {a}
        /\ after[a].offset = rs[r].offset /\ after[a].end = rs[r].offset + need - 1 /\ after[a].size = need
        /\ after[a].next = r /\ after[a].pre = rs[r].pre
        /\ after[r].offset = rs[r].offset + need /\ after[r].end = rs[r].end
        /\ after[r].size = rs[r].size - need /\ after[r].next = rs[r].next /\ after[r].pre = a
    BY DEF Divided
  <1>2. \A x \in Live(rs) : x # r =>
          /\ after[x].offset = rs[x].offset /\ after[x].end = rs[x].end /\ after[x].size = rs[x].size
          /\ after[x].pre = rs[x].pre /\ after[x].next = IF x = rs[r].pre THEN a ELSE rs[x].next
    BY DEF Divided
  <1>3. \A x \in Live(rs) :
          /\ rs[x].offset \in Nat /\ rs[x].size \in Nat /\ rs[x].end \in Int
          /\ rs[x].end = rs[x].offset + rs[x].size - 1 /\ rs[x].offset <= rs[x].end /\ rs[x].end < MapSize
    BY LinkedAt
  <1>4. /\ MapSize \in Nat /\ page_size \in Nat \ {0} /\ None \notin Ranges /\ a # None /\ a \notin Live(rs)
    BY DEF AllocatorAssumption, Live
  <1>5. \A x \in Live(rs) :
          /\ x # None
          /\ rs[x].size >= page_size \/ (rs[x].pre = None /\ rs[x].next = None)
          /\ rs[x].pre = None => x = first /\ rs[x].offset = 0
          /\ rs[x].pre # None => /\ rs[x].pre \in Live(rs) /\ rs[x].pre # x /\ rs[rs[x].pre].next = x
                                 /\ rs[x].offset = rs[rs[x].pre].end + 1
          /\ rs[x].next = None => rs[x].end = MapSize - 1
          /\ rs[x].next # None => /\ rs[x].next \in Live(rs) /\ rs[x].next # x /\ rs[rs[x].next].pre = x
    BY LinkedAt
  <1>6. IF first = None THEN Live(rs) = {} ELSE first \in Live(rs) /\ rs[first].pre = None
    BY DEF Linked
  <1> DEFINE newFirst == IF first = r THEN a ELSE first
  <1>7. newFirst # None /\ newFirst \in Live(after) /\ after[newFirst].pre = None
    <2>1. first # None /\ first \in Live(rs) /\ rs[first].pre = None
      BY <1>6
    <2>2. CASE first = r
      BY <1>1, <1>4, <2>1, <2>2
    <2>3. CASE first # r
      BY <1>1, <1>2, <2>1, <2>3
    <2> QED BY <2>2, <2>3
  <1>8. ASSUME NEW x \in Live(after) PROVE Placed(after, x)
    <2>1. CASE x = a
      BY <1>1, <1>3, <1>4, <2>1 DEF Placed
    <2>2. CASE x = r
      BY <1>1, <1>3, <1>4, <2>2 DEF Placed
    <2>3. CASE x # a /\ x # r
      <3>1. x \in Live(rs)
        BY <1>1, <2>3
      <3>2. rs[x].size >= page_size \/ (rs[x].pre = None /\ rs[x].next = None)
        BY <1>5, <3>1
      <3>3. x = rs[r].pre => rs[x].next = r /\ r # None
        BY <1>5, <3>1
      <3>4. rs[x].size > 0 /\ rs[x].end = rs[x].offset + rs[x].size - 1 /\ rs[x].end < MapSize
        BY <1>3, <3>1
      <3>5. /\ after[x].offset = rs[x].offset /\ after[x].end = rs[x].end /\ after[x].size = rs[x].size
            /\ after[x].pre = rs[x].pre /\ after[x].next = IF x = rs[r].pre THEN a ELSE rs[x].next
        BY <1>2, <2>3, <3>1
      <3>6. after[x].size >= page_size \/ (after[x].pre = None /\ after[x].next = None)
        BY <3>2, <3>3, <3>5
      <3> QED BY <3>4, <3>5, <3>6 DEF Placed
    <2> QED BY <2>1, <2>2, <2>3
  <1>9. ASSUME NEW x \in Live(after) PROVE FollowsIts(after, newFirst, x)
    <2>1. CASE x = a
      <3>1. CASE rs[r].pre = None
        BY <1>1, <1>5, <2>1, <3>1 DEF FollowsIts
      <3>2. CASE rs[r].pre # None
        <4> DEFINE p == rs[r].pre
        <4>1. p \in Live(rs) /\ p # r /\ rs[r].offset = rs[p].end + 1
          BY <1>5, <3>2
        <4>2. p \in Live(after) /\ after[p].next = a /\ after[p].end = rs[p].end
          BY <1>1, <1>2, <4>1
        <4> QED BY <1>1, <2>1, <3>2, <4>1, <4>2 DEF FollowsIts
      <3> QED BY <3>1, <3>2
    <2>2. CASE x = r
      <3>1. after[r].pre = a /\ a # None /\ a \in Live(after) /\ after[a].next = r
        BY <1>1, <1>4
      <3>2. after[r].offset = after[a].end + 1
        BY <1>1, <1>3
      <3> QED BY <2>2, <3>1, <3>2 DEF FollowsIts
    <2>3. CASE x # a /\ x # r
      <3>1. x \in Live(rs)
        BY <1>1, <2>3
      <3> DEFINE p == rs[x].pre
      <3>2. after[x].pre = p /\ after[x].offset = rs[x].offset
        BY <1>2, <2>3, <3>1
      <3>3. CASE p = None
        BY <1>5, <2>3, <3>1, <3>2, <3>3 DEF FollowsIts
      <3>4. CASE p # None
        <4>1. p \in Live(rs) /\ rs[p].next = x /\ rs[x].offset = rs[p].end + 1
          BY <1>5, <3>1, <3>4
        <4>2. p # rs[r].pre
          <5>1. p = rs[r].pre => rs[p].next = r
            BY <1>5, <3>4
          <5> QED BY <2>3, <4>1, <5>1
        <4>3. p \in Live(after) /\ after[p].next = x /\ after[p].end = rs[p].end
          <5>1. CASE p = r
            BY <1>1, <4>1, <5>1
          <5>2. CASE p # r
            BY <1>1, <1>2, <4>1, <4>2, <5>2
          <5> QED BY <5>1, <5>2
        <4> QED BY <3>2, <3>4, <4>1, <4>3 DEF FollowsIts
      <3> QED BY <3>3, <3>4
    <2> QED BY <2>1, <2>2, <2>3
  <1>10. ASSUME NEW x \in Live(after) PROVE LeadsTo(after, x)
    <2>1. CASE x = a
      <3>1. r \in Live(after) /\ r # None
        BY <1>1, <1>5
      <3> QED BY <1>1, <2>1, <3>1 DEF LeadsTo
    <2>2. CASE x # a
      <3>1. x \in Live(rs)
        BY <1>1, <2>2
      <3>2. CASE x = rs[r].pre
        <4>1. x # r
          BY <1>5, <3>1, <3>2
        <4>2. after[x].next = a /\ a \in Live(after) /\ after[a].pre = x
          BY <1>1, <1>2, <3>1, <3>2, <4>1
        <4> QED BY <1>4, <4>2 DEF LeadsTo
      <3>3. CASE x # rs[r].pre
        <4> DEFINE y == rs[x].next
        <4>1. after[x].next = y /\ after[x].end = rs[x].end
          BY <1>1, <1>2, <3>1, <3>3
        <4>2. CASE y = None
          BY <1>5, <3>1, <4>1, <4>2 DEF LeadsTo
        <4>3. CASE y # None
          <5>1. y \in Live(rs) /\ rs[y].pre = x
            BY <1>5, <3>1, <4>3
          <5>2. y # r
            BY <3>3, <5>1
          <5>3. y \in Live(after) /\ after[y].pre = x
            BY <1>1, <1>2, <5>1, <5>2
          <5> QED BY <4>1, <4>3, <5>3 DEF LeadsTo
        <4> QED BY <4>2, <4>3
      <3> QED BY <3>2, <3>3
    <2> QED BY <2>1, <2>2
  <1>11. ASSUME NEW x \in Live(rs), x # r
         PROVE  /\ Apart(after, x, r) /\ Apart(after, r, x) /\ Apart(after, x, a) /\ Apart(after, a, x)
    <2>1. rs[x].end < rs[r].offset \/ rs[r].end < rs[x].offset
      BY <1>11 DEF Linked, Apart
    <2>2. after[x].offset = rs[x].offset /\ after[x].end = rs[x].end
      BY <1>2, <1>11
    <2>3. /\ rs[x].offset \in Nat /\ rs[x].end \in Int /\ rs[r].offset \in Nat /\ rs[r].end \in Int
          /\ rs[r].size \in Nat /\ rs[r].end = rs[r].offset + rs[r].size - 1
      BY <1>3
    <2> QED BY <1>1, <1>4, <2>1, <2>2, <2>3 DEF Apart
  <1>12. Apart(after, a, r) /\ Apart(after, r, a)
    <2>1. after[a].end < after[r].offset
      BY <1>1, <1>3
    <2> QED BY <2>1 DEF Apart
  <1>13. ASSUME NEW x \in Live(after), NEW q \in Live(after), x # q PROVE Apart(after, x, q)
    <2>1. CASE x \in {a, r} /\ q \in {a, r}
      BY <1>12, <1>13, <2>1
    <2>2. CASE x \notin {a, r} /\ q \in {a, r}
      BY <1>1, <1>11, <2>2
    <2>3. CASE x \in {a, r} /\ q \notin {a, r}
      BY <1>1, <1>11, <2>3
    <2>4. CASE x \notin {a, r} /\ q \notin {a, r}
      <3>1. x \in Live(rs) /\ q \in Live(rs) /\ x # r /\ q # r
        BY <1>1, <2>4
      <3>2. Apart(rs, x, q)
        BY <1>13, <3>1 DEF Linked
      <3>3. /\ after[x].offset = rs[x].offset /\ after[x].end = rs[x].end
            /\ after[q].offset = rs[q].offset /\ after[q].end = rs[q].end
        BY <1>2, <3>1
      <3> QED BY <3>2, <3>3 DEF Apart
    <2> QED BY <2>1, <2>2, <2>3, <2>4
  <1> HIDE DEF newFirst
  <1>14. Linked(after, newFirst)
    BY <1>1, <1>7, <1>8, <1>9, <1>10, <1>13 DEF Linked
  <1> QED BY <1>14 DEF newFirst

(* The range given away is in use, so that no new neighbours are free.     *)
LEMMA SplitSeparates ==
  ASSUME AllocatorAssumption, NEW rs, NEW first, Linked(rs, first), Separated(rs, {}), NEW r \in Live(rs),
         NEW need \in Nat, NEW a \in Ranges, rs[a] = None, NEW after, Divided(after, rs, first, r, need, a)
  PROVE  Separated(after, {})
  <1>1. /\ Live(after) = Live(rs) \cup {a} /\ after[a].is_dirty /\ after[r].pre = a
        /\ after[r].is_dirty = rs[r].is_dirty
    BY DEF Divided
  <1>2. \A x \in Live(rs) : x # r => after[x].pre = rs[x].pre /\ after[x].is_dirty = rs[x].is_dirty
    BY DEF Divided
  <1>3. SUFFICES ASSUME NEW x \in Live(after), after[x].pre # None
                 PROVE  after[x].is_dirty \/ after[after[x].pre].is_dirty
    BY DEF Separated
  <1>4. CASE x = a \/ x = r
    BY <1>1, <1>4
  <1>5. CASE x # a /\ x # r
    <2>1. x \in Live(rs) /\ after[x].pre = rs[x].pre /\ after[x].is_dirty = rs[x].is_dirty
      BY <1>1, <1>2, <1>5
    <2>2. rs[x].pre \in Live(rs)
      BY <1>3, <2>1, LinkedAt
    <2>3. rs[x].is_dirty \/ rs[rs[x].pre].is_dirty
      BY <1>3, <2>1 DEF Separated
    <2>4. after[rs[x].pre].is_dirty = rs[rs[x].pre].is_dirty
      BY <1>1, <1>2, <2>2
    <2> QED BY <2>1, <2>3, <2>4
  <1> QED BY <1>4, <1>5

(* The search passes free ranges that are too small, and takes no other.   *)
LEMMA SearchFinds ==
  ASSUME AllocatorAssumption, Linked(range, range_list), NEW need \in Nat,
         search_first_applicable_range(need) # None
  PROVE  /\ search_first_applicable_range(need) \in Live(range)
         /\ ~range[search_first_applicable_range(need)].is_dirty
         /\ range[search_first_applicable_range(need)].size >= need
  <1> DEFINE fits == {n \in Positions : Applicable(n, need)}
             m    == CHOOSE n \in fits : \A k \in fits : n <= k
  <1>1. search_first_applicable_range(need) = IF fits = {} THEN None ELSE nth[m]
    BY DEF search_first_applicable_range
  <1>2. fits # {} /\ search_first_applicable_range(need) = nth[m]
    BY <1>1
  <1>3. fits \subseteq Nat
    <2>1. Positions \subseteq 1 .. Cardinality(Ranges)
      BY WalkVisitsAll
    <2>2. fits \subseteq Positions /\ \A n : 1 .. n \subseteq Nat
      OBVIOUS
    <2> HIDE DEF fits
    <2> QED BY <2>1, <2>2
  <1>4. m \in fits
    <2>1. \E n \in fits : \A k \in fits : n <= k
      <3> HIDE DEF fits, m
      <3> QED BY <1>2, <1>3, LeastNumber
    <2> HIDE DEF fits
    <2> QED BY <2>1
  <1>5. m \in Positions /\ Applicable(m, need)
    BY <1>4
  <1> HIDE DEF m, fits
  <1>6. nth[m] \in Live(range)
    <2>1. {nth[n] : n \in Positions} = Live(range)
      BY WalkVisitsAll
    <2> QED BY <1>5, <2>1
  <1> QED BY <1>2, <1>5, <1>6 DEF Applicable

(* What is asked for is rounded up.                                        *)
LEMMA NeedSuffices ==
  ASSUME AllocatorAssumption, NEW size \in 1 .. MaxRequest
  PROVE  SizeNeed(size) \in Nat /\ SizeNeed(size) >= page_size /\ SizeNeed(size) >= size
  <1>1. page_size \in Nat \ {0} /\ MaxRequest \in Nat /\ size \in Nat
    BY DEF AllocatorAssumption
  <1> DEFINE s == size + page_size - 1
             q == s \div page_size
  <1>2. \A k \in Nat \ {0}, x \in Nat : x \div k \in Nat /\ k * (x \div k) <= x /\ x < k * (x \div k) + k
    OBVIOUS
  <1>3. s \in Nat /\ q \in Nat /\ s < page_size * q + page_size
    BY <1>1, <1>2
  <1>4. RoundUp(size) = q * page_size
    BY DEF RoundUp
  <1> HIDE DEF q
  <1>5. q * page_size = page_size * q /\ page_size * q \in Nat
    BY <1>1, <1>3
  <1>6. RoundUp(size) \in Nat /\ RoundUp(size) >= size
    BY <1>1, <1>3, <1>4, <1>5
  <1> HIDE DEF s
  <1> QED BY <1>1, <1>6 DEF SizeNeed

(* No buffer begins in a range that is free.                               *)
LEMMA FreeHoldsNone ==
  ASSUME AllocatorAssumption, NEW rs, NEW first, Linked(rs, first), NEW bs, HeldIn(rs, bs),
         NEW r \in Live(rs), ~rs[r].is_dirty, NEW c \in Mapped(bs)
  PROVE  ~(rs[r].offset <= c.offset /\ c.offset <= rs[r].end)
  <1>1. PICK q \in InUse(rs) : rs[q].offset = c.offset
    BY DEF HeldIn
  <1>2. q \in Live(rs) /\ q # r
    BY DEF InUse
  <1> QED BY <1>1, <1>2, Exclusive

(* A range given away whole, or in part, is its buffer's.                  *)
LEMMA HeldWhole ==
  ASSUME AllocatorAssumption, NEW rs, NEW first, Linked(rs, first), NEW bs, HeldIn(rs, bs),
         NEW r \in Live(rs), ~rs[r].is_dirty, NEW size \in Nat, size <= rs[r].size,
         NEW after, SameList(after, rs, first, r, TRUE),
         NEW b, b.home = "map", b.offset = rs[r].offset, b.size = size
  PROVE  HeldIn(after, bs \cup {b})
  <1> DEFINE all == bs \cup {b}
  <1>1. Mapped(all) = Mapped(bs) \cup {b} /\ b.offset = rs[r].offset /\ b.size = size
    BY DEF Mapped
  <1> HIDE DEF all
  <1>2. /\ Live(after) = Live(rs)
        /\ \A x \in Live(rs) : /\ after[x].offset = rs[x].offset /\ after[x].size = rs[x].size
                               /\ after[x].is_dirty = IF x = r THEN TRUE ELSE rs[x].is_dirty
    BY DEF SameList
  <1>3. rs[r].offset \in Nat /\ rs[r].end \in Int /\ rs[r].offset <= rs[r].end
    BY LinkedAt
  <1>4. \A c \in Mapped(bs) : c.offset # rs[r].offset
    BY <1>3, FreeHoldsNone
  <1>5. \A x \in Live(rs) : rs[x].offset = rs[r].offset => x = r
    BY <1>3, Exclusive
  <1>6. InUse(after) = InUse(rs) \cup {r}
    BY <1>2 DEF InUse
  <1>7. {after[x].offset : x \in InUse(after)} = {c.offset : c \in Mapped(all)}
    <2>1. {rs[x].offset : x \in InUse(rs)} = {c.offset : c \in Mapped(bs)}
      BY DEF HeldIn
    <2>2. \A x \in InUse(after) : after[x].offset = rs[x].offset
      BY <1>2 DEF InUse
    <2> QED BY <1>1, <1>6, <2>1, <2>2
  <1>8. ASSUME NEW c \in Mapped(all), NEW x \in Live(after), after[x].offset = c.offset
        PROVE  after[x].size >= c.size
    <2>1. x \in Live(rs) /\ after[x].offset = rs[x].offset /\ after[x].size = rs[x].size
      BY <1>2
    <2>2. CASE c = b
      BY <1>1, <1>5, <1>8, <2>1, <2>2
    <2>3. CASE c \in Mapped(bs)
      BY <1>8, <2>1, <2>3 DEF HeldIn
    <2> QED BY <1>1, <2>2, <2>3
  <1>9. ASSUME NEW c \in Mapped(all), NEW d \in Mapped(all), c.offset = d.offset PROVE c = d
    <2>1. CASE c \in Mapped(bs) /\ d \in Mapped(bs)
      BY <1>9, <2>1 DEF HeldIn
    <2>2. CASE c = b \/ d = b
      BY <1>1, <1>4, <1>9, <2>2
    <2> QED BY <1>1, <2>1, <2>2
  <1>10. HeldIn(after, all)
    BY <1>7, <1>8, <1>9 DEF HeldIn
  <1> QED BY <1>10 DEF all

LEMMA HeldPart ==
  ASSUME AllocatorAssumption, NEW rs, NEW first, Linked(rs, first), NEW bs, HeldIn(rs, bs),
         NEW r \in Live(rs), ~rs[r].is_dirty, NEW need \in Nat, need >= page_size,
         rs[r].size - need >= page_size, NEW size \in Nat, size <= need,
         NEW a \in Ranges, rs[a] = None, NEW after, Divided(after, rs, first, r, need, a),
         NEW b, b.home = "map", b.offset = rs[r].offset, b.size = size
  PROVE  HeldIn(after, bs \cup {b})
  <1> DEFINE all == bs \cup {b}
  <1>1. Mapped(all) = Mapped(bs) \cup {b} /\ b.offset = rs[r].offset /\ b.size = size
    BY DEF Mapped
  <1> HIDE DEF all
  <1>2. /\ Live(after) = Live(rs) \cup {a} /\ after[a].offset = rs[r].offset /\ after[a].size = need
        /\ after[a].is_dirty /\ after[r].offset = rs[r].offset + need /\ ~after[r].is_dirty
    BY DEF Divided
  <1>3. \A x \in Live(rs) : x # r => /\ after[x].offset = rs[x].offset /\ after[x].size = rs[x].size
                                     /\ after[x].is_dirty = rs[x].is_dirty
    BY DEF Divided
  <1>4. /\ rs[r].offset \in Nat /\ rs[r].end \in Int /\ rs[r].size \in Nat /\ rs[r].offset <= rs[r].end
        /\ rs[r].end = rs[r].offset + rs[r].size - 1
    BY LinkedAt
  <1>5. page_size \in Nat \ {0}
    BY DEF AllocatorAssumption
  <1>6. rs[r].offset <= rs[r].offset + need /\ rs[r].offset + need <= rs[r].end
        /\ rs[r].offset + need # rs[r].offset
    BY <1>4, <1>5
  <1>7. \A c \in Mapped(bs) : c.offset # rs[r].offset /\ c.offset # rs[r].offset + need
    <2>1. \A c \in Mapped(bs) : ~(rs[r].offset <= c.offset /\ c.offset <= rs[r].end)
      BY FreeHoldsNone
    <2> QED BY <1>4, <1>6, <2>1
  <1>8. \A x \in Live(rs) : rs[x].offset = rs[r].offset => x = r
    BY <1>4, Exclusive
  <1>9. a \notin Live(rs)
    BY DEF Live
  <1>10. InUse(after) = InUse(rs) \cup {a} /\ a \notin InUse(rs) /\ r \notin InUse(rs)
    BY <1>2, <1>3, <1>9 DEF InUse
  <1>11. {after[x].offset : x \in InUse(after)} = {c.offset : c \in Mapped(all)}
    <2>1. {rs[x].offset : x \in InUse(rs)} = {c.offset : c \in Mapped(bs)}
      BY DEF HeldIn
    <2>2. \A x \in InUse(rs) : after[x].offset = rs[x].offset
      BY <1>3, <1>10 DEF InUse
    <2> QED BY <1>1, <1>2, <1>10, <2>1, <2>2
  <1>12. ASSUME NEW c \in Mapped(all), NEW x \in Live(after), after[x].offset = c.offset
         PROVE  after[x].size >= c.size
    <2>1. CASE c = b
      <3>1. CASE x = a
        BY <1>1, <1>2, <2>1, <3>1
      <3>2. CASE x = r
        BY <1>1, <1>2, <1>6, <1>12, <2>1, <3>2
      <3>3. CASE x # a /\ x # r
        BY <1>1, <1>2, <1>3, <1>8, <1>12, <2>1, <3>3
      <3> QED BY <3>1, <3>2, <3>3
    <2>2. CASE c \in Mapped(bs)
      <3>1. x # a /\ x # r
        BY <1>2, <1>7, <1>12, <2>2
      <3>2. x \in Live(rs) /\ after[x].offset = rs[x].offset /\ after[x].size = rs[x].size
        BY <1>2, <1>3, <3>1
      <3> QED BY <1>12, <2>2, <3>2 DEF HeldIn
    <2> QED BY <1>1, <2>1, <2>2
  <1>13. ASSUME NEW c \in Mapped(all), NEW d \in Mapped(all), c.offset = d.offset PROVE c = d
    <2>1. CASE c \in Mapped(bs) /\ d \in Mapped(bs)
      BY <1>13, <2>1 DEF HeldIn
    <2>2. CASE c = b \/ d = b
      BY <1>1, <1>7, <1>13, <2>2
    <2> QED BY <1>1, <2>1, <2>2
  <1>14. HeldIn(after, all)
    BY <1>11, <1>12, <1>13 DEF HeldIn
  <1> QED BY <1>14 DEF all

(* A buffer given back takes its range with it, and no other.              *)
LEMMA HeldFreed ==
  ASSUME AllocatorAssumption, NEW rs, NEW first, Linked(rs, first), Separated(rs, {}),
         NEW bs, bs \subseteq HeapBuffers \cup MapBuffers, HeldIn(rs, bs), NEW b \in Mapped(bs),
         NEW r \in InUse(rs), rs[r].offset = b.offset
  PROVE  HeldIn(Freed(rs, r), bs \ {b})
  <1> DEFINE after == Freed(rs, r)
  <1>1. /\ Live(after) \subseteq Live(rs) /\ InUse(after) = InUse(rs) \ {r}
        /\ \A x \in Live(after) : after[x].offset = rs[x].offset /\ after[x].size >= rs[x].size
        /\ Linked(after, first)
    BY FreedKeeps
  <1>2. \A x \in Live(after) : after[x].size \in Nat
    <2> HIDE DEF after
    <2> QED BY <1>1, LinkedAt
  <1>3. \A x \in Live(rs) : rs[x].size \in Nat /\ rs[x].offset \in Nat /\ rs[x].end \in Int /\ rs[x].offset <= rs[x].end
    BY LinkedAt
  <1> HIDE DEF after
  <1>4. Mapped(bs \ {b}) = Mapped(bs) \ {b}
    BY DEF Mapped
  <1>5. \A x \in InUse(rs) : x \in Live(rs) /\ (rs[x].offset = rs[r].offset => x = r)
    BY <1>3, Exclusive DEF InUse
  <1>6. \A x \in InUse(after) : after[x].offset = rs[x].offset
    BY <1>1 DEF InUse
  <1>7. {after[x].offset : x \in InUse(after)} = {c.offset : c \in Mapped(bs \ {b})}
    <2>1. /\ \A x \in InUse(rs) : \E c \in Mapped(bs) : rs[x].offset = c.offset
          /\ \A c \in Mapped(bs) : \E x \in InUse(rs) : rs[x].offset = c.offset
      BY DEF HeldIn
    <2>2. ASSUME NEW x \in InUse(after) PROVE \E c \in Mapped(bs) \ {b} : after[x].offset = c.offset
      <3>1. x \in InUse(rs) /\ x # r
        BY <1>1
      <3>2. PICK c \in Mapped(bs) : rs[x].offset = c.offset
        BY <2>1, <3>1
      <3>3. c # b
        BY <1>5, <3>1, <3>2
      <3> QED BY <1>6, <3>2, <3>3
    <2>3. ASSUME NEW c \in Mapped(bs) \ {b} PROVE \E x \in InUse(after) : after[x].offset = c.offset
      <3>1. PICK x \in InUse(rs) : rs[x].offset = c.offset
        BY <2>1
      <3>2. x # r
        BY <3>1 DEF HeldIn
      <3> QED BY <1>1, <1>6, <3>1, <3>2
    <2>4. {after[x].offset : x \in InUse(after)} = {c.offset : c \in Mapped(bs) \ {b}}
      <3>1. \A x \in InUse(after) : \E c \in Mapped(bs) \ {b} : after[x].offset = c.offset
        BY <2>2
      <3> QED BY <3>1, <2>3
    <2> QED BY <1>4, <2>4
  <1>8. ASSUME NEW c \in Mapped(bs) \ {b}, NEW x \in Live(after), after[x].offset = c.offset
        PROVE  after[x].size >= c.size
    <2>1. x \in Live(rs) /\ rs[x].offset = c.offset /\ after[x].size >= rs[x].size
      BY <1>1, <1>8
    <2>2. rs[x].size >= c.size
      BY <2>1 DEF HeldIn
    <2>3. c \in MapBuffers
      BY DEF Mapped, HeapBuffers, MapBuffers
    <2>4. c.size \in Int
      BY <2>3 DEF MapBuffers
    <2> QED BY <1>2, <1>3, <2>1, <2>2, <2>4
  <1>9. \A c, d \in Mapped(bs) \ {b} : c.offset = d.offset => c = d
    BY DEF HeldIn
  <1>10. HeldIn(after, bs \ {b})
    BY <1>4, <1>7, <1>8, <1>9 DEF HeldIn
  <1> QED BY <1>10 DEF after

(* What the list and the buffers say of the walk is what is promised.      *)
LEMMA IntactOf ==
  ASSUME AllocatorAssumption, MemoryInv
  PROVE  RangesIntact
  <1> DEFINE R(n) == range[nth[n]]
             used == {p \in Positions : R(p).is_dirty}
  <1>1. Linked(range, range_list) /\ Separated(range, {}) /\ HeldIn(range, buffers)
    BY DEF MemoryInv
  <1>2. /\ Positions \subseteq 1 .. Cardinality(Ranges) /\ {nth[n] : n \in Positions} = Live(range)
        /\ \A n \in Positions : n = 1 => nth[n] = range_list
        /\ \A n \in Positions : n # 1 =>
             n - 1 \in Positions /\ R(n).pre = nth[n - 1] /\ R(n).offset = R(n - 1).end + 1
        /\ \A n \in Positions : n + 1 \notin Positions => R(n).next = None
    BY <1>1, WalkVisitsAll
  <1>3. \A n \in Positions : nth[n] \in Live(range) /\ nth[n] # None
    BY <1>2 DEF Positions
  <1>4. ASSUME NEW n \in Positions
        PROVE  /\ R(n).end = R(n).offset + R(n).size - 1 /\ R(n).size > 0
               /\ R(n).offset = IF n = 1 THEN 0 ELSE R(n - 1).end + 1
               /\ R(n).pre = IF n = 1 THEN None ELSE nth[n - 1]
               /\ n > 1 => R(n).is_dirty \/ R(n - 1).is_dirty
               /\ n + 1 \notin Positions => R(n).end = MapSize - 1
    <2>1. R(n).end = R(n).offset + R(n).size - 1 /\ R(n).size > 0
      BY <1>1, <1>3 DEF Linked, Placed
    <2>2. ASSUME n = 1 PROVE R(n).offset = 0 /\ R(n).pre = None
      <3>1. nth[n] = range_list
        BY <1>2, <2>2
      <3>2. range_list # None
        BY <1>3, <3>1
      <3>3. R(n).pre = None
        BY <1>1, <3>1, <3>2 DEF Linked
      <3> QED BY <1>1, <1>3, <3>3, LinkedAt
    <2>3. ASSUME n # 1
          PROVE  R(n).offset = R(n - 1).end + 1 /\ R(n).pre = nth[n - 1] /\ (R(n).is_dirty \/ R(n - 1).is_dirty)
      <3>1. n - 1 \in Positions /\ R(n).pre = nth[n - 1] /\ R(n).offset = R(n - 1).end + 1
        BY <1>2, <2>3
      <3>2. nth[n] \in Live(range) \ {} /\ nth[n - 1] # None
        BY <1>3, <3>1
      <3>3. R(n).is_dirty \/ range[R(n).pre].is_dirty
        BY <1>1, <3>1, <3>2 DEF Separated
      <3> QED BY <3>1, <3>3
    <2>4. ASSUME n + 1 \notin Positions PROVE R(n).end = MapSize - 1
      BY <1>1, <1>2, <1>3, <2>4, LinkedAt
    <2>5. n > 1 => n # 1
      BY <1>2
    <2> QED BY <2>1, <2>2, <2>3, <2>4, <2>5
  <1>5. {R(n).offset : n \in used} = {b.offset : b \in Mapped(buffers)}
    <2>1. \A n \in used : nth[n] \in InUse(range)
      BY <1>3 DEF InUse
    <2>2. ASSUME NEW r \in InUse(range) PROVE \E n \in used : nth[n] = r
      <3>1. PICK n \in Positions : nth[n] = r
        BY <1>2 DEF InUse
      <3>2. n \in used
        BY <3>1 DEF InUse
      <3> QED BY <3>1, <3>2
    <2>3. {range[r].offset : r \in InUse(range)} = {b.offset : b \in Mapped(buffers)}
      BY <1>1 DEF HeldIn
    <2> HIDE DEF used
    <2>4. {R(n).offset : n \in used} = {range[r].offset : r \in InUse(range)}
      BY <2>1, <2>2
    <2> QED BY <2>3, <2>4
  <1>6. \A b \in Mapped(buffers), n \in Positions : R(n).offset = b.offset => R(n).size >= b.size
    BY <1>1, <1>3 DEF HeldIn
  <1>7. Mapped(buffers) = {b \in buffers : b.home = "map"} /\ Live(range) = {r \in Ranges : range[r] # None}
    BY DEF Mapped, Live
  <1> QED BY <1>2, <1>4, <1>5, <1>6, <1>7 DEF RangesIntact

(* Without a range in use no buffer is of the map, and conversely.         *)
LEMMA NoneHeld ==
  ASSUME NEW rs, NEW bs, HeldIn(rs, bs), InUse(rs) = {}
  PROVE  Mapped(bs) = {}
  <1>1. {rs[r].offset : r \in {}} = {b.offset : b \in Mapped(bs)}
    BY DEF HeldIn
  <1> QED BY <1>1

LEMMA HeldNone ==
  ASSUME NEW rs, NEW bs, InUse(rs) = {}, Mapped(bs) = {}
  PROVE  HeldIn(rs, bs)
  BY DEF HeldIn

LEMMA OneRange ==
  ASSUME AllocatorAssumption, NEW r \in Ranges
  PROVE  LET after == [x \in Ranges |-> IF x = r THEN MemRange(0, MapSize) ELSE None]
         IN  Linked(after, r) /\ Separated(after, {}) /\ InUse(after) = {}
  <1> DEFINE after == [x \in Ranges |-> IF x = r THEN MemRange(0, MapSize) ELSE None]
  <1>1. MapSize \in Nat \ {0} /\ None \notin Fields /\ None \notin Ranges
    BY DEF AllocatorAssumption
  <1>2. /\ MemRange(0, MapSize) \in Fields /\ MemRange(0, MapSize).end = MapSize - 1
        /\ MemRange(0, MapSize).offset = 0 /\ MemRange(0, MapSize).size = MapSize
        /\ MemRange(0, MapSize).pre = None /\ MemRange(0, MapSize).next = None
        /\ MemRange(0, MapSize).is_dirty = FALSE
    BY <1>1 DEF Fields, MemRange
  <1>3. after \in [Ranges -> Fields \cup {None}] /\ Live(after) = {r} /\ after[r] = MemRange(0, MapSize)
    BY <1>1, <1>2 DEF Live
  <1> HIDE DEF after
  <1>4. Placed(after, r) /\ FollowsIts(after, r, r) /\ LeadsTo(after, r)
    BY <1>1, <1>2, <1>3 DEF Placed, FollowsIts, LeadsTo
  <1>5. Linked(after, r)
    BY <1>1, <1>2, <1>3, <1>4 DEF Linked
  <1>6. Separated(after, {}) /\ InUse(after) = {}
    BY <1>2, <1>3 DEF Separated, InUse
  <1> QED BY <1>5, <1>6 DEF after

LEMMA NoRange ==
  ASSUME AllocatorAssumption
  PROVE  LET after == [x \in Ranges |-> None]
         IN  Linked(after, None) /\ Separated(after, {}) /\ InUse(after) = {}
  BY DEF Linked, Separated, InUse, Live

LEMMA MemoryStarts ==
  ASSUME AllocatorAssumption, AllocatorInit
  PROVE  MemoryInv
  <1>1. Linked(range, range_list) /\ Separated(range, {}) /\ InUse(range) = {}
    BY NoRange DEF AllocatorInit
  <1>2. HeldIn(range, buffers)
    BY <1>1, HeldNone DEF AllocatorInit, Mapped
  <1>3. MaxAllocations \in Nat /\ range \in [Ranges -> Fields \cup {None}]
    BY <1>1 DEF AllocatorAssumption, Linked
  <1>4. AllocatorTypeOK
    <2>1. {is_live_direct_memory_mode, aborted} \subseteq BOOLEAN /\ range_list \in Ranges \cup {None}
          /\ buffers \subseteq HeapBuffers \cup MapBuffers /\ allocation_cnt = 0
      BY DEF AllocatorInit
    <2>2. allocation_cnt \in 0 .. MaxAllocations
      BY <1>3, <2>1
    <2> QED BY <1>3, <2>1, <2>2 DEF AllocatorTypeOK
  <1> QED BY <1>1, <1>2, <1>4 DEF MemoryInv, AllocatorInit

(* Setting up makes one free range of the map, where none was.             *)
LEMMA SetupKeeps ==
  ASSUME AllocatorAssumption, MemoryInv, SetupLiveDirectMemoryMode
  PROVE  MemoryInv'
  <1>1. /\ AllocatorTypeOK /\ Linked(range, range_list) /\ Separated(range, {}) /\ HeldIn(range, buffers)
        /\ range_list = None /\ Live(range) = {}
    BY DEF MemoryInv, Linked, SetupLiveDirectMemoryMode
  <1>2. UNCHANGED <<allocation_cnt, buffers>> /\ aborted' \in BOOLEAN
    BY <1>1 DEF SetupLiveDirectMemoryMode, AllocatorTypeOK
  <1>3. CASE UNCHANGED <<is_live_direct_memory_mode, range_list, range>>
    BY <1>1, <1>2, <1>3 DEF MemoryInv, AllocatorTypeOK
  <1>4. CASE /\ is_live_direct_memory_mode' = TRUE /\ range_list' = New
             /\ range' = [range EXCEPT ![New] = MemRange(0, MapSize)]
    <2>1. Ranges # {}
      <3>1. Cardinality(Ranges) * page_size > MapSize /\ page_size \in Nat /\ MapSize \in Nat
        BY DEF AllocatorAssumption
      <3>2. Cardinality(Ranges) # 0
        BY <3>1
      <3> QED BY <3>2, FS_EmptySet
    <2>2. \A r \in Ranges : range[r] = None
      BY <1>1 DEF Live
    <2>3. New \in Ranges
      BY <2>1, <2>2 DEF New
    <2>4. range' = [x \in Ranges |-> IF x = New THEN MemRange(0, MapSize) ELSE None]
      BY <1>1, <1>4, <2>2 DEF AllocatorTypeOK
    <2>5. Linked(range', range_list') /\ Separated(range', {}) /\ InUse(range') = {}
      BY <1>4, <2>3, <2>4, OneRange
    <2>6. Mapped(buffers) = {}
      <3>1. InUse(range) = {}
        BY <1>1 DEF InUse
      <3> QED BY <1>1, <3>1, NoneHeld
    <2>7. HeldIn(range', buffers')
      BY <1>2, <2>5, <2>6, HeldNone
    <2>8. range_list' # None /\ range' \in [Ranges -> Fields \cup {None}]
      BY <1>4, <2>3, <2>5 DEF AllocatorAssumption, Linked
    <2>9. AllocatorTypeOK'
      BY <1>1, <1>2, <1>4, <2>3, <2>8 DEF AllocatorTypeOK
    <2> QED BY <1>4, <2>5, <2>7, <2>8, <2>9 DEF MemoryInv
  <1> QED BY <1>3, <1>4 DEF SetupLiveDirectMemoryMode

(* A close that comes back found nothing in use.                           *)
LEMMA CloseKeeps ==
  ASSUME AllocatorAssumption, MemoryInv, CloseLiveDirectMemoryMode
  PROVE  MemoryInv'
  <1>1. AllocatorTypeOK /\ Linked(range, range_list) /\ Separated(range, {}) /\ HeldIn(range, buffers)
    BY DEF MemoryInv
  <1>2. CASE \E n \in Positions : range[nth[n]].is_dirty
    <2>1. UNCHANGED <<is_live_direct_memory_mode, allocation_cnt, range_list, range, buffers>> /\ aborted' = TRUE
      BY <1>2 DEF CloseLiveDirectMemoryMode
    <2> QED BY <2>1 DEF MemoryInv, AllocatorTypeOK
  <1>3. CASE ~\E n \in Positions : range[nth[n]].is_dirty
    <2>1. /\ is_live_direct_memory_mode' = FALSE /\ allocation_cnt' = 0 /\ range_list' = None
          /\ range' = [r \in Ranges |-> None] /\ UNCHANGED <<aborted, buffers>>
      BY <1>3 DEF CloseLiveDirectMemoryMode
    <2>2. InUse(range) = {}
      <3>1. {nth[n] : n \in Positions} = Live(range)
        BY <1>1, WalkVisitsAll
      <3> QED BY <1>3, <3>1 DEF InUse
    <2>3. Mapped(buffers) = {}
      BY <1>1, <2>2, NoneHeld
    <2>4. Linked(range', range_list') /\ Separated(range', {}) /\ InUse(range') = {}
      BY <2>1, NoRange
    <2>5. HeldIn(range', buffers')
      BY <2>1, <2>3, <2>4, HeldNone
    <2>6. MaxAllocations \in Nat /\ range' \in [Ranges -> Fields \cup {None}]
      BY <2>4 DEF AllocatorAssumption, Linked
    <2>7. AllocatorTypeOK'
      <3>1. /\ {is_live_direct_memory_mode', aborted'} \subseteq BOOLEAN
            /\ buffers' \subseteq HeapBuffers \cup MapBuffers
        BY <1>1, <2>1 DEF AllocatorTypeOK
      <3>2. allocation_cnt' \in 0 .. MaxAllocations /\ range_list' \in Ranges \cup {None}
        BY <2>1, <2>6
      <3> QED BY <2>6, <3>1, <3>2 DEF AllocatorTypeOK
    <2> QED BY <2>1, <2>4, <2>5, <2>7 DEF MemoryInv
  <1> QED BY <1>2, <1>3

(* Taking a range into use makes no free neighbours.                       *)
LEMMA MarkSeparates ==
  ASSUME NEW rs, NEW first, NEW r, NEW after, Separated(rs, {}), SameList(after, rs, first, r, TRUE),
         \A x \in Live(rs) : rs[x].pre # None => rs[x].pre \in Live(rs)
  PROVE  Separated(after, {})
  <1>1. /\ Live(after) = Live(rs)
        /\ \A x \in Live(rs) : /\ after[x].pre = rs[x].pre
                               /\ after[x].is_dirty = IF x = r THEN TRUE ELSE rs[x].is_dirty
    BY DEF SameList
  <1>2. ASSUME NEW x \in Live(after), after[x].pre # None
        PROVE  after[x].is_dirty \/ after[after[x].pre].is_dirty
    <2>1. x \in Live(rs) /\ rs[x].pre \in Live(rs) /\ after[x].pre = rs[x].pre
      BY <1>1, <1>2
    <2>2. rs[x].is_dirty \/ rs[rs[x].pre].is_dirty
      BY <1>2, <2>1 DEF Separated
    <2> QED BY <1>1, <2>1, <2>2
  <1> QED BY <1>2 DEF Separated

(* A request is given a range of the map, whole or without the rest ...    *)
LEMMA FromMapKeeps ==
  ASSUME AllocatorAssumption, MemoryInv, NEW size \in 1 .. MaxRequest, FromMap(size)
  PROVE  /\ Linked(range', range_list') /\ Separated(range', {}) /\ HeldIn(range', buffers')
         /\ range_list \in Ranges /\ range_list' \in Ranges
         /\ buffers' \subseteq HeapBuffers \cup MapBuffers
  <1> DEFINE need == SizeNeed(size)
             r    == search_first_applicable_range(need)
             b    == [home |-> "map", offset |-> range[r].offset, size |-> size]
  <1>1. /\ Linked(range, range_list) /\ Separated(range, {}) /\ HeldIn(range, buffers)
        /\ buffers \subseteq HeapBuffers \cup MapBuffers
    BY DEF MemoryInv, AllocatorTypeOK
  <1>2. r # None /\ alloc_in_free_range(r, need) /\ buffers' = buffers \cup {b}
    BY DEF FromMap
  <1>3. need \in Nat /\ need >= page_size /\ need >= size
    BY NeedSuffices
  <1>4. r \in Live(range) /\ ~range[r].is_dirty /\ range[r].size >= need
    <2> HIDE DEF need
    <2> QED BY <1>1, <1>2, <1>3, SearchFinds
  <1>5. b.home = "map" /\ b.offset = range[r].offset /\ b.size = size
    OBVIOUS
  <1>6. size \in Nat /\ page_size \in Nat \ {0} /\ MapSize \in Nat
    BY DEF AllocatorAssumption
  <1>7. b \in MapBuffers
    <2> HIDE DEF r, need
    <2>1. range[r].offset \in 0 .. MapSize
      BY <1>1, <1>4, LinkedAt, <1>6
    <2> QED BY <2>1 DEF MapBuffers
  <1>8. range_list \in Ranges
    BY <1>1, <1>4 DEF Linked, Live
  <1> HIDE DEF r, need, b
  <1>9. range[r].size \in Nat /\ range[r].size >= size /\ r \in Ranges
    BY <1>1, <1>3, <1>4, <1>6, LinkedAt
  <1>10. CASE range[r].size - need < page_size
    <2>1. range' = [range EXCEPT ![r].is_dirty = TRUE] /\ range_list' = range_list
      BY <1>2, <1>10 DEF alloc_in_free_range
    <2>2. IsMarked(range', range, r, TRUE)
      BY <2>1 DEF IsMarked
    <2>3. SameList(range', range, range_list, r, TRUE)
      BY <1>1, <1>4, <2>2, Dirtied
    <2>4. Linked(range', range_list')
      BY <2>1, <2>3 DEF SameList
    <2>5. Separated(range', {})
      <3>1. \A x \in Live(range) : range[x].pre # None => range[x].pre \in Live(range)
        BY <1>1, LinkedAt
      <3> QED BY <1>1, <2>3, <3>1, MarkSeparates
    <2>6. HeldIn(range', buffers')
      BY <1>1, <1>2, <1>4, <1>5, <1>6, <1>9, <2>3, HeldWhole
    <2> QED BY <1>1, <1>2, <1>7, <1>8, <2>1, <2>4, <2>5, <2>6
  <1>11. CASE ~(range[r].size - need < page_size)
    <2> DEFINE a == New
    <2>1. range[r].size - need >= page_size /\ range[r].size >= page_size
      BY <1>3, <1>6, <1>9, <1>11
    <2>2. a \in Ranges /\ range[a] = None
      <3>1. \E x \in Ranges : range[x] = None
        BY <1>1, <1>4, <2>1, ObjectLeft
      <3> QED BY <3>1 DEF New
    <2>3. IsSplit(range', range, r, need, a) /\ range_list' = IF range_list = r THEN a ELSE range_list
      BY <1>2, <1>11 DEF alloc_in_free_range, IsSplit
    <2> HIDE DEF a
    <2>4. Divided(range', range, range_list, r, need, a)
      BY <1>1, <1>3, <1>4, <2>1, <2>2, <2>3, SplitAt
    <2>5. Linked(range', range_list')
      BY <1>1, <1>3, <1>4, <2>1, <2>2, <2>3, <2>4, SplitKeepsList
    <2>6. Separated(range', {})
      BY <1>1, <1>3, <1>4, <2>2, <2>4, SplitSeparates
    <2>7. HeldIn(range', buffers')
      BY <1>1, <1>2, <1>3, <1>4, <1>5, <1>6, <2>1, <2>2, <2>4, HeldPart
    <2> QED BY <1>1, <1>2, <1>7, <1>8, <2>2, <2>3, <2>5, <2>6, <2>7
  <1> QED BY <1>10, <1>11

(* ... or memory of the heap, and then the map is left alone.              *)
LEMMA CallocKeeps ==
  ASSUME AllocatorAssumption, MemoryInv, NEW size \in 1 .. MaxRequest, Calloc(size)
  PROVE  MemoryInv'
  <1>1. /\ AllocatorTypeOK /\ Linked(range, range_list) /\ Separated(range, {}) /\ HeldIn(range, buffers)
        /\ is_live_direct_memory_mode <=> range_list # None
    BY DEF MemoryInv
  <1>2. /\ UNCHANGED <<is_live_direct_memory_mode, aborted>> /\ allocation_cnt' \in 0 .. MaxAllocations
    BY <1>1 DEF Calloc, AllocatorTypeOK, AllocatorAssumption
  <1>3. CASE FromMap(size)
    <2>1. /\ Linked(range', range_list') /\ Separated(range', {}) /\ HeldIn(range', buffers')
          /\ range_list \in Ranges /\ range_list' \in Ranges
          /\ buffers' \subseteq HeapBuffers \cup MapBuffers
      BY <1>3, FromMapKeeps
    <2>2. range_list # None /\ range_list' # None /\ range' \in [Ranges -> Fields \cup {None}]
      BY <2>1 DEF AllocatorAssumption, Linked
    <2>3. AllocatorTypeOK'
      BY <1>1, <1>2, <2>1, <2>2 DEF AllocatorTypeOK
    <2> QED BY <1>1, <1>2, <2>1, <2>2, <2>3 DEF MemoryInv
  <1>4. CASE FromHeap(size)
    <2> DEFINE c == CHOOSE b \in HeapBuffers : b \notin buffers
    <2>1. buffers' = buffers \cup {c} /\ UNCHANGED <<range_list, range>> /\ HeapBuffers \ buffers # {}
      BY <1>4 DEF FromHeap
    <2>2. c \in HeapBuffers
      BY <2>1
    <2> HIDE DEF c
    <2>3. Mapped(buffers') = Mapped(buffers)
      BY <2>1, <2>2 DEF Mapped, HeapBuffers
    <2>4. HeldIn(range', buffers')
      BY <1>1, <2>1, <2>3 DEF HeldIn
    <2>5. AllocatorTypeOK'
      BY <1>1, <1>2, <2>1, <2>2 DEF AllocatorTypeOK
    <2> QED BY <1>1, <1>2, <2>1, <2>4, <2>5 DEF MemoryInv
  <1> QED BY <1>3, <1>4 DEF Calloc

(* A buffer given back is found by its address: one range in use is there. *)
LEMMA FreeKeeps ==
  ASSUME AllocatorAssumption, MemoryInv, NEW b \in buffers, FreeBuffer(b)
  PROVE  MemoryInv'
  <1> DEFINE r == CHOOSE x \in {nth[n] : n \in Positions} : range[x].offset = b.offset
  <1>1. /\ AllocatorTypeOK /\ Linked(range, range_list) /\ Separated(range, {}) /\ HeldIn(range, buffers)
        /\ is_live_direct_memory_mode <=> range_list # None
    BY DEF MemoryInv
  <1>2. buffers' = buffers \ {b} /\ UNCHANGED <<is_live_direct_memory_mode, allocation_cnt, range_list, aborted>>
    BY DEF FreeBuffer
  <1>3. buffers \subseteq HeapBuffers \cup MapBuffers
    BY <1>1 DEF AllocatorTypeOK
  <1>4. CASE b.home = "heap"
    <2>1. range' = range
      BY <1>4 DEF FreeBuffer
    <2>2. Mapped(buffers') = Mapped(buffers)
      BY <1>2, <1>4 DEF Mapped
    <2>3. HeldIn(range', buffers')
      BY <1>1, <2>1, <2>2 DEF HeldIn
    <2>4. AllocatorTypeOK'
      BY <1>1, <1>2, <2>1 DEF AllocatorTypeOK
    <2> QED BY <1>1, <1>2, <2>1, <2>3, <2>4 DEF MemoryInv
  <1>5. CASE b.home # "heap"
    <2>1. range' = Freed(range, r)
      BY <1>5 DEF FreeBuffer
    <2>2. b \in Mapped(buffers)
      BY <1>3, <1>5 DEF HeapBuffers, MapBuffers, Mapped
    <2>3. PICK q \in InUse(range) : range[q].offset = b.offset
      BY <1>1, <2>2 DEF HeldIn
    <2>4. q \in Live(range) /\ q \in {nth[n] : n \in Positions}
      BY <1>1, <2>3, WalkVisitsAll DEF InUse
    <2>5. r \in {nth[n] : n \in Positions} /\ range[r].offset = b.offset
      BY <2>3, <2>4
    <2> HIDE DEF r
    <2>6. r \in Live(range)
      BY <1>1, <2>5, WalkVisitsAll
    <2>7. r = q
      <3>1. range[q].offset \in Nat /\ range[q].end \in Int /\ range[q].offset <= range[q].end
        BY <1>1, <2>4, LinkedAt
      <3> QED BY <1>1, <2>3, <2>4, <2>5, <2>6, <3>1, Exclusive
    <2>8. Linked(range', range_list') /\ Separated(range', {})
      BY <1>1, <1>2, <2>1, <2>3, <2>7, FreedKeeps
    <2>9. HeldIn(range', buffers')
      BY <1>1, <1>2, <1>3, <2>1, <2>2, <2>3, <2>7, HeldFreed
    <2>10. range' \in [Ranges -> Fields \cup {None}]
      BY <2>8 DEF Linked
    <2>11. AllocatorTypeOK'
      BY <1>1, <1>2, <2>10 DEF AllocatorTypeOK
    <2> QED BY <1>1, <1>2, <2>8, <2>9, <2>11 DEF MemoryInv
  <1> QED BY <1>4, <1>5

(* In every state the mapped memory is what RangesIntact says: a list of   *)
(* ranges that fill the map, no two neighbours free, and those in use are  *)
(* the buffers that callers hold, each large enough and nobody else's,     *)
(* whatever is taken and given back and whenever the mode is set up and    *)
(* closed (calloc, alloc_in_free_range_ and merge_contiguous_range_).      *)
THEOREM RangesStayIntact ==
  ASSUME AllocatorAssumption
  PROVE  AllocatorSpec => [](AllocatorTypeOK /\ RangesIntact)
  <1>1. AllocatorInit => MemoryInv
    BY MemoryStarts
  <1>2. MemoryInv /\ [AllocatorNext]_allocatorVars => MemoryInv'
    <2> SUFFICES ASSUME MemoryInv, [AllocatorNext]_allocatorVars PROVE MemoryInv'
      OBVIOUS
    <2>1. CASE SetupLiveDirectMemoryMode
      BY <2>1, SetupKeeps
    <2>2. CASE CloseLiveDirectMemoryMode
      BY <2>2, CloseKeeps
    <2>3. ASSUME NEW size \in 1 .. MaxRequest, Calloc(size) PROVE MemoryInv'
      BY <2>3, CallocKeeps
    <2>4. ASSUME NEW b \in buffers, FreeBuffer(b) PROVE MemoryInv'
      BY <2>4, FreeKeeps
    <2>5. CASE UNCHANGED allocatorVars
      BY <2>5 DEF allocatorVars, MemoryInv, AllocatorTypeOK
    <2> QED BY <2>1, <2>2, <2>3, <2>4, <2>5 DEF AllocatorNext
  <1>3. MemoryInv => AllocatorTypeOK /\ RangesIntact
    BY IntactOf DEF MemoryInv
  <1> QED BY <1>1, <1>2, <1>3, PTL DEF AllocatorSpec
=============================================================================
