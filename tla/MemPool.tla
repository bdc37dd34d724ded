------------------------------ MODULE MemPool -------------------------------
(***************************************************************************)
(* MemPoolManager: a free list threaded through next_free_, with both ends *)
(* and a count kept beside it.  Units are taken at first_free_ and         *)
(* returned at last_free_.  alloc and free run under mutex_, one action    *)
(* each; what they panic on is what the invariants below rule out, for     *)
(* users that return only what they were given, once.                      *)
(***************************************************************************)
EXTENDS Integers, Sequences, FiniteSets

CONSTANT UnitCount

ASSUME UnitAssumption == UnitCount \in Nat \ {0}

Nil   == -1
Units == 0..(UnitCount - 1)

VARIABLES in_use, next_free, first_free, last_free, free_count,
          lent_unit   (* the unit the last alloc returned, Nil for NULL      *)

poolVars == <<in_use, next_free, first_free, last_free, free_count, lent_unit>>

Links == [u \in Units |-> IF u = UnitCount - 1 THEN Nil ELSE u + 1]

PoolInit ==
  /\ in_use = [u \in Units |-> FALSE]
  /\ next_free = Links
  /\ first_free = 0
  /\ last_free = UnitCount - 1
  /\ free_count = UnitCount
  /\ lent_unit = Nil

(* Mutants: the last unit taken stays the end of the list; the old end is  *)
(* not linked to the unit returned.                                        *)
KeepsLast(f)      == last_free
Unlinked(u)       == next_free

LastAfter(f)      == IF last_free = f THEN Nil ELSE last_free
LinkedToTail(u)   == [next_free EXCEPT ![last_free] = u]
CutOff(f)         == [next_free EXCEPT ![f] = Nil]

Alloc ==
  LET f == first_free IN
  /\ free_count > 0
  /\ first_free' = next_free[f]
  /\ next_free' = CutOff(f)
  /\ last_free' = LastAfter(f)
  /\ in_use' = [in_use EXCEPT ![f] = TRUE]
  /\ free_count' = free_count - 1
  /\ lent_unit' = f

(* size > unit_size_: refused before the list is looked at.                *)
AllocTooBig == lent_unit' = Nil /\ UNCHANGED <<in_use, next_free, first_free, last_free, free_count>>

AllocExhausted ==
  /\ free_count = 0
  /\ lent_unit' = Nil
  /\ UNCHANGED <<in_use, next_free, first_free, last_free, free_count>>

Free(u) ==
  /\ in_use[u]
  /\ in_use' = [in_use EXCEPT ![u] = FALSE]
  /\ IF last_free = Nil
       THEN first_free' = u /\ UNCHANGED next_free
       ELSE next_free' = LinkedToTail(u) /\ UNCHANGED first_free
  /\ last_free' = u
  /\ free_count' = free_count + 1
  /\ UNCHANGED lent_unit

PoolNext == Alloc \/ AllocTooBig \/ AllocExhausted \/ \E u \in Units : Free(u)

PoolSpec == PoolInit /\ [][PoolNext]_poolVars

-----------------------------------------------------------------------------
PoolTypeOK ==
  /\ in_use \in [Units -> BOOLEAN]
  /\ next_free \in [Units -> Units \cup {Nil}]
  /\ first_free \in Units \cup {Nil} /\ last_free \in Units \cup {Nil}
  /\ free_count \in 0..UnitCount
  /\ lent_unit \in Units \cup {Nil}

(* c lists the free units in the order alloc will hand them out.           *)
IsFreeList(c) ==
  /\ \A i, j \in DOMAIN c : c[i] = c[j] => i = j
  /\ \A u \in Units : in_use[u] <=> \A i \in DOMAIN c : c[i] # u
  /\ \A i \in 1..(free_count - 1) : next_free[c[i]] = c[i + 1]
  /\ free_count > 0 => /\ first_free = c[1] /\ last_free = c[free_count]
                       /\ next_free[c[free_count]] = Nil
  /\ free_count = 0 => first_free = Nil /\ last_free = Nil

(* The list threads exactly the units that are not in use, each once, and  *)
(* its ends and its count are right: no check of alloc, of free or of the  *)
(* destructor panics, no unit is lost and none is lent twice.              *)
FreeListIntact == \E c \in [1..free_count -> Units] : IsFreeList(c)

(* The units met from first on along the links, Nil behind the last; and   *)
(* so the free units in the order of the list.                             *)
Follow(first, next) ==
  LET at[k \in 1..(UnitCount + 1)] ==
        IF k = 1 THEN first ELSE IF at[k - 1] = Nil THEN Nil ELSE next[at[k - 1]]
  IN at
FreeOrder == [n \in 1..free_count |-> Follow(first_free, next_free)[n]]

Pool == INSTANCE UnitPool WITH
  NoUnit <- Nil,
  Order  <- [n \in 1..UnitCount |-> n - 1],
  free   <- FreeOrder,
  lent   <- {u \in Units : in_use[u]},
  answer <- lent_unit

(* The pool lends the unit returned longest ago and takes each back once.  *)
ImplementsPool == Pool!PSpec
=============================================================================
