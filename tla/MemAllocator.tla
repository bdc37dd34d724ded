---------------------------- MODULE MemAllocator ----------------------------
(***************************************************************************)
(* Where memory pools get their memory (utils/mem_allocator.cpp):          *)
(* MemAllocDelegate asks the allocators of its list in turn, the one over  *)
(* mapped memory first while direct memory mode is set up, then malloc.    *)
(* MemMapMemAllocator keeps a doubly linked list of ranges, gives out the  *)
(* first one that is large enough and merges neighbours when one is freed. *)
(*                                                                         *)
(* The mapped allocator is compiled for ARM64 only.  Addresses are offsets *)
(* into the map.  Callers free what they got, once; the delegate is set up *)
(* and closed while nobody else calls it.                                  *)
(***************************************************************************)
EXTENDS Integers, FiniteSets

CONSTANTS
  page_size,
  MapSize,          (* high_addr - base_addr + 1, not always whole pages     *)
  Ranges,           (* the MemRange objects                                  *)
  MaxRequest,       (* bound: bytes of one request                           *)
  MaxAllocations,   (* bound: calls of calloc until a close, buffers of the  *)
                    (* heap at a time                                        *)
  None

VARIABLES
  is_live_direct_memory_mode,
  allocation_cnt,
  range_list,       (* the first range                                       *)
  range,            (* what each MemRange holds, None if it is deleted       *)
  aborted,          (* a check of the code has ended the program             *)
  (* History: the buffers callers hold                                      *)
  buffers

allocatorVars == <<is_live_direct_memory_mode, allocation_cnt, range_list, range, aborted, buffers>>

Fields == [offset : 0..MapSize, end : Int, size : 0..MapSize, is_dirty : BOOLEAN,
           next : Ranges \cup {None}, pre : Ranges \cup {None}]

AllocatorAssumption ==
  /\ {page_size, MapSize, MaxRequest, MaxAllocations} \subseteq Nat \ {0}
  /\ IsFiniteSet(Ranges) /\ None \notin Ranges \cup Fields
  /\ Cardinality(Ranges) * page_size > MapSize

HeapBuffers == [home : {"heap"}, id : 1..MaxAllocations]
MapBuffers  == [home : {"map"}, offset : 0..MapSize, size : 1..MaxRequest]

AllocatorInit ==
  /\ is_live_direct_memory_mode = FALSE /\ allocation_cnt = 0
  /\ range_list = None /\ range = [r \in Ranges |-> None]
  /\ aborted = FALSE /\ buffers = {}

MemRange(offset, size) ==
  [offset |-> offset, end |-> offset + size - 1, size |-> size, is_dirty |-> FALSE,
   next |-> None, pre |-> None]

-----------------------------------------------------------------------------
(* The list.                                                               *)
nth[n \in 1 .. Cardinality(Ranges) + 1] ==
  IF n = 1 THEN range_list
  ELSE IF nth[n - 1] = None THEN None ELSE range[nth[n - 1]].next

Positions == {n \in DOMAIN nth : nth[n] # None}

RoundUp(size) == ((size + page_size - 1) \div page_size) * page_size
SizeNeed(size) == IF RoundUp(size) < page_size THEN page_size ELSE RoundUp(size)

Applicable(n, need) == ~range[nth[n]].is_dirty /\ range[nth[n]].size >= need

search_first_applicable_range(need) ==
  LET fits == {n \in Positions : Applicable(n, need)}
  IN  IF fits = {} THEN None ELSE nth[CHOOSE n \in fits : \A m \in fits : n <= m]

New == CHOOSE r \in Ranges : range[r] = None

(* Too small a rest is given away with the range.                          *)
alloc_in_free_range(r, need) ==
  IF range[r].size - need < page_size
  THEN range' = [range EXCEPT ![r].is_dirty = TRUE] /\ UNCHANGED range_list
  ELSE LET a      == New
           taken  == [MemRange(range[r].offset, need) EXCEPT !.is_dirty = TRUE,
                                                             !.next = r, !.pre = range[r].pre]
           rest   == [range[r] EXCEPT !.offset = taken.end + 1, !.size = @ - need, !.pre = a]
       IN  /\ range' = [x \in Ranges |-> IF x = a THEN taken
                                         ELSE IF x = r THEN rest
                                         ELSE IF x = taken.pre THEN [range[x] EXCEPT !.next = a]
                                         ELSE range[x]]
           /\ range_list' = IF range_list = r THEN a ELSE range_list

(* Mutant of Merged: the range behind the second keeps its link to it.     *)
MergedForward(rs, first, second) ==
  [rs EXCEPT ![first].size = @ + rs[second].size, ![first].end = rs[second].end,
             ![first].next = rs[second].next, ![second] = None]
Merged(rs, first, second) ==
  [x \in Ranges |-> IF x = rs[second].next THEN [rs[x] EXCEPT !.pre = first]
                                           ELSE MergedForward(rs, first, second)[x]]

Freed(rs, r) ==
  LET clean    == [rs EXCEPT ![r].is_dirty = FALSE]
      next     == clean[r].next
      with_next == IF next # None /\ ~clean[next].is_dirty THEN Merged(clean, r, next) ELSE clean
      pre      == with_next[r].pre
  IN  IF pre # None /\ ~with_next[pre].is_dirty THEN Merged(with_next, pre, r) ELSE with_next

-----------------------------------------------------------------------------
(* The delegate.  Direct memory mode must come before the first allocation *)
(* since the last close; allocations that were freed count.  The map may   *)
(* fail, and then only malloc is left.                                     *)
SetupLiveDirectMemoryMode ==
  /\ ~is_live_direct_memory_mode
  /\ IF allocation_cnt # 0
     THEN aborted' = TRUE /\ UNCHANGED <<is_live_direct_memory_mode, range_list, range>>
     ELSE /\ UNCHANGED aborted
          /\ \/ /\ is_live_direct_memory_mode' = TRUE /\ range_list' = New
                /\ range' = [range EXCEPT ![New] = MemRange(0, MapSize)]
             \/ UNCHANGED <<is_live_direct_memory_mode, range_list, range>>
  /\ UNCHANGED <<allocation_cnt, buffers>>

CloseLiveDirectMemoryMode ==
  /\ is_live_direct_memory_mode
  /\ IF \E n \in Positions : range[nth[n]].is_dirty
     THEN aborted' = TRUE /\ UNCHANGED <<is_live_direct_memory_mode, allocation_cnt, range_list, range>>
     ELSE /\ is_live_direct_memory_mode' = FALSE /\ allocation_cnt' = 0
          /\ range_list' = None /\ range' = [r \in Ranges |-> None] /\ UNCHANGED aborted
  /\ UNCHANGED buffers

FromMap(size) ==
  LET r == search_first_applicable_range(SizeNeed(size))
  IN  /\ is_live_direct_memory_mode /\ r # None
      /\ alloc_in_free_range(r, SizeNeed(size))
      /\ buffers' = buffers \cup {[home |-> "map", offset |-> range[r].offset, size |-> size]}

FromHeap(size) ==
  /\ is_live_direct_memory_mode => search_first_applicable_range(SizeNeed(size)) = None
  /\ HeapBuffers \ buffers # {}
  /\ buffers' = buffers \cup {CHOOSE b \in HeapBuffers : b \notin buffers}
  /\ UNCHANGED <<range_list, range>>

Calloc(size) ==
  /\ allocation_cnt < MaxAllocations /\ allocation_cnt' = allocation_cnt + 1
  /\ FromMap(size) \/ FromHeap(size)
  /\ UNCHANGED <<is_live_direct_memory_mode, aborted>>

(* The address tells the allocator.                                        *)
FreeBuffer(b) ==
  /\ buffers' = buffers \ {b}
  /\ range' = IF b.home = "heap" THEN range
              ELSE Freed(range, CHOOSE r \in {nth[n] : n \in Positions} : range[r].offset = b.offset)
  /\ UNCHANGED <<is_live_direct_memory_mode, allocation_cnt, range_list, aborted>>

AllocatorNext ==
  /\ ~aborted
  /\ \/ SetupLiveDirectMemoryMode \/ CloseLiveDirectMemoryMode
     \/ \E size \in 1..MaxRequest : Calloc(size)
     \/ \E b \in buffers : FreeBuffer(b)

AllocatorSpec == AllocatorInit /\ [][AllocatorNext]_allocatorVars

-----------------------------------------------------------------------------
AllocatorTypeOK ==
  /\ {is_live_direct_memory_mode, aborted} \subseteq BOOLEAN
  /\ allocation_cnt \in 0..MaxAllocations /\ range_list \in Ranges \cup {None}
  /\ range \in [Ranges -> Fields \cup {None}]
  /\ buffers \subseteq HeapBuffers \cup MapBuffers

(* However buffers are taken and given back, the list has every range that *)
(* is not deleted, linked both ways; the ranges lie one behind the other   *)
(* and fill the map; no two neighbours are both free; the ranges in use    *)
(* are the buffers callers hold, each large enough and, since the ranges   *)
(* are disjoint, nobody else's; and no buffer outlives the map.            *)
RangesIntact ==
  LET Last == {n \in Positions : n + 1 \notin Positions}
      R(n) == range[nth[n]]
      held == {b \in buffers : b.home = "map"}
  IN  /\ {nth[n] : n \in Positions} = {r \in Ranges : range[r] # None}
      /\ \A n \in Positions :
           /\ R(n).end = R(n).offset + R(n).size - 1 /\ R(n).size > 0
           /\ R(n).offset = IF n = 1 THEN 0 ELSE R(n - 1).end + 1
           /\ R(n).pre = IF n = 1 THEN None ELSE nth[n - 1]
           /\ n > 1 => R(n).is_dirty \/ R(n - 1).is_dirty
      /\ \A n \in Last : R(n).end = MapSize - 1
      /\ {R(n).offset : n \in {p \in Positions : R(p).is_dirty}} = {b.offset : b \in held}
      /\ \A b \in held, n \in Positions : R(n).offset = b.offset => R(n).size >= b.size
=============================================================================
