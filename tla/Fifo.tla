-------------------------------- MODULE Fifo --------------------------------
(* A bounded first-in first-out queue, and the answer of its last call.    *)
EXTENDS Naturals, Sequences

CONSTANTS Items, Bound, NoItem

VARIABLES items, answer

fvars == <<items, answer>>

FInit == items = <<>> /\ answer = [length |-> 0, item |-> NoItem]

Put(e) ==
  /\ Len(items) < Bound
  /\ items' = Append(items, e)
  /\ UNCHANGED answer

Front ==
  /\ items # <<>>
  /\ answer' = [length |-> Len(items), item |-> Head(items)]

Take == Front /\ items' = Tail(items)
Look == Front /\ UNCHANGED items

Nothing ==
  /\ items = <<>>
  /\ answer' = [length |-> 0, item |-> NoItem]
  /\ UNCHANGED items

FNext == (\E e \in Items : Put(e)) \/ Take \/ Look \/ Nothing

FSpec == FInit /\ [][FNext]_fvars
=============================================================================
