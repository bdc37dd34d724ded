------------------------------ MODULE UnitPool ------------------------------
(* A pool of equal units: the unit lent is the one returned longest ago.   *)
EXTENDS Naturals, Sequences

CONSTANTS Units, NoUnit,
          Order   (* the order in which the first units are lent           *)

VARIABLES free, lent, answer

pvars == <<free, lent, answer>>

PInit == free = Order /\ lent = {} /\ answer = NoUnit

Lend ==
  /\ free # <<>>
  /\ answer' = Head(free)
  /\ free' = Tail(free)
  /\ lent' = lent \cup {Head(free)}

(* An empty pool, or a request larger than a unit.                         *)
Refuse == answer' = NoUnit /\ UNCHANGED <<free, lent>>

Return(u) ==
  /\ u \in lent
  /\ free' = Append(free, u)
  /\ lent' = lent \ {u}
  /\ UNCHANGED answer

PNext == Lend \/ Refuse \/ \E u \in Units : Return(u)

PSpec == PInit /\ [][PNext]_pvars
=============================================================================
