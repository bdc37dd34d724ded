-------------------------- MODULE LidarTableProofs --------------------------
(***************************************************************************)
(* The table of lidars is sound, for any threads and any number of lidars, *)
(* whether or not the application takes care of the order of its calls.    *)
(***************************************************************************)
EXTENDS LidarTable, FiniteSetTheorems, WellFoundedInduction, TLAPS

States == {"none", "init", "up", "deleted"}
Places == {"idle", "add", "delete", "close_all", "stop_all"} \cup Uses

TableTypes ==
  /\ max_handle_s \in 0..MaxOpened /\ lidars_s \subseteq 1..max_handle_s
  /\ mutex \in Threads \cup {"free"}
  /\ lidar \in [Handles -> States] /\ deletions \in [Handles -> Nat]
  /\ at \in [Threads -> Places] /\ of \in [Threads -> 0..MaxOpened]
  /\ misuse \in BOOLEAN

(* Thread t has a lidar in hand that is not in the table: on its way in or *)
(* out.                                                                    *)
Carries(t) == at[t] \in {"add", "delete"}

(* A lidar is in the table, in the hands of one thread, or deleted.        *)
OnePlace ==
  /\ \A h \in Handles : lidar[h] = "none" <=> h > max_handle_s
  /\ \A h \in Handles : deletions[h] = IF lidar[h] = "deleted" THEN 1 ELSE 0
  /\ \A h \in lidars_s : lidar[h] \in {"init", "up"}
  /\ \A t \in Threads : Carries(t) => /\ of[t] \in (1..max_handle_s) \ lidars_s
                                      /\ lidar[of[t]] \in {"init", "up"}
  /\ \A t, u \in Threads : Carries(t) /\ Carries(u) /\ of[t] = of[u] => t = u
  /\ \A h \in 1..max_handle_s : \/ h \in lidars_s \/ lidar[h] = "deleted"
                                \/ \E t \in Threads : Carries(t) /\ of[t] = h

(* What is used was found in the table once, and who works on all lidars   *)
(* has the mutex.                                                          *)
FoundAndLocked ==
  /\ \A t \in Threads : at[t] \in Uses => of[t] \in 1..max_handle_s
  /\ \A t \in Threads : at[t] \in {"close_all", "stop_all"} => mutex = t

(* With care, what is used is still in the table, what is about to be      *)
(* deleted is not up, and while all lidars are closed nobody uses one.     *)
Care ==
  Careful =>
    /\ ~misuse
    /\ \A t \in Threads : at[t] \in Uses => of[t] \in lidars_s
    /\ \A t \in Threads : at[t] = "delete" => lidar[of[t]] = "init"
    /\ \A t \in Threads : at[t] = "close_all" => \A h \in lidars_s : UnusedLidar(h)

TableInv == TableTypes /\ OnePlace /\ FoundAndLocked /\ Care

-----------------------------------------------------------------------------
(* A set of handles that is not empty has a first.                         *)
LEMMA FirstIsInSet ==
  ASSUME NEW S, S \subseteq Nat, S # {}
  PROVE  First(S) \in S
<1> DEFINE R == OpToRel(<, Nat)
<1>1. \E h \in S : \A g \in S : ~ (<<g, h>> \in R)
  <2>1. IsWellFoundedOn(R, Nat)
    BY NatLessThanWellFounded, Zenon
  <2> HIDE DEF R
  <2> QED BY <2>1, WFMin
<1>2. \A g, h \in Nat : g < h => <<g, h>> \in R
  BY DEF OpToRel
<1> HIDE DEF R
<1>3. PICK h \in S : \A g \in S : ~ (<<g, h>> \in R)
  BY <1>1
<1>4. \A g \in S : h <= g
  <2> SUFFICES ASSUME NEW g \in S PROVE h <= g
    OBVIOUS
  <2>1. ~ (g < h)
    BY <1>2, <1>3
  <2> QED BY <2>1
<1> QED BY <1>4, Zenon DEF First

(* In the first state nothing was opened.                                  *)
LEMMA InitTable ==
  ASSUME ConstantAssumption, Init
  PROVE  TableInv
<1> USE DEF ConstantAssumption, Init
<1>1. TableTypes
  <2> USE DEF TableTypes, Handles, States, Places
  <2>1. max_handle_s \in 0..MaxOpened /\ lidars_s \subseteq 1..max_handle_s
    OBVIOUS
  <2>2. mutex \in Threads \cup {"free"}
    OBVIOUS
  <2>3. lidar \in [Handles -> States]
    OBVIOUS
  <2>4. deletions \in [Handles -> Nat]
    OBVIOUS
  <2>5. at \in [Threads -> Places]
    OBVIOUS
  <2>6. of \in [Threads -> 0..MaxOpened]
    OBVIOUS
  <2>7. misuse \in BOOLEAN
    OBVIOUS
  <2> QED BY <2>1, <2>2, <2>3, <2>4, <2>5, <2>6, <2>7 DEF TableTypes
<1>2. OnePlace
  BY DEF OnePlace, Handles, Carries
<1>3. FoundAndLocked /\ Care
  BY DEF FoundAndLocked, Care, Uses
<1> QED BY <1>1, <1>2, <1>3 DEF TableInv

(* A refused call or a callback changes nothing the invariant reads.       *)
LEMMA QuietStep ==
  ASSUME TableInv,
         UNCHANGED <<max_handle_s, lidars_s, mutex, lidar, at, of, deletions, misuse>>
  PROVE  TableInv'
BY DEF TableInv, TableTypes, OnePlace, FoundAndLocked, Care, Carries, UnusedLidar, Handles

(* A step that moves no lidar and no thread that carries one leaves each   *)
(* lidar in its place.                                                     *)
LEMMA SameHands ==
  ASSUME OnePlace, UNCHANGED <<max_handle_s, lidars_s, lidar, deletions>>,
         \A u \in Threads : /\ Carries(u)' <=> Carries(u)
                            /\ Carries(u) => of'[u] = of[u]
  PROVE  OnePlace'
BY DEF OnePlace

-----------------------------------------------------------------------------
(* A new lidar has a handle that nobody has.                               *)
LEMMA OpenStep ==
  ASSUME ConstantAssumption, TableInv, NEW t \in Threads, OpenLidar(t)
  PROVE  TableInv'
<1> USE DEF ConstantAssumption, TableInv, OpenLidar, Begin, NextHandle, Idle
<1>1. TableTypes'
  BY DEF TableTypes, Handles, States, Places
<1>2. OnePlace'
  <2> USE DEF TableTypes, OnePlace, Carries, Handles, Places, States
  <2>1. \A h \in Handles : lidar'[h] = "none" <=> h > max_handle_s'
    OBVIOUS
  <2>2. \A h \in Handles : deletions'[h] = IF lidar'[h] = "deleted" THEN 1 ELSE 0
    OBVIOUS
  <2>3. \A h \in lidars_s' : lidar'[h] \in {"init", "up"}
    OBVIOUS
  <2>4. \A u \in Threads : Carries(u)' => /\ of'[u] \in (1..max_handle_s') \ lidars_s'
                                           /\ lidar'[of'[u]] \in {"init", "up"}
    OBVIOUS
  <2>5. \A u, v \in Threads : Carries(u)' /\ Carries(v)' /\ of'[u] = of'[v] => u = v
    OBVIOUS
  <2>6. \A h \in 1..max_handle_s' : \/ h \in lidars_s' \/ lidar'[h] = "deleted"
                                     \/ \E u \in Threads : Carries(u)' /\ of'[u] = h
    OBVIOUS
  <2> QED BY <2>1, <2>2, <2>3, <2>4, <2>5, <2>6 DEF OnePlace
<1>3. FoundAndLocked'
  BY DEF TableTypes, FoundAndLocked, Uses, Places
<1>4. Care'
  BY DEF TableTypes, OnePlace, FoundAndLocked, Care, Uses, UnusedLidar, Handles, Places
<1> QED BY <1>1, <1>2, <1>3, <1>4

(* It comes into the table from the hands of the one that opened it.       *)
LEMMA AddStep ==
  ASSUME ConstantAssumption, TableInv, NEW t \in Threads, AddLidar(t)
  PROVE  TableInv'
<1> USE DEF ConstantAssumption, TableInv, AddLidar, Return, Free
<1>1. TableTypes'
  <2> USE DEF TableTypes, OnePlace, Carries, Handles, States, Places
  <2>1. max_handle_s' \in 0..MaxOpened /\ lidars_s' \subseteq 1..max_handle_s'
    <3>1. of[t] \in 1..max_handle_s
      BY DEF OnePlace, Carries
    <3> QED BY <3>1 DEF TableTypes
  <2>2. mutex' \in Threads \cup {"free"}
    OBVIOUS
  <2>3. lidar' \in [Handles -> States]
    OBVIOUS
  <2>4. deletions' \in [Handles -> Nat]
    OBVIOUS
  <2>5. at' \in [Threads -> Places]
    OBVIOUS
  <2>6. of' \in [Threads -> 0..MaxOpened]
    OBVIOUS
  <2>7. misuse' \in BOOLEAN
    OBVIOUS
  <2> QED BY <2>1, <2>2, <2>3, <2>4, <2>5, <2>6, <2>7 DEF TableTypes
<1>2. OnePlace'
  BY DEF TableTypes, OnePlace, Carries, Handles, Places, States
<1>3. FoundAndLocked'
  BY DEF TableTypes, FoundAndLocked, Uses, Places
<1>4. Care'
  BY DEF TableTypes, OnePlace, FoundAndLocked, Care, Carries, Uses, UnusedLidar, Handles, Places
<1> QED BY <1>1, <1>2, <1>3, <1>4

(* What is found is in the table, and nobody works on all lidars.          *)
LEMMA FindStep ==
  ASSUME ConstantAssumption, TableInv, NEW t \in Threads, NEW g \in Handles, NEW op \in Uses,
         FindLidar(t, op, g), g \in lidars_s
  PROVE  TableInv'
<1> USE DEF ConstantAssumption, TableInv, FindLidar, Begin, Idle, Free
<1>1. TableTypes'
  <2>1. at' \in [Threads -> Places]
    BY DEF TableTypes, Places
  <2>2. of' \in [Threads -> 0..MaxOpened]
    BY DEF TableTypes, Handles
  <2> QED BY <2>1, <2>2 DEF TableTypes, Handles
<1>2. OnePlace'
  <2>1. \A u \in Threads : /\ Carries(u)' <=> Carries(u)
                           /\ Carries(u) => of'[u] = of[u]
    BY DEF TableTypes, Carries, Uses
  <2> QED BY <2>1, SameHands
<1>3. FoundAndLocked'
  BY DEF TableTypes, FoundAndLocked, Uses, Places
<1>4. Care'
  <2> SUFFICES ASSUME Careful PROVE Care'
    BY DEF Care
  <2>1. ~misuse'
    BY DEF Care
  <2>2. \A u \in Threads : at'[u] \in Uses => of'[u] \in lidars_s'
    BY DEF TableTypes, Care
  <2>3. \A u \in Threads : at'[u] = "delete" => lidar'[of'[u]] = "init"
    BY DEF TableTypes, Care, Uses
  <2>4. \A u \in Threads : at'[u] # "close_all"
    BY DEF TableTypes, FoundAndLocked, Uses
  <2> QED BY <2>1, <2>2, <2>3, <2>4 DEF Care
<1> QED BY <1>1, <1>2, <1>3, <1>4

(* A use may start a lidar; with care it is one of the table, and not all  *)
(* lidars are being closed.                                                *)
LEMMA UseStep ==
  ASSUME ConstantAssumption, TableInv, NEW t \in Threads, UseLidar(t)
  PROVE  TableInv'
<1> USE DEF ConstantAssumption, TableInv, UseLidar, Return
<1>1. TableTypes'
  BY DEF TableTypes, FoundAndLocked, Handles, States, Places, Uses
<1>2. OnePlace'
  <2> USE DEF TableTypes, OnePlace, FoundAndLocked, Carries, Handles, Places, States, Uses
  <2>1. \A h \in Handles : lidar'[h] = "none" <=> h > max_handle_s'
    OBVIOUS
  <2>2. \A h \in Handles : deletions'[h] = IF lidar'[h] = "deleted" THEN 1 ELSE 0
    OBVIOUS
  <2>3. \A h \in lidars_s' : lidar'[h] \in {"init", "up"}
    OBVIOUS
  <2>4. \A u \in Threads : Carries(u)' => /\ of'[u] \in (1..max_handle_s') \ lidars_s'
                                           /\ lidar'[of'[u]] \in {"init", "up"}
    OBVIOUS
  <2>5. \A u, v \in Threads : Carries(u)' /\ Carries(v)' /\ of'[u] = of'[v] => u = v
    OBVIOUS
  <2>6. \A h \in 1..max_handle_s' : \/ h \in lidars_s' \/ lidar'[h] = "deleted"
                                     \/ \E u \in Threads : Carries(u)' /\ of'[u] = h
    OBVIOUS
  <2> QED BY <2>1, <2>2, <2>3, <2>4, <2>5, <2>6 DEF OnePlace
<1>3. FoundAndLocked'
  BY DEF TableTypes, FoundAndLocked, Uses, Places
<1>4. Care'
  BY DEF TableTypes, OnePlace, FoundAndLocked, Care, Carries, Uses, UnusedLidar, Handles, Places
<1> QED BY <1>1, <1>2, <1>3, <1>4

(* So does a stop, which makes a lidar that is up one that can be deleted. *)
LEMMA StopStep ==
  ASSUME ConstantAssumption, TableInv, NEW t \in Threads, StopLidar(t)
  PROVE  TableInv'
<1> USE DEF ConstantAssumption, TableInv, StopLidar, Return
<1>1. TableTypes'
  BY DEF TableTypes, FoundAndLocked, Handles, States, Places, Uses
<1>2. OnePlace'
  BY DEF TableTypes, OnePlace, FoundAndLocked, Carries, Handles, Places, States, Uses
<1>3. FoundAndLocked'
  BY DEF TableTypes, FoundAndLocked, Uses, Places
<1>4. Care'
  BY DEF TableTypes, OnePlace, FoundAndLocked, Care, Carries, Uses, UnusedLidar, Handles, Places
<1> QED BY <1>1, <1>2, <1>3, <1>4

-----------------------------------------------------------------------------
(* A lidar that is closed goes from the table into the hands of one.       *)
LEMMA CloseStep ==
  ASSUME ConstantAssumption, TableInv, NEW t \in Threads, NEW g \in Handles,
         CloseLidar(t, g), g \in lidars_s
  PROVE  TableInv'
<1> USE DEF ConstantAssumption, TableInv, CloseLidar, Begin, Idle, Free
<1>1. TableTypes'
  <2> USE DEF TableTypes, Handles, States, Places
  <2>1. max_handle_s' \in 0..MaxOpened /\ lidars_s' \subseteq 1..max_handle_s'
    OBVIOUS
  <2>2. mutex' \in Threads \cup {"free"}
    OBVIOUS
  <2>3. lidar' \in [Handles -> States]
    OBVIOUS
  <2>4. deletions' \in [Handles -> Nat]
    OBVIOUS
  <2>5. at' \in [Threads -> Places]
    OBVIOUS
  <2>6. of' \in [Threads -> 0..MaxOpened]
    OBVIOUS
  <2>7. misuse' \in BOOLEAN
    OBVIOUS
  <2> QED BY <2>1, <2>2, <2>3, <2>4, <2>5, <2>6, <2>7 DEF TableTypes
<1>0. \A u \in Threads : IF u = t THEN ~Carries(u) /\ Carries(u)' /\ of'[u] = g
                         ELSE (Carries(u)' <=> Carries(u)) /\ of'[u] = of[u]
  BY DEF TableTypes, Carries
<1>2. OnePlace'
  <2>1. \A h \in Handles : /\ lidar'[h] = "none" <=> h > max_handle_s'
                           /\ deletions'[h] = IF lidar'[h] = "deleted" THEN 1 ELSE 0
    BY DEF OnePlace
  <2>2. \A h \in lidars_s' : lidar'[h] \in {"init", "up"}
    BY DEF OnePlace
  <2>3. \A u \in Threads : Carries(u)' => /\ of'[u] \in (1..max_handle_s') \ lidars_s'
                                          /\ lidar'[of'[u]] \in {"init", "up"}
    BY <1>0 DEF TableTypes, OnePlace
  <2>4. \A u, v \in Threads : Carries(u)' /\ Carries(v)' /\ of'[u] = of'[v] => u = v
    BY <1>0 DEF OnePlace
  <2>5. \A h \in 1..max_handle_s' : \/ h \in lidars_s' \/ lidar'[h] = "deleted"
                                     \/ \E u \in Threads : Carries(u)' /\ of'[u] = h
    BY <1>0 DEF OnePlace
  <2> QED BY <2>1, <2>2, <2>3, <2>4, <2>5 DEF OnePlace
<1>3. FoundAndLocked'
  BY DEF TableTypes, FoundAndLocked, Uses, Places
<1>4. Care'
  <2> SUFFICES ASSUME Careful PROVE Care'
    BY DEF Care
  <2>1. UnusedLidar(g) /\ lidar[g] = "init"
    BY DEF OnePlace, UnusedLidar
  <2>2. ~misuse'
    BY DEF Care
  <2>3. \A u \in Threads : at'[u] \in Uses => at[u] \in Uses /\ of'[u] = of[u]
    BY DEF TableTypes, Uses
  <2>4. \A u \in Threads : at'[u] \in Uses => of'[u] \in lidars_s'
    BY <2>1, <2>3 DEF Care, UnusedLidar
  <2>5. \A u \in Threads : at'[u] = "delete" => lidar'[of'[u]] = "init"
    BY <2>1 DEF TableTypes, Care
  <2>6. \A u \in Threads : at'[u] # "close_all"
    BY DEF TableTypes, FoundAndLocked
  <2> QED BY <2>2, <2>4, <2>5, <2>6 DEF Care
<1> QED BY <1>1, <1>2, <1>3, <1>4

(* That one deletes it; nobody else has it.                                *)
LEMMA DeleteStep ==
  ASSUME ConstantAssumption, TableInv, NEW t \in Threads, DeleteLidar(t)
  PROVE  TableInv'
<1> USE DEF ConstantAssumption, TableInv, DeleteLidar, Deletion, Return
<1>1. TableTypes'
  BY DEF TableTypes, OnePlace, Carries, Handles, States, Places
<1>0. /\ of[t] \in 1..max_handle_s /\ of[t] \in Handles /\ of[t] \notin lidars_s
      /\ \A u \in Threads : Carries(u)' => Carries(u) /\ of'[u] # of[t]
      /\ \A u \in Threads : Carries(u) /\ of[u] # of[t] => Carries(u)'
  BY DEF TableTypes, OnePlace, Carries, Handles
<1>2. OnePlace'
  <2>1. /\ \A h \in Handles : lidar'[h] = IF h = of[t] THEN "deleted" ELSE lidar[h]
        /\ \A h \in Handles : deletions'[h] = IF h = of[t] THEN deletions[h] + 1 ELSE deletions[h]
    BY <1>0 DEF TableTypes
  <2>2. \A h \in Handles : lidar'[h] = "none" <=> h > max_handle_s'
    BY <1>0, <2>1 DEF OnePlace, TableTypes, Handles
  <2>3. \A h \in Handles : deletions'[h] = IF lidar'[h] = "deleted" THEN 1 ELSE 0
    BY <1>0, <2>1 DEF OnePlace, Carries
  <2>4. \A h \in lidars_s' : h \in Handles /\ lidar'[h] \in {"init", "up"}
    BY <1>0, <2>1 DEF OnePlace, TableTypes, Handles
  <2>5. \A u \in Threads : Carries(u)' => /\ of'[u] \in (1..max_handle_s') \ lidars_s'
                                          /\ lidar'[of'[u]] \in {"init", "up"}
    BY <1>0, <2>1 DEF OnePlace, TableTypes, Handles
  <2>6. \A u, v \in Threads : Carries(u)' /\ Carries(v)' /\ of'[u] = of'[v] => u = v
    BY <1>0 DEF OnePlace
  <2>7. ASSUME NEW h \in 1..max_handle_s, h \notin lidars_s, lidar'[h] # "deleted"
        PROVE  \E u \in Threads : Carries(u)' /\ of'[u] = h
    <3>1. h # of[t] /\ lidar[h] # "deleted"
      BY <2>1, <2>7 DEF TableTypes, Handles
    <3>2. PICK u \in Threads : Carries(u) /\ of[u] = h
      BY <2>7, <3>1 DEF OnePlace
    <3>3. Carries(u)' /\ of'[u] = h
      BY <1>0, <3>1, <3>2 DEF Carries
    <3> QED BY <3>3 DEF Carries
  <2> QED BY <2>2, <2>3, <2>4, <2>5, <2>6, <2>7 DEF OnePlace
<1>3. FoundAndLocked'
  BY DEF TableTypes, FoundAndLocked, Uses, Places
<1>4. Care'
  BY DEF TableTypes, OnePlace, FoundAndLocked, Care, Carries, Uses, UnusedLidar, Handles, Places
<1> QED BY <1>1, <1>2, <1>3, <1>4

(* Who is to work on all lidars finds the mutex free, so that nobody does. *)
LEMMA LockStep ==
  ASSUME ConstantAssumption, TableInv, NEW t \in Threads, NEW what \in {"close_all", "stop_all"},
         LockAll(t, what)
  PROVE  TableInv'
<1> USE DEF ConstantAssumption, TableInv, LockAll, Begin, Idle, Free
<1>1. TableTypes'
  BY DEF TableTypes, Handles, States, Places
<1>2. OnePlace'
  <2>1. \A u \in Threads : /\ Carries(u)' <=> Carries(u)
                           /\ Carries(u) => of'[u] = of[u]
    BY DEF TableTypes, Carries, Uses
  <2> QED BY <2>1, SameHands
<1>3. FoundAndLocked'
  BY DEF TableTypes, FoundAndLocked, Uses, Places
<1>4. Care'
  BY DEF TableTypes, OnePlace, FoundAndLocked, Care, Uses, UnusedLidar, Handles, Places
<1> QED BY <1>1, <1>2, <1>3, <1>4

(* close_all deletes the first of the table; with care nobody uses it.     *)
LEMMA CloseFirstStep ==
  ASSUME ConstantAssumption, TableInv, NEW t \in Threads, CloseFirst(t)
  PROVE  TableInv'
<1> USE DEF ConstantAssumption, TableInv, CloseFirst, Deletion
<1>0. First(lidars_s) \in lidars_s /\ First(lidars_s) \in Handles
  <2>1. lidars_s \subseteq Nat /\ lidars_s \subseteq Handles
    BY DEF TableTypes, Handles
  <2> QED BY <2>1, FirstIsInSet, Zenon
<1>1. TableTypes'
  <2> USE <1>0 DEF TableTypes, Handles, States
  <2>1. max_handle_s' \in 0..MaxOpened /\ lidars_s' \subseteq 1..max_handle_s'
    OBVIOUS
  <2>2. mutex' \in Threads \cup {"free"}
    OBVIOUS
  <2>3. lidar' \in [Handles -> States]
    OBVIOUS
  <2>4. deletions' \in [Handles -> Nat]
    <3>1. deletions[First(lidars_s)] \in Nat
      BY <1>0, Zenon DEF TableTypes
    <3> QED BY <1>0, <3>1 DEF TableTypes
  <2>5. at' \in [Threads -> Places]
    OBVIOUS
  <2>6. of' \in [Threads -> 0..MaxOpened]
    OBVIOUS
  <2>7. misuse' \in BOOLEAN
    OBVIOUS
  <2> QED BY <2>1, <2>2, <2>3, <2>4, <2>5, <2>6, <2>7 DEF TableTypes
<1>2. OnePlace'
  BY <1>0 DEF TableTypes, OnePlace, Carries, Handles, States
<1>3. FoundAndLocked'
  BY DEF TableTypes, FoundAndLocked, Uses
<1>4. Care'
  <2> SUFFICES ASSUME Careful PROVE Care'
    BY DEF Care
  <2>1. UnusedLidar(First(lidars_s)) /\ lidar[First(lidars_s)] = "init"
    BY <1>0 DEF OnePlace, Care, UnusedLidar
  <2>2. ~misuse'
    BY <2>1, Zenon DEF Care
  <2>3. \A u \in Threads : at[u] \in Uses => of[u] \in lidars_s' /\ of[u] # First(lidars_s)
    BY <2>1 DEF Care, UnusedLidar
  <2>4. \A u \in Threads : at[u] = "delete" => lidar'[of[u]] = "init"
    BY <1>0 DEF TableTypes, OnePlace, Care, Carries, Handles
  <2>5. \A u \in Threads : at[u] = "close_all" => \A h \in lidars_s' : UnusedLidar(h)'
    BY <1>0 DEF TableTypes, Care, UnusedLidar
  <2> QED BY <2>2, <2>3, <2>4, <2>5 DEF Care
<1> QED BY <1>1, <1>2, <1>3, <1>4

(* stop_all stops the first that is up.                                    *)
LEMMA StopFirstStep ==
  ASSUME ConstantAssumption, TableInv, NEW t \in Threads, StopFirst(t)
  PROVE  TableInv'
<1> USE DEF ConstantAssumption, TableInv, StopFirst
<1>0. First(Up) \in lidars_s /\ lidar[First(Up)] = "up"
  <2>1. Up \subseteq Nat
    <3>1. lidars_s \subseteq Nat
      BY DEF TableTypes
    <3> QED BY <3>1, Zenon DEF Up
  <2>2. First(Up) \in Up
    BY <2>1, FirstIsInSet, Zenon
  <2> QED BY <2>2 DEF Up
<1>1. TableTypes'
  BY <1>0 DEF TableTypes, Handles, States
<1>2. OnePlace'
  BY <1>0 DEF TableTypes, OnePlace, Carries, Handles, States
<1>3. FoundAndLocked'
  BY DEF TableTypes, FoundAndLocked, Uses
<1>4. Care'
  BY <1>0 DEF TableTypes, OnePlace, FoundAndLocked, Care, Carries, Uses, UnusedLidar, Handles, Places
<1> QED BY <1>1, <1>2, <1>3, <1>4

(* Afterwards the mutex is free again, and nobody works on all lidars.     *)
LEMMA UnlockStep ==
  ASSUME ConstantAssumption, TableInv, NEW t \in Threads, UnlockAll(t)
  PROVE  TableInv'
<1> USE DEF ConstantAssumption, TableInv, UnlockAll, Return
<1>1. TableTypes'
  BY DEF TableTypes, Handles, States, Places
<1>2. OnePlace'
  <2>1. \A u \in Threads : /\ Carries(u)' <=> Carries(u)
                           /\ Carries(u) => of'[u] = of[u]
    BY DEF TableTypes, Carries, Uses
  <2> QED BY <2>1, SameHands
<1>3. FoundAndLocked'
  BY DEF TableTypes, FoundAndLocked, Uses, Places
<1>4. Care'
  BY DEF TableTypes, FoundAndLocked, Care, Uses, UnusedLidar, Places
<1> QED BY <1>1, <1>2, <1>3, <1>4

-----------------------------------------------------------------------------
(* No step of any thread or callback breaks the invariant.                 *)
LEMMA TableStep ==
  ASSUME ConstantAssumption, TableInv, [Next]_tableVars
  PROVE  TableInv'
<1>1. ASSUME NEW t \in Threads, Calls(t) PROVE TableInv'
  <2>1. CASE OpenRefused(t)
    BY <2>1, QuietStep DEF OpenRefused
  <2>2. CASE OpenLidar(t)
    BY <2>2, OpenStep
  <2>3. ASSUME NEW h \in Handles, CloseLidar(t, h) PROVE TableInv'
    <3>1. CASE h \in lidars_s
      BY <2>3, <3>1, CloseStep
    <3>2. CASE h \notin lidars_s
      BY <2>3, <3>2, QuietStep DEF CloseLidar
    <3> QED BY <3>1, <3>2
  <2>4. ASSUME NEW h \in Handles, NEW op \in Uses, FindLidar(t, op, h) PROVE TableInv'
    <3>1. CASE h \in lidars_s
      BY <2>4, <3>1, FindStep
    <3>2. CASE h \notin lidars_s
      BY <2>4, <3>2, QuietStep DEF FindLidar
    <3> QED BY <3>1, <3>2
  <2>5. ASSUME NEW what \in {"close_all", "stop_all"}, LockAll(t, what) PROVE TableInv'
    BY <2>5, LockStep
  <2> QED BY <1>1, <2>1, <2>2, <2>3, <2>4, <2>5 DEF Calls
<1>2. ASSUME NEW t \in Threads, ThreadStep(t) PROVE TableInv'
  BY <1>2, AddStep, UseStep, StopStep, DeleteStep, CloseFirstStep, StopFirstStep, UnlockStep
     DEF ThreadStep
<1>3. ASSUME NEW h \in Handles, CallbackAsks(h) \/ CallbackEnds(h) \/ CallbackBegins(h)
      PROVE  TableInv'
  BY <1>3, QuietStep DEF CallbackAsks, CallbackEnds, CallbackBegins
<1>4. CASE UNCHANGED tableVars
  BY <1>4, QuietStep DEF tableVars
<1> QED BY <1>1, <1>2, <1>3, <1>4 DEF Next, CallbackSteps

(* The table of lidars is sound (sdk_common/api_common.cpp): a lidar is    *)
(* deleted once, the table holds none that is deleted or being opened,     *)
(* and what was opened is in the table, in the hands of exactly one        *)
(* thread, or gone.  An application that takes care never uses a deleted   *)
(* lidar and deletes none that is up.                                      *)
THEOREM TableStaysSound ==
  ASSUME ConstantAssumption
  PROVE  Spec => []TableIsSound
<1>1. TableInv => TableIsSound
  <2> SUFFICES ASSUME TableInv PROVE TableIsSound
    OBVIOUS
  <2>1. \A h \in Handles : deletions[h] <= 1
    BY DEF TableInv, OnePlace
  <2>2. \A h \in lidars_s : lidar[h] \in {"init", "up"} /\ \A t \in Threads : ~(at[t] = "add" /\ of[t] = h)
    BY DEF TableInv, OnePlace, Carries
  <2>3. Careful => ~misuse
    BY DEF TableInv, Care
  <2>4. ASSUME NEW h \in 1..max_handle_s, h \notin lidars_s, lidar[h] # "deleted"
        PROVE  Cardinality({t \in Threads : at[t] \in {"add", "delete"} /\ of[t] = h}) = 1
    <3>1. PICK t \in Threads : Carries(t) /\ of[t] = h
      BY <2>4 DEF TableInv, OnePlace
    <3>2. {u \in Threads : at[u] \in {"add", "delete"} /\ of[u] = h} = {t}
      BY <3>1 DEF TableInv, OnePlace, Carries
    <3> QED BY <3>2, FS_Singleton
  <2> QED BY <2>1, <2>2, <2>3, <2>4 DEF TableIsSound
<1> QED BY InitTable, TableStep, <1>1, PTL DEF Spec
=============================================================================
