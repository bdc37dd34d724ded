----------------------------- MODULE GridProofs -----------------------------
(***************************************************************************)
(* The perception nodes, for every workspace and any clouds: what          *)
(* MapIsSound says of the map of the surface, its readers and what is      *)
(* computed from it.                                                       *)
(*                                                                         *)
(* Sums and loops are recursive functions, and there is no induction here  *)
(* but the least element of a set of naturals: NoneSmaller makes of it an  *)
(* induction over the parts of a finite set, by which sums do not depend   *)
(* on an order, means lie between the least and the greatest, and a loop   *)
(* over the map is a sequence of steps (LoopKeeps).                        *)
(***************************************************************************)
EXTENDS GridNodes, FiniteSetTheorems, SequenceTheorems, WellFoundedInduction, TLAPS

-----------------------------------------------------------------------------
(* Induction over naturals and finite sets, in terms of sets.              *)

(* A set of naturals has a least element.                                  *)
LEMMA LeastOf ==
  ASSUME NEW T, T \subseteq Nat, T # {}
  PROVE  \E n \in T : \A m \in T : n <= m
  <1> DEFINE R == OpToRel(<, Nat)
  <1>1. IsWellFoundedOn(R, Nat)
    BY NatLessThanWellFounded, Zenon
  <1>2. \E x \in T : \A y \in T : ~ (<<y, x>> \in R)
    <2> HIDE DEF R
    <2> QED  BY <1>1, WFMin
  <1>3. \A x, y \in Nat : y < x => <<y, x>> \in R
    BY DEF OpToRel
  <1> HIDE DEF R
  <1>4. PICK x \in T : \A y \in T : ~ (<<y, x>> \in R)
    BY <1>2
  <1>5. \A y \in T : x <= y
    <2> SUFFICES ASSUME NEW y \in T PROVE x <= y
      OBVIOUS
    <2>1. x \in Nat /\ y \in Nat
      OBVIOUS
    <2>2. ~ (y < x)
      BY <2>1, <1>3, <1>4
    <2> QED BY <2>1, <2>2
  <1> QED BY <1>5

(* No set of subsets of a finite set has with each member one that is an   *)
(* element smaller, unless the empty set is a member.                      *)
LEMMA NoneSmaller ==
  ASSUME NEW S, IsFiniteSet(S), NEW B \in SUBSET (SUBSET S), {} \notin B,
         \A T \in B : \E x \in T : T \ {x} \in B
  PROVE  B = {}
  <1> SUFFICES ASSUME NEW U \in B PROVE FALSE
    OBVIOUS
  <1> DEFINE sizes == {n \in Nat : \E T \in B : Cardinality(T) = n}
  <1>1. \A T \in B : IsFiniteSet(T) /\ Cardinality(T) \in Nat
    BY FS_Subset, FS_CardinalityType
  <1>2. sizes \subseteq Nat /\ sizes # {}
    BY <1>1
  <1>3. PICK n \in sizes : \A k \in sizes : n <= k
    <2> HIDE DEF sizes
    <2> QED BY <1>2, LeastOf
  <1>4. PICK T \in B : Cardinality(T) = n
    BY <1>3
  <1>5. PICK x \in T : T \ {x} \in B
    OBVIOUS
  <1>6. Cardinality(T \ {x}) = n - 1
    BY <1>1, <1>4, FS_RemoveElement
  <1>7. n - 1 \in sizes
    BY <1>1, <1>5, <1>6
  <1> QED BY <1>3, <1>7

(* A finite set of naturals has a greatest element.                        *)
LEMMA GreatestOf ==
  ASSUME NEW S, IsFiniteSet(S), S \subseteq Nat, S # {}
  PROVE  \E n \in S : \A m \in S : m <= n
  <1> DEFINE B == {T \in SUBSET S : T # {} /\ ~ \E n \in T : \A m \in T : m <= n}
  <1>1. B \in SUBSET (SUBSET S) /\ {} \notin B
    OBVIOUS
  <1>2. ASSUME NEW T \in B PROVE \E x \in T : T \ {x} \in B
    <2>1. PICK x \in T : TRUE
      OBVIOUS
    <2>2. T \ {x} # {}
      OBVIOUS
    <2>3. ASSUME NEW n \in T \ {x}, \A m \in T \ {x} : m <= n PROVE FALSE
      <3>1. x \in Nat /\ n \in Nat /\ T \subseteq Nat
        OBVIOUS
      <3>2. CASE x <= n
        BY <2>3, <3>1, <3>2
      <3>3. CASE n <= x
        <4>1. \A m \in T : m <= x
          BY <2>3, <3>1, <3>3
        <4> QED BY <4>1
      <3> QED BY <3>1, <3>2, <3>3
    <2> QED BY <2>2, <2>3
  <1>3. B = {}
    <2> HIDE DEF B
    <2> QED BY <1>1, <1>2, NoneSmaller
  <1> QED BY <1>3

-----------------------------------------------------------------------------
(* Folds over a finite set.                                                *)
Small(S, n) == {s \in SUBSET S : Cardinality(s) <= n}

(* f folds the subsets of up to n elements, one element chosen at a time.  *)
Folds(f, S, n, V, base, op, chosen) ==
  /\ f \in [Small(S, n) -> V]
  /\ \A s \in Small(S, n) : f[s] = IF s = {} THEN base ELSE op[<<chosen[s], f[s \ {chosen[s]}]>>]

FoldsAll(f, S, V, base, op, chosen) ==
  /\ f \in [SUBSET S -> V]
  /\ \A s \in SUBSET S : f[s] = IF s = {} THEN base ELSE op[<<chosen[s], f[s \ {chosen[s]}]>>]

(* Any order of the elements has a fold.                                   *)
LEMMA FoldExists ==
  ASSUME NEW S, IsFiniteSet(S), NEW V, NEW base \in V, NEW op \in [S \X V -> V],
         NEW chosen, \A s \in SUBSET S : s # {} => chosen[s] \in s
  PROVE  \E f : FoldsAll(f, S, V, base, op, chosen)
  <1> DEFINE P(n) == \E f : Folds(f, S, n, V, base, op, chosen)
             T    == {n \in Nat : ~P(n)}
  <1>1. \A s \in SUBSET S : IsFiniteSet(s) /\ Cardinality(s) \in Nat
    BY FS_Subset, FS_CardinalityType
  <1>2. P(0)
    <2>1. \A s \in Small(S, 0) : s = {}
      BY <1>1, FS_EmptySet DEF Small
    <2> DEFINE f == [s \in Small(S, 0) |-> base]
    <2>2. f \in [Small(S, 0) -> V] /\ \A s \in Small(S, 0) : f[s] = base
      OBVIOUS
    <2> HIDE DEF f
    <2>3. Folds(f, S, 0, V, base, op, chosen)
      BY <2>1, <2>2 DEF Folds
    <2> QED BY <2>3
  <1>3. ASSUME NEW n \in Nat, P(n) PROVE P(n + 1)
    <2>1. PICK f : Folds(f, S, n, V, base, op, chosen)
      BY <1>3
    <2> DEFINE g == [s \in Small(S, n + 1) |-> IF s = {} THEN base
                                               ELSE op[<<chosen[s], f[s \ {chosen[s]}]>>]]
    <2>2. ASSUME NEW s \in Small(S, n + 1), s # {}
          PROVE  /\ chosen[s] \in S /\ s \ {chosen[s]} \in Small(S, n)
                 /\ f[s \ {chosen[s]}] \in V /\ op[<<chosen[s], f[s \ {chosen[s]}]>>] \in V
      <3>1. chosen[s] \in s /\ s \in SUBSET S /\ Cardinality(s) <= n + 1
        BY <2>2 DEF Small
      <3>2. Cardinality(s \ {chosen[s]}) = Cardinality(s) - 1
        BY <1>1, <3>1, FS_RemoveElement
      <3>3. s \ {chosen[s]} \in Small(S, n)
        BY <1>1, <3>1, <3>2 DEF Small
      <3>4. f[s \ {chosen[s]}] \in V
        BY <2>1, <3>3 DEF Folds
      <3> QED BY <3>1, <3>3, <3>4
    <2>3. g \in [Small(S, n + 1) -> V]
      BY <2>2
    <2>4. \A s \in Small(S, n + 1) : g[s] = IF s = {} THEN base ELSE op[<<chosen[s], f[s \ {chosen[s]}]>>]
      OBVIOUS
    <2> HIDE DEF g
    <2>5. ASSUME NEW s \in Small(S, n) PROVE s \in Small(S, n + 1) /\ g[s] = f[s]
      <3>1. s \in Small(S, n + 1)
        BY <1>1 DEF Small
      <3> QED BY <2>1, <2>4, <3>1 DEF Folds
    <2>6. \A s \in Small(S, n + 1) : s # {} => g[s \ {chosen[s]}] = f[s \ {chosen[s]}]
      BY <2>2, <2>5
    <2>7. Folds(g, S, n + 1, V, base, op, chosen)
      BY <2>3, <2>4, <2>6 DEF Folds
    <2> QED BY <2>7
  <1> HIDE DEF P
  <1>4. T = {}
    <2> SUFFICES ASSUME T # {} PROVE FALSE
      OBVIOUS
    <2>1. PICK n \in T : \A k \in T : n <= k
      BY LeastOf
    <2>2. n # 0 /\ n \in Nat
      BY <1>2
    <2>3. n - 1 \in Nat /\ n - 1 \notin T /\ n = (n - 1) + 1
      BY <2>1, <2>2
    <2> QED BY <1>3, <2>1, <2>3
  <1>5. P(Cardinality(S))
    BY <1>1, <1>4
  <1>6. Small(S, Cardinality(S)) = SUBSET S
    BY FS_Subset, FS_CardinalityType DEF Small
  <1> QED BY <1>5, <1>6 DEF P, Folds, FoldsAll

-----------------------------------------------------------------------------
(* Sums: sum[s] adds fun over s, in whichever order.                       *)
Sums(sum, fun, S) ==
  /\ sum \in [SUBSET S -> Int] /\ sum[{}] = 0
  /\ \A s \in SUBSET S : \A x \in s : sum[s] = fun[x] + sum[s \ {x}]

AnyOf(s) == CHOOSE x \in s : TRUE

SumsUp(sum, fun, S) ==
  sum = [s \in SUBSET S |-> IF s = {} THEN 0 ELSE fun[AnyOf(s)] + sum[s \ {AnyOf(s)}]]

(* The order in which a sum takes the elements does not matter.            *)
LEMMA SumsInAnyOrder ==
  ASSUME NEW S, IsFiniteSet(S), NEW fun \in [S -> Int], NEW sum, SumsUp(sum, fun, S)
  PROVE  Sums(sum, fun, S)
  <1>1. /\ DOMAIN sum = SUBSET S /\ sum[{}] = 0
        /\ \A s \in SUBSET S : s # {} => sum[s] = fun[AnyOf(s)] + sum[s \ {AnyOf(s)}]
    <2>1. \A s \in SUBSET S : sum[s] = IF s = {} THEN 0 ELSE fun[AnyOf(s)] + sum[s \ {AnyOf(s)}]
      BY DEF SumsUp
    <2>2. DOMAIN sum = SUBSET S
      BY DEF SumsUp
    <2> QED BY <2>1, <2>2
  <1>2. \A s : s # {} => AnyOf(s) \in s
    BY DEF AnyOf
  <1>3. \A s \in SUBSET S : sum[s] \in Int
    <2> DEFINE B == {s \in SUBSET S : sum[s] \notin Int}
    <2>1. B \in SUBSET (SUBSET S) /\ {} \notin B
      BY <1>1
    <2>2. ASSUME NEW s \in B PROVE \E x \in s : s \ {x} \in B
      <3>4. s # {} /\ s \in SUBSET S
        BY <1>1
      <3>1. s # {} /\ s \in SUBSET S /\ AnyOf(s) \in s
        BY <1>2, <3>4
      <3>2. sum[s] = fun[AnyOf(s)] + sum[s \ {AnyOf(s)}] /\ fun[AnyOf(s)] \in Int
        BY <1>1, <3>1
      <3>3. sum[s \ {AnyOf(s)}] \notin Int
        BY <3>2
      <3> QED BY <3>1, <3>3
    <2>3. B = {}
      <3> HIDE DEF B
      <3> QED BY <2>1, <2>2, NoneSmaller
    <2> QED BY <2>3
  <1>4. sum \in [SUBSET S -> Int]
    <2>1. sum = [s \in SUBSET S |-> sum[s]]
      BY <1>1 DEF SumsUp
    <2> QED BY <1>3, <2>1
  <1>5. \A s \in SUBSET S : \A x \in s : sum[s] = fun[x] + sum[s \ {x}]
    <2> DEFINE B == {s \in SUBSET S : \E x \in s : sum[s] # fun[x] + sum[s \ {x}]}
    <2>1. B \in SUBSET (SUBSET S) /\ {} \notin B
      OBVIOUS
    <2>2. ASSUME NEW s \in B PROVE \E x \in s : s \ {x} \in B
      <3>1. PICK x \in s : sum[s] # fun[x] + sum[s \ {x}]
        OBVIOUS
      <3> DEFINE y == AnyOf(s)
      <3>2. y \in s /\ s \in SUBSET S /\ sum[s] = fun[y] + sum[s \ {y}]
        <4>1. s # {} /\ s \in SUBSET S
          OBVIOUS
        <4> QED BY <1>1, <1>2, <4>1
      <3> HIDE DEF y
      <3>3. x # y
        BY <3>1, <3>2
      <3> SUFFICES ASSUME s \ {y} \notin B, s \ {x} \notin B PROVE FALSE
        BY <3>2
      <3>4. /\ s \ {y} \in SUBSET S /\ x \in s \ {y} /\ (s \ {y}) \ {x} = s \ {x, y}
            /\ s \ {x} \in SUBSET S /\ y \in s \ {x} /\ (s \ {x}) \ {y} = s \ {x, y}
            /\ s \ {x, y} \in SUBSET S
        BY <3>1, <3>2, <3>3
      <3>5. sum[s \ {y}] = fun[x] + sum[s \ {x, y}]
        BY <3>4
      <3>6. sum[s \ {x}] = fun[y] + sum[s \ {x, y}]
        BY <3>4
      <3>7. fun[x] \in Int /\ fun[y] \in Int /\ sum[s \ {x, y}] \in Int
        BY <1>3, <3>1, <3>2, <3>4
      <3>8. fun[y] + (fun[x] + sum[s \ {x, y}]) = fun[x] + (fun[y] + sum[s \ {x, y}])
        BY <3>7
      <3>9. sum[s] = fun[x] + sum[s \ {x}]
        BY <3>2, <3>5, <3>6, <3>8, Zenon
      <3> QED BY <3>1, <3>9
    <2>3. B = {}
      <3> HIDE DEF B
      <3> QED BY <2>1, <2>2, NoneSmaller
    <2>4. ASSUME NEW s \in SUBSET S, NEW x \in s PROVE sum[s] = fun[x] + sum[s \ {x}]
      <3>1. s \in B <=> \E y \in s : sum[s] # fun[y] + sum[s \ {y}]
        OBVIOUS
      <3> HIDE DEF B
      <3> QED BY <2>3, <3>1
    <2> HIDE DEF B
    <2> QED BY <2>4, Zenon
  <1> QED BY <1>1, <1>4, <1>5 DEF Sums

(* SumFunction is one of them.                                             *)
LEMMA SumIs ==
  ASSUME NEW S, IsFiniteSet(S), NEW fun \in [S -> Int]
  PROVE  \E sum : Sums(sum, fun, S) /\ SumFunction(fun) = sum[S]
  <1> DEFINE op     == [p \in S \X Int |-> fun[p[1]] + p[2]]
             chosen == [s \in SUBSET S |-> AnyOf(s)]
  <1>1. \A s \in SUBSET S : chosen[s] = AnyOf(s) /\ (s # {} => AnyOf(s) \in s)
    BY DEF AnyOf
  <1>2. op \in [S \X Int -> Int] /\ \A x \in S, n \in Int : op[<<x, n>>] = fun[x] + n
    OBVIOUS
  <1>3. \E f : FoldsAll(f, S, Int, 0, op, chosen)
    <2> HIDE DEF op, chosen
    <2>1. \A s \in SUBSET S : s # {} => chosen[s] \in s
      BY <1>1
    <2>2. op \in [S \X Int -> Int] /\ 0 \in Int
      BY <1>2
    <2> QED BY <2>1, <2>2, FoldExists
  <1> HIDE DEF op, chosen
  <1>4. PICK f \in [SUBSET S -> Int] :
          \A s \in SUBSET S : f[s] = IF s = {} THEN 0 ELSE op[<<AnyOf(s), f[s \ {AnyOf(s)}]>>]
    <2>1. PICK f \in [SUBSET S -> Int] :
            \A s \in SUBSET S : f[s] = IF s = {} THEN 0 ELSE op[<<chosen[s], f[s \ {chosen[s]}]>>]
      BY <1>3, Zenon DEF FoldsAll
    <2>2. \A s \in SUBSET S : f[s] = IF s = {} THEN 0 ELSE op[<<AnyOf(s), f[s \ {AnyOf(s)}]>>]
      <3> SUFFICES ASSUME NEW s \in SUBSET S
                   PROVE  f[s] = IF s = {} THEN 0 ELSE op[<<AnyOf(s), f[s \ {AnyOf(s)}]>>]
        OBVIOUS
      <3>1. chosen[s] = AnyOf(s)
        BY <1>1
      <3> QED BY <2>1, <3>1, Zenon
    <2> QED BY <2>1, <2>2
  <1>5. \A s \in SUBSET S : f[s] = IF s = {} THEN 0 ELSE fun[AnyOf(s)] + f[s \ {AnyOf(s)}]
    <2> SUFFICES ASSUME NEW s \in SUBSET S, s # {}
                 PROVE  op[<<AnyOf(s), f[s \ {AnyOf(s)}]>>] = fun[AnyOf(s)] + f[s \ {AnyOf(s)}]
      BY <1>4, Zenon
    <2>1. AnyOf(s) \in S /\ s \ {AnyOf(s)} \in SUBSET S
      BY <1>1
    <2> QED BY <1>2, <2>1
  <1>6. SumsUp(f, fun, S)
    BY <1>5 DEF SumsUp
  <1> DEFINE sum == CHOOSE g : SumsUp(g, fun, S)
  <1>7. SumsUp(sum, fun, S)
    BY <1>6
  <1>8. SumFunction(fun) = sum[S]
    <2>1. DOMAIN fun = S
      OBVIOUS
    <2> QED BY <2>1, Zenon DEF SumFunction, SumFunctionOnSet, FoldFunctionOnSet, MapThenFoldSet,
                               SumsUp, AnyOf
  <1> HIDE DEF sum
  <1> QED BY <1>7, <1>8, SumsInAnyOrder

(* A sum lies between as many times the least and the greatest summand.    *)
LEMMA SumBetween ==
  ASSUME NEW S, IsFiniteSet(S), NEW fun \in [S -> Int], NEW sum, Sums(sum, fun, S),
         NEW lo \in Int, NEW hi \in Int, \A x \in S : lo <= fun[x] /\ fun[x] <= hi
  PROVE  lo * Cardinality(S) <= sum[S] /\ sum[S] <= hi * Cardinality(S)
  <1> DEFINE B == {s \in SUBSET S : ~(lo * Cardinality(s) <= sum[s] /\ sum[s] <= hi * Cardinality(s))}
  <1>1. \A s \in SUBSET S : IsFiniteSet(s) /\ Cardinality(s) \in Nat /\ sum[s] \in Int
    BY FS_Subset, FS_CardinalityType DEF Sums
  <1>2. {} \notin B
    <2>1. Cardinality({}) = 0 /\ sum[{}] = 0
      BY FS_EmptySet DEF Sums
    <2> QED BY <2>1
  <1>3. ASSUME NEW s \in B PROVE \E x \in s : s \ {x} \in B
    <2>1. s # {} /\ s \in SUBSET S
      BY <1>2
    <2>2. PICK x \in s : TRUE
      BY <2>1
    <2>3. /\ sum[s] = fun[x] + sum[s \ {x}] /\ fun[x] \in Int /\ lo <= fun[x] /\ fun[x] <= hi
          /\ s \ {x} \in SUBSET S
      BY <2>1 DEF Sums
    <2>4. Cardinality(s \ {x}) = Cardinality(s) - 1
      BY <1>1, <2>1, FS_RemoveElement
    <2>5. /\ lo * (Cardinality(s) - 1) = lo * Cardinality(s) - lo
          /\ hi * (Cardinality(s) - 1) = hi * Cardinality(s) - hi
          /\ lo * Cardinality(s) \in Int /\ hi * Cardinality(s) \in Int
      <3>1. \A a, b \in Int : a * (b - 1) = a * b - a /\ a * b \in Int
        OBVIOUS
      <3>2. Cardinality(s) \in Int
        BY <1>1, <2>1
      <3> HIDE DEF B
      <3> QED BY <3>1, <3>2
    <2>6. ASSUME s \ {x} \notin B PROVE FALSE
      <3>1. lo * (Cardinality(s) - 1) <= sum[s \ {x}] /\ sum[s \ {x}] <= hi * (Cardinality(s) - 1)
        BY <2>3, <2>4, <2>6
      <3>2. sum[s \ {x}] \in Int
        BY <1>1, <2>3
      <3>3. lo * Cardinality(s) <= sum[s] /\ sum[s] <= hi * Cardinality(s)
        BY <2>3, <2>5, <3>1, <3>2
      <3> QED BY <3>3
    <2> QED BY <2>6
  <1>4. B = {}
    <2>1. B \in SUBSET (SUBSET S)
      OBVIOUS
    <2> HIDE DEF B
    <2> QED BY <1>2, <1>3, <2>1, NoneSmaller
  <1> QED BY <1>4

(* What a function gives on a finite set is finite.                        *)
LEMMA ImageIsFinite ==
  ASSUME NEW S, IsFiniteSet(S), NEW f, NEW T, T = {f[x] : x \in S}
  PROVE  IsFiniteSet(T)
  <1> DEFINE g == [x \in S |-> f[x]]
  <1>1. g \in [S -> T] /\ \A y \in T : \E x \in S : g[x] = y
    OBVIOUS
  <1> HIDE DEF g
  <1>2. g \in Surjection(S, T)
    BY <1>1 DEF Surjection
  <1> QED BY <1>2, FS_Surjection

(* What lies between two multiples of n has a quotient between their       *)
(* factors.                                                                *)
LEMMA QuotientBetween ==
  ASSUME NEW s \in Int, NEW n \in Nat \ {0}, NEW lo \in Int, NEW hi \in Int,
         lo * n <= s, s <= hi * n
  PROVE  s \div n \in Int /\ lo <= s \div n /\ s \div n <= hi
  <1> DEFINE q == s \div n
  <1>1. q \in Int /\ n * q <= s /\ s < n * q + n
    OBVIOUS
  <1> HIDE DEF q
  <1>2. \A a, b \in Int : \A k \in Nat : a <= b => k * a <= k * b
    OBVIOUS
  <1>3. \A a, b \in Int : a * b = b * a /\ a * b \in Int /\ a * (b + 1) = a * b + a
    OBVIOUS
  <1>4. lo <= q
    <2> SUFFICES ASSUME q + 1 <= lo PROVE FALSE
      BY <1>1
    <2>1. n * (q + 1) <= n * lo
      BY <1>1, <1>2
    <2> QED BY <1>1, <1>3, <2>1
  <1>5. q <= hi
    <2> SUFFICES ASSUME hi + 1 <= q PROVE FALSE
      BY <1>1
    <2>1. n * (hi + 1) <= n * q
      BY <1>1, <1>2
    <2>2. n * hi + n <= n * q /\ n * hi \in Int /\ n * q \in Int /\ n * hi = hi * n
      BY <1>1, <1>3, <2>1
    <2> QED BY <1>1, <2>2
  <1> QED BY <1>1, <1>4, <1>5 DEF q

(* A mean is a natural number between the least and the greatest.          *)
LEMMA MeanBetween ==
  ASSUME NEW S, IsFiniteSet(S), S # {}, NEW fun \in [S -> Nat]
  PROVE  /\ SumFunction(fun) \div Cardinality(S) \in Nat
         /\ \E x \in S : fun[x] <= SumFunction(fun) \div Cardinality(S)
         /\ \E x \in S : SumFunction(fun) \div Cardinality(S) <= fun[x]
  <1> DEFINE values == {fun[x] : x \in S}
  <1>1. IsFiniteSet(values) /\ values \subseteq Nat /\ values # {}
    <2>1. IsFiniteSet(values)
      BY ImageIsFinite
    <2> QED BY <2>1
  <1>2. PICK x \in S : \A y \in S : fun[x] <= fun[y]
    <2>1. \E n \in values : \A m \in values : n <= m
      <3> HIDE DEF values
      <3> QED BY <1>1, LeastOf
    <2> QED BY <2>1
  <1>3. PICK y \in S : \A z \in S : fun[z] <= fun[y]
    <2>1. \E n \in values : \A m \in values : m <= n
      <3> HIDE DEF values
      <3> QED BY <1>1, GreatestOf
    <2> QED BY <2>1
  <1>4. PICK sum : Sums(sum, fun, S) /\ SumFunction(fun) = sum[S]
    BY SumIs
  <1>5. Cardinality(S) \in Nat \ {0} /\ sum[S] \in Int
    BY <1>4, FS_CardinalityType, FS_EmptySet DEF Sums
  <1>6. fun[x] * Cardinality(S) <= sum[S] /\ sum[S] <= fun[y] * Cardinality(S)
    BY <1>2, <1>3, <1>4, SumBetween
  <1>7. sum[S] \div Cardinality(S) \in Int /\ fun[x] <= sum[S] \div Cardinality(S)
        /\ sum[S] \div Cardinality(S) <= fun[y]
    BY <1>5, <1>6, QuotientBetween
  <1> QED BY <1>4, <1>7

(* The sum over a part of a set is the sum of the function on that part.   *)
LEMMA SumOfPart ==
  ASSUME NEW S, IsFiniteSet(S), NEW fun \in [S -> Int], NEW sum, Sums(sum, fun, S),
         NEW P \in SUBSET S
  PROVE  SumFunction([x \in P |-> fun[x]]) = sum[P]
  <1> DEFINE part == [x \in P |-> fun[x]]
  <1>1. part \in [P -> Int] /\ (\A x \in P : part[x] = fun[x]) /\ IsFiniteSet(P)
    BY FS_Subset
  <1> HIDE DEF part
  <1>2. PICK total : Sums(total, part, P) /\ SumFunction(part) = total[P]
    BY <1>1, SumIs
  <1> DEFINE B == {s \in SUBSET P : total[s] # sum[s]}
  <1>3. B \in SUBSET (SUBSET P) /\ {} \notin B
    BY <1>2 DEF Sums
  <1>4. ASSUME NEW s \in B PROVE \E x \in s : s \ {x} \in B
    <2>1. s # {} /\ s \in SUBSET P
      BY <1>3
    <2>2. PICK x \in s : TRUE
      BY <2>1
    <2>3. total[s] = part[x] + total[s \ {x}] /\ s \ {x} \in SUBSET P
      BY <1>2, <2>1 DEF Sums
    <2>4. sum[s] = fun[x] + sum[s \ {x}]
      BY <2>1 DEF Sums
    <2> QED BY <1>1, <2>1, <2>3, <2>4
  <1>5. B = {}
    <2> HIDE DEF B
    <2> QED BY <1>1, <1>3, <1>4, NoneSmaller
  <1> QED BY <1>2, <1>5 DEF part

(* What is left out makes a sum greater if it is not positive, and does    *)
(* not change it if it is zero.                                            *)
LEMMA SumWithout ==
  ASSUME NEW S, IsFiniteSet(S), NEW fun \in [S -> Int], NEW sum, Sums(sum, fun, S),
         NEW P \in SUBSET S, \A x \in S \ P : fun[x] <= 0
  PROVE  /\ sum[S] <= sum[P]
         /\ (\A x \in S \ P : fun[x] = 0) => sum[S] = sum[P]
  <1> DEFINE B == {s \in SUBSET S : P \subseteq s /\ ~ sum[s] <= sum[P]}
             C == {s \in SUBSET S : P \subseteq s /\ sum[s] # sum[P]}
  <1>1. \A s \in SUBSET S : sum[s] \in Int
    BY DEF Sums
  <1>2. B \in SUBSET (SUBSET S) /\ {} \notin B /\ C \in SUBSET (SUBSET S) /\ {} \notin C
    <2>1. P \subseteq {} => P = {}
      OBVIOUS
    <2>2. sum[P] \in Int
      BY <1>1
    <2>3. {} \notin B
      BY <2>1, <2>2
    <2>4. {} \notin C
      BY <2>1
    <2> QED BY <2>3, <2>4
  <1>3. ASSUME NEW s \in SUBSET S, P \subseteq s, s # P
        PROVE  \E x \in s \ P : /\ sum[s] = fun[x] + sum[s \ {x}] /\ fun[x] \in Int
                                /\ s \ {x} \in SUBSET S /\ P \subseteq s \ {x}
    <2>1. PICK x \in s \ P : TRUE
      BY <1>3
    <2> QED BY <1>3, <2>1 DEF Sums
  <1>4. ASSUME NEW s \in B PROVE \E x \in s : s \ {x} \in B
    <2>1. s # P
      BY <1>1
    <2>2. PICK x \in s \ P : /\ sum[s] = fun[x] + sum[s \ {x}] /\ fun[x] \in Int
                             /\ s \ {x} \in SUBSET S /\ P \subseteq s \ {x}
      BY <1>3, <2>1
    <2>3. fun[x] <= 0
      OBVIOUS
    <2>4. sum[s] \in Int /\ sum[s \ {x}] \in Int /\ sum[P] \in Int
      BY <1>1, <2>2
    <2>5. ~ sum[s \ {x}] <= sum[P]
      BY <2>2, <2>3, <2>4
    <2> QED BY <2>2, <2>5
  <1>5. B = {}
    <2> HIDE DEF B
    <2> QED BY <1>2, <1>4, NoneSmaller
  <1>6. ASSUME \A x \in S \ P : fun[x] = 0 PROVE sum[S] = sum[P]
    <2>1. ASSUME NEW s \in C PROVE \E x \in s : s \ {x} \in C
      <3>1. s # P
        BY <1>1
      <3>2. PICK x \in s \ P : /\ sum[s] = fun[x] + sum[s \ {x}] /\ fun[x] \in Int
                               /\ s \ {x} \in SUBSET S /\ P \subseteq s \ {x}
        BY <1>3, <3>1
      <3>3. fun[x] = 0 /\ sum[s \ {x}] \in Int
        BY <1>1, <1>6, <3>2
      <3>4. sum[s \ {x}] = sum[s]
        BY <3>2, <3>3
      <3> QED BY <3>2, <3>4
    <2>2. C = {}
      <3> HIDE DEF C
      <3> QED BY <1>2, <2>1, NoneSmaller
    <2> QED BY <2>2
  <1> QED BY <1>5, <1>6

-----------------------------------------------------------------------------
(* The workspace and its cells.                                            *)
Cell  == [surface : BOOLEAN, pts_num : Nat, z : Nat, placed : BOOLEAN]
Grids == [Cells -> Cell]

(* The map has rows and columns, and finitely many cells.                  *)
LEMMA Sizes ==
  ASSUME GridAssumption
  PROVE  /\ Cols \in Nat \ {0} /\ Rows \in Nat \ {0} /\ Rows * Cols \in Nat
         /\ IsFiniteSet(Cells)
         /\ \A c \in Cells : c[1] \in 0 .. Rows - 1 /\ c[2] \in 0 .. Cols - 1 /\ c = <<c[1], c[2]>>
  <1>1. Cols \in Nat \ {0} /\ Rows \in Nat \ {0}
    <2>1. \A a \in Nat, b \in Nat \ {0} : a \div b \in Nat
      OBVIOUS
    <2>2. MaxX \div Res \in Nat /\ MaxY \div Res \in Nat
      BY <2>1 DEF GridAssumption
    <2> QED BY <2>2 DEF Cols, Rows
  <1>2. Rows * Cols \in Nat
    <2>1. \A a, b \in Nat : a * b \in Nat
      OBVIOUS
    <2> QED BY <1>1, <2>1
  <1>3. IsFiniteSet(Cells)
    <2>1. 0 \in Int /\ Rows - 1 \in Int /\ Cols - 1 \in Int
      BY <1>1
    <2>2. IsFiniteSet(0 .. Rows - 1) /\ IsFiniteSet(0 .. Cols - 1)
      BY <2>1, FS_Interval
    <2> QED BY <2>2, FS_Product DEF Cells
  <1> QED BY <1>1, <1>2, <1>3 DEF Cells

(* The loops go through every cell.                                        *)
LEMMA RasterIs ==
  ASSUME GridAssumption
  PROVE  /\ \A i \in 1 .. Rows * Cols : InRasterOrder[i] \in Cells
         /\ \A c \in Cells : \E i \in 1 .. Rows * Cols : InRasterOrder[i] = c
         /\ DOMAIN InRasterOrder = 1 .. Rows * Cols
  <1>1. Cols \in Nat \ {0} /\ Rows \in Nat \ {0} /\ Rows * Cols \in Nat
    BY Sizes
  <1>2. ASSUME NEW r \in Nat \ {0}, NEW k \in Nat \ {0}, NEW i \in 1 .. r * k
        PROVE  (i - 1) \div k \in 0 .. r - 1 /\ (i - 1) % k \in 0 .. k - 1
    <2>1. r * k \in Nat /\ i - 1 \in Nat /\ i - 1 < r * k /\ k * r = r * k
      OBVIOUS
    <2> DEFINE q == (i - 1) \div k
    <2>2. q \in Nat /\ k * q <= i - 1 /\ (i - 1) % k \in 0 .. k - 1
      BY <2>1
    <2> HIDE DEF q
    <2>3. q < r
      <3> SUFFICES ASSUME r <= q PROVE FALSE
        BY <2>2
      <3>1. \A a, b, n \in Nat : a <= b => n * a <= n * b
        OBVIOUS
      <3>2. k * r <= k * q /\ k * q \in Nat
        BY <2>2, <3>1
      <3> QED BY <2>1, <2>2, <3>2
    <2> QED BY <2>2, <2>3 DEF q
  <1>3. ASSUME NEW i \in 1 .. Rows * Cols PROVE InRasterOrder[i] \in Cells
    BY <1>1, <1>2 DEF InRasterOrder, Cells
  <1>4. ASSUME NEW r \in Nat \ {0}, NEW k \in Nat \ {0}, NEW a \in 0 .. r - 1, NEW b \in 0 .. k - 1
        PROVE  \E i \in 1 .. r * k : (i - 1) \div k = a /\ (i - 1) % k = b
    <2> DEFINE i == a * k + b + 1
    <2>1. a * k \in Nat /\ r * k \in Nat
      OBVIOUS
    <2>2. (a + 1) * k <= r * k /\ (a + 1) * k = a * k + k
      <3>1. \A x, y, n \in Nat : x <= y => x * n <= y * n
        OBVIOUS
      <3>2. \A x, n \in Nat : (x + 1) * n = x * n + n
        OBVIOUS
      <3>3. a + 1 <= r /\ a + 1 \in Nat
        OBVIOUS
      <3> QED BY <3>1, <3>2, <3>3
    <2>3. i \in 1 .. r * k
      BY <2>1, <2>2
    <2>4. (a * k + b) \div k = a /\ (a * k + b) % k = b
      <3>1. \A x, y \in Nat : \A n \in Nat \ {0} : y < n => (x * n + y) \div n = x /\ (x * n + y) % n = y
        <4> SUFFICES ASSUME NEW x \in Nat, NEW y \in Nat, NEW n \in Nat \ {0}, y < n
                     PROVE  (x * n + y) \div n = x /\ (x * n + y) % n = y
          OBVIOUS
        <4> DEFINE q == (x * n + y) \div n
                   m == (x * n + y) % n
        <4>1. x * n \in Nat /\ x * n + y \in Nat
          OBVIOUS
        <4>2. q \in Nat /\ m \in 0 .. n - 1 /\ x * n + y = n * q + m
          BY <4>1
        <4> HIDE DEF q, m
        <4>3. \A u, v \in Nat : n * (u - v) = n * u - n * v
          OBVIOUS
        <4>4. x = q
          <5>1. n * (x - q) = m - y /\ n * (q - x) = y - m
            <6>1. n * (x - q) = n * x - n * q /\ n * (q - x) = n * q - n * x
              BY <4>2, <4>3
            <6>2. n * x = x * n /\ n * q \in Nat
              BY <4>2
            <6> QED BY <4>1, <4>2, <6>1, <6>2
          <5>2. \A u \in Int : u >= 1 => n * u >= n
            OBVIOUS
          <5>3. ~ x - q >= 1 /\ ~ q - x >= 1
            BY <4>2, <5>1, <5>2
          <5> QED BY <4>2, <5>3
        <4>5. n * q = x * n
          BY <4>2, <4>4
        <4> QED BY <4>1, <4>2, <4>4, <4>5 DEF q, m
      <3> QED BY <3>1
    <2>5. i - 1 = a * k + b
      BY <2>1
    <2> HIDE DEF i
    <2> QED BY <2>3, <2>4, <2>5
  <1>5. ASSUME NEW c \in Cells PROVE \E i \in 1 .. Rows * Cols : InRasterOrder[i] = c
    <2>1. c[1] \in 0 .. Rows - 1 /\ c[2] \in 0 .. Cols - 1 /\ c = <<c[1], c[2]>>
      BY Sizes
    <2>2. PICK i \in 1 .. Rows * Cols : (i - 1) \div Cols = c[1] /\ (i - 1) % Cols = c[2]
      BY <1>1, <1>4, <2>1
    <2> QED BY <2>1, <2>2 DEF InRasterOrder
  <1> QED BY <1>3, <1>5 DEF InRasterOrder

(* To be next to each other is mutual, and means to be at most one row and *)
(* one column apart.                                                       *)
LEMMA NeighboursAre ==
  ASSUME GridAssumption, NEW c \in Cells
  PROVE  /\ Neighbours(c) \subseteq Cells /\ IsFiniteSet(Neighbours(c)) /\ c \notin Neighbours(c)
         /\ \A d \in Neighbours(c) : c \in Neighbours(d)
         /\ \A d \in Cells : /\ d # c /\ d[1] - c[1] \in -1 .. 1 /\ d[2] - c[2] \in -1 .. 1
                             => d \in Neighbours(c)
  <1>1. Neighbours(c) \subseteq Cells /\ c \notin Neighbours(c)
    BY DEF Neighbours
  <1>2. IsFiniteSet(Neighbours(c))
    BY <1>1, Sizes, FS_Subset
  <1>3. \A x \in Cells : x[1] \in Nat /\ x[2] \in Nat /\ x = <<x[1], x[2]>>
    BY Sizes
  <1>4. ASSUME NEW x \in Cells, NEW y \in Cells, y # x, y[1] - x[1] \in -1 .. 1, y[2] - x[2] \in -1 .. 1
        PROVE  y \in Neighbours(x)
    <2> DEFINE e == <<y[1] - x[1], y[2] - x[2]>>
    <2>1. e \in (-1 .. 1) \X (-1 .. 1) /\ y = <<x[1] + e[1], x[2] + e[2]>>
      BY <1>3, <1>4
    <2> QED BY <1>4, <2>1 DEF Neighbours, Block3
  <1>5. ASSUME NEW d \in Neighbours(c) PROVE c \in Neighbours(d)
    <2>1. PICK e \in (-1 .. 1) \X (-1 .. 1) : d = <<c[1] + e[1], c[2] + e[2]>>
      BY DEF Neighbours, Block3
    <2>2. d \in Cells /\ d # c
      BY <1>1
    <2>3. d[1] = c[1] + e[1] /\ d[2] = c[2] + e[2] /\ e[1] \in -1 .. 1 /\ e[2] \in -1 .. 1
      BY <2>1
    <2>4. c[1] - d[1] \in -1 .. 1 /\ c[2] - d[2] \in -1 .. 1
      BY <1>3, <2>2, <2>3
    <2> QED BY <1>4, <2>2, <2>4
  <1> QED BY <1>1, <1>2, <1>4, <1>5

-----------------------------------------------------------------------------
(* The loops over the map.                                                 *)
LEMMA FilledFromIs ==
  ASSUME GridAssumption, NEW grid \in Grids, NEW c \in Cells
  PROVE  /\ FilledFrom(grid, c) = {n \in Neighbours(c) : grid[n].surface}
         /\ FilledFrom(grid, c) \subseteq Cells /\ IsFiniteSet(FilledFrom(grid, c))
  BY NeighboursAre, FS_Subset DEF FilledFrom

(* A cell that is filled in is between two of those around it.             *)
LEMMA FillOne ==
  ASSUME GridAssumption, NEW grid \in Grids, NEW c \in Cells
  PROVE  /\ FillCell(grid, c) \in Grids
         /\ \A d \in Cells : d # c \/ grid[d].surface => FillCell(grid, c)[d] = grid[d]
         /\ FilledFrom(grid, c) # {} => FillCell(grid, c)[c].surface
         /\ FillCell(grid, c)[c].surface /\ ~grid[c].surface =>
              /\ \E n \in FilledFrom(grid, c) : grid[n].z <= FillCell(grid, c)[c].z
              /\ \E n \in FilledFrom(grid, c) : FillCell(grid, c)[c].z <= grid[n].z
  <1> DEFINE from == FilledFrom(grid, c)
             mean == SumFunction([n \in from |-> grid[n].z]) \div Cardinality(from)
             R    == FillCell(grid, c)
  <1>1. from \subseteq Cells /\ IsFiniteSet(from)
    BY FilledFromIs
  <1>2. \A d \in Cells : grid[d] \in Cell /\ grid[d].z \in Nat /\ grid[d].surface \in BOOLEAN
    BY DEF Grids, Cell
  <1>3. CASE grid[c].surface \/ from = {}
    <2>1. R = grid
      BY <1>3 DEF FillCell
    <2> QED BY <1>3, <2>1
  <1>4. CASE ~grid[c].surface /\ from # {}
    <2>1. R = [grid EXCEPT ![c].surface = TRUE, ![c].pts_num = 1, ![c].z = mean]
      BY <1>4 DEF FillCell
    <2> DEFINE fun == [n \in from |-> grid[n].z]
    <2>2. fun \in [from -> Nat] /\ \A n \in from : fun[n] = grid[n].z
      BY <1>1, <1>2
    <2>3. mean \in Nat /\ (\E n \in from : grid[n].z <= mean) /\ (\E n \in from : mean <= grid[n].z)
      <3> HIDE DEF from
      <3>1. /\ SumFunction(fun) \div Cardinality(from) \in Nat
            /\ \E x \in from : fun[x] <= SumFunction(fun) \div Cardinality(from)
            /\ \E x \in from : SumFunction(fun) \div Cardinality(from) <= fun[x]
        <4> HIDE DEF fun
        <4> QED BY <1>1, <1>4, <2>2, MeanBetween
      <3> QED BY <2>2, <3>1
    <2> HIDE DEF mean
    <2>4. /\ DOMAIN R = Cells /\ \A d \in Cells : d # c => R[d] = grid[d]
          /\ R[c] = [grid[c] EXCEPT !.surface = TRUE, !.pts_num = 1, !.z = mean]
      BY <2>1 DEF Grids
    <2>5. R[c] \in Cell /\ R[c].surface /\ R[c].z = mean
      <3>1. \A x \in Cell, m \in Nat :
              LET y == [x EXCEPT !.surface = TRUE, !.pts_num = 1, !.z = m]
              IN  y \in Cell /\ y.surface /\ y.z = m
        BY DEF Cell
      <3>2. grid[c] \in Cell /\ mean \in Nat
        BY <1>2, <2>3
      <3>3. LET y == [grid[c] EXCEPT !.surface = TRUE, !.pts_num = 1, !.z = mean]
            IN  y \in Cell /\ y.surface /\ y.z = mean
        BY <3>1, <3>2, Zenon
      <3> HIDE DEF R
      <3> QED BY <2>4, <3>3
    <2>6. R \in Grids
      <3>1. R = [d \in Cells |-> R[d]]
        BY <2>1 DEF Grids
      <3> HIDE DEF R
      <3>2. \A d \in Cells : R[d] \in Cell
        BY <1>2, <2>4, <2>5
      <3> QED BY <3>1, <3>2 DEF Grids
    <2> HIDE DEF R, from
    <2>7. \A d \in Cells : d # c \/ grid[d].surface => R[d] = grid[d]
      BY <1>4, <2>4
    <2>8. /\ \E n \in from : grid[n].z <= R[c].z
          /\ \E n \in from : R[c].z <= grid[n].z
      BY <2>3, <2>5
    <2>9. R[c].surface
      BY <2>5
    <2> QED BY <2>6, <2>7, <2>8, <2>9 DEF R, from
  <1> QED BY <1>3, <1>4

(* One step of the filter removes the cell if it is isolated.              *)
LEMMA FilterOne ==
  ASSUME GridAssumption, NEW grid \in Grids, NEW c \in Cells
  PROVE  /\ FilterCell(grid, c) \in Grids
         /\ \A d \in Cells : FilterCell(grid, c)[d].surface
                             <=> grid[d].surface /\ (d = c => FilledFrom(grid, c) # {})
  <1>1. \A d \in Cells : grid[d] \in Cell /\ grid[d].surface \in BOOLEAN
    BY DEF Grids, Cell
  <1>2. CASE ~grid[c].surface \/ FilledFrom(grid, c) # {}
    <2>1. FilterCell(grid, c) = grid
      BY <1>2 DEF FilterCell
    <2> QED BY <1>1, <1>2, <2>1
  <1>3. CASE grid[c].surface /\ FilledFrom(grid, c) = {}
    <2> DEFINE R == FilterCell(grid, c)
    <2>1. R = [grid EXCEPT ![c].surface = FALSE]
      BY <1>3 DEF FilterCell
    <2>2. /\ R = [d \in Cells |-> R[d]] /\ (\A d \in Cells : d # c => R[d] = grid[d])
          /\ R[c] = [grid[c] EXCEPT !.surface = FALSE]
      BY <2>1 DEF Grids
    <2>3. R[c] \in Cell /\ R[c].surface = FALSE
      BY <1>1, <2>2 DEF Cell
    <2> HIDE DEF R
    <2>4. R \in Grids
      <3>1. \A d \in Cells : R[d] \in Cell
        BY <1>1, <2>2, <2>3
      <3> QED BY <2>2, <3>1 DEF Grids
    <2>5. \A d \in Cells : R[d].surface <=> grid[d].surface /\ (d = c => FilledFrom(grid, c) # {})
      BY <1>1, <1>3, <2>2, <2>3
    <2> QED BY <2>4, <2>5 DEF R
  <1> QED BY <1>2, <1>3

(* The greatest number of a set is in it.                                  *)
LEMMA MaxIsLast ==
  ASSUME NEW n \in Nat, NEW s \in SUBSET (1 .. n), s # {}
  PROVE  Max(s) \in s
  <1>1. IsFiniteSet(s) /\ s \subseteq Nat
    <2>1. IsFiniteSet(1 .. n)
      BY FS_Interval
    <2>2. IsFiniteSet(s)
      BY <2>1, FS_Subset
    <2> QED BY <2>2
  <1>2. PICK x \in s : \A y \in s : y <= x
    BY <1>1, GreatestOf
  <1>3. x \in s /\ \A y \in s : x >= y
    BY <1>1, <1>2
  <1> QED BY <1>3 DEF Max

(* A loop over the map with the body cell, as its fold over the sets of    *)
(* numbers of cells and as the maps it goes through.                       *)
Loops(f, grid, cell) ==
  \A s \in SUBSET (1 .. Rows * Cols) :
    /\ s = {} => f[s] = grid
    /\ s # {} /\ f[s \ {Max(s)}] \in Grids
         => f[s] = cell[<<f[s \ {Max(s)}], InRasterOrder[Max(s)]>>]

Runs(F, grid, cell) ==
  /\ F \in [0 .. Rows * Cols -> Grids] /\ F[0] = grid
  /\ \A i \in 1 .. Rows * Cols : F[i] = cell[<<F[i - 1], InRasterOrder[i]>>]

(* Each loop over the map has a fold.                                      *)
LEMMA LoopExists ==
  ASSUME GridAssumption, NEW grid \in Grids, NEW cell \in [Grids \X Cells -> Grids]
  PROVE  \E f : f \in [SUBSET (1 .. Rows * Cols) -> Grids] /\ Loops(f, grid, cell)
  <1> DEFINE N    == Rows * Cols
             step == [p \in (1 .. N) \X Grids |-> cell[<<p[2], InRasterOrder[p[1]]>>]]
             last == [s \in SUBSET (1 .. N) |-> Max(s)]
  <1>1. N \in Nat /\ \A i \in 1 .. N : InRasterOrder[i] \in Cells
    BY Sizes, RasterIs
  <1>2. IsFiniteSet(1 .. N)
    <2> HIDE DEF N
    <2> QED BY <1>1, FS_Interval
  <1>3. /\ step \in [(1 .. N) \X Grids -> Grids]
        /\ \A i \in 1 .. N : \A g \in Grids : step[<<i, g>>] = cell[<<g, InRasterOrder[i]>>]
    <2>1. \A i \in 1 .. N : \A g \in Grids : cell[<<g, InRasterOrder[i]>>] \in Grids
      BY <1>1
    <2> QED BY <2>1
  <1>4. \A s \in SUBSET (1 .. N) : s # {} => last[s] \in s /\ last[s] = Max(s)
    BY <1>1, MaxIsLast
  <1> HIDE DEF step, last
  <1>5. PICK f : FoldsAll(f, 1 .. N, Grids, grid, step, last)
    <2> HIDE DEF N
    <2> QED BY <1>2, <1>3, <1>4, FoldExists
  <1>6. ASSUME NEW s \in SUBSET (1 .. N), s # {}
        PROVE  f[s] = cell[<<f[s \ {Max(s)}], InRasterOrder[Max(s)]>>]
    <2>1. last[s] = Max(s) /\ Max(s) \in 1 .. N /\ s \ {Max(s)} \in SUBSET (1 .. N)
      BY <1>4, <1>6
    <2>2. f[s \ {Max(s)}] \in Grids
      BY <1>5, <2>1 DEF FoldsAll
    <2>3. f[s] = step[<<last[s], f[s \ {last[s]}]>>]
      BY <1>5, <1>6 DEF FoldsAll
    <2> QED BY <1>3, <2>1, <2>2, <2>3
  <1>7. f \in [SUBSET (1 .. N) -> Grids] /\ f[{}] = grid
    BY <1>5 DEF FoldsAll
  <1> QED BY <1>6, <1>7 DEF Loops

(* The fold of a loop goes through the cells one after the other.          *)
LEMMA LoopRuns ==
  ASSUME GridAssumption, NEW grid \in Grids, NEW cell \in [Grids \X Cells -> Grids],
         NEW f, Loops(f, grid, cell)
  PROVE  \E F : Runs(F, grid, cell) /\ F[Rows * Cols] = f[1 .. Rows * Cols]
  <1> DEFINE N == Rows * Cols
             F == [i \in 0 .. N |-> f[1 .. i]]
  <1>1. N \in Nat /\ \A i \in 1 .. N : InRasterOrder[i] \in Cells
    BY Sizes, RasterIs
  <1>2. F[0] = grid
    <2>1. 1 .. 0 = {} /\ {} \in SUBSET (1 .. N) /\ 0 \in 0 .. N
      BY <1>1
    <2>2. F[0] = f[1 .. 0]
      BY <2>1
    <2> QED BY <2>1, <2>2 DEF Loops
  <1>3. ASSUME NEW i \in 1 .. N, F[i - 1] \in Grids
        PROVE  F[i] = cell[<<F[i - 1], InRasterOrder[i]>>] /\ F[i] \in Grids
    <2>1. /\ 1 .. i # {} /\ 1 .. i \in SUBSET (1 .. N) /\ i \in 0 .. N /\ i - 1 \in 0 .. N
          /\ (1 .. i) \ {i} = 1 .. i - 1
      BY <1>1
    <2>2. Max(1 .. i) = i
      <3>1. i \in 1 .. i /\ \A y \in 1 .. i : i >= y
        BY <1>1
      <3>2. \A x \in 1 .. i : (\A y \in 1 .. i : x >= y) => x = i
        BY <3>1
      <3> QED BY <3>1, <3>2 DEF Max
    <2>3. F[i] = f[1 .. i] /\ F[i - 1] = f[1 .. i - 1]
      BY <2>1
    <2> HIDE DEF F
    <2>4. f[1 .. i] = cell[<<f[1 .. i - 1], InRasterOrder[i]>>]
      BY <1>3, <2>1, <2>2, <2>3 DEF Loops
    <2> QED BY <1>1, <1>3, <2>3, <2>4
  <1>4. \A i \in 0 .. N : F[i] \in Grids
    <2> DEFINE B == {i \in 0 .. N : F[i] \notin Grids}
    <2> HIDE DEF F
    <2> SUFFICES ASSUME B # {} PROVE FALSE
      OBVIOUS
    <2>1. B \subseteq Nat
      OBVIOUS
    <2>2. PICK i \in B : \A j \in B : i <= j
      <3> HIDE DEF B
      <3> QED BY <2>1, LeastOf
    <2>3. i # 0 /\ i \in 0 .. N
      BY <1>2
    <2>4. i - 1 \in 0 .. N /\ i \in 1 .. N /\ ~ i <= i - 1
      BY <1>1, <2>3
    <2>5. F[i - 1] \in Grids
      BY <2>2, <2>4
    <2> QED BY <1>3, <2>4, <2>5
  <1>5. \A i \in 1 .. N : F[i] = cell[<<F[i - 1], InRasterOrder[i]>>]
    <2>1. \A i \in 1 .. N : i - 1 \in 0 .. N
      BY <1>1
    <2> HIDE DEF F
    <2> QED BY <1>3, <1>4, <2>1
  <1>6. F \in [0 .. N -> Grids] /\ F[N] = f[1 .. N]
    BY <1>1, <1>4
  <1> HIDE DEF F
  <1> QED BY <1>2, <1>5, <1>6 DEF Runs

Filling   == [p \in Grids \X Cells |-> FillCell(p[1], p[2])]
Filtering == [p \in Grids \X Cells |-> FilterCell(p[1], p[2])]

(* fillBlankCells (gridmap.cpp:86) as a loop.                              *)
LEMMA FillRuns ==
  ASSUME GridAssumption, NEW grid \in Grids
  PROVE  \E F : Runs(F, grid, Filling) /\ F[Rows * Cols] = fillBlankCells(grid)
  <1> DEFINE N     == Rows * Cols
             Eq(g) == g = [s \in SUBSET (1 .. N) |-> IF s = {} THEN grid
                                                     ELSE FillCell(g[s \ {Max(s)}], InRasterOrder[Max(s)])]
             iter  == CHOOSE g : Eq(g)
  <1>1. Filling \in [Grids \X Cells -> Grids] /\ \A g \in Grids, c \in Cells : Filling[<<g, c>>] = FillCell(g, c)
    BY FillOne DEF Filling
  <1>2. \A s \in SUBSET (1 .. N) : s # {} => InRasterOrder[Max(s)] \in Cells /\ s \ {Max(s)} \in SUBSET (1 .. N)
    BY Sizes, RasterIs, MaxIsLast
  <1>3. PICK f : f \in [SUBSET (1 .. N) -> Grids] /\ Loops(f, grid, Filling)
    BY <1>1, LoopExists
  <1>4. Eq(f)
    <2>1. \A s \in SUBSET (1 .. N) : f[s] = IF s = {} THEN grid
                                            ELSE FillCell(f[s \ {Max(s)}], InRasterOrder[Max(s)])
      BY <1>1, <1>2, <1>3 DEF Loops
    <2> QED BY <1>3, <2>1
  <1>5. Eq(iter)
    <2> HIDE DEF Eq
    <2> QED BY <1>4
  <1>6. fillBlankCells(grid) = iter[1 .. N]
    <2>1. DOMAIN InRasterOrder = 1 .. N
      BY RasterIs
    <2> QED BY <2>1, Zenon DEF fillBlankCells, FoldLeft, MapThenFoldSet
  <1>7. Loops(iter, grid, Filling)
    <2> HIDE DEF iter
    <2>1. \A s \in SUBSET (1 .. N) : iter[s] = IF s = {} THEN grid
                                               ELSE FillCell(iter[s \ {Max(s)}], InRasterOrder[Max(s)])
      BY <1>5
    <2> QED BY <1>1, <1>2, <2>1 DEF Loops
  <1> HIDE DEF iter, Eq
  <1>8. \E F : Runs(F, grid, Filling) /\ F[Rows * Cols] = iter[1 .. Rows * Cols]
    BY <1>1, <1>7, LoopRuns
  <1> QED BY <1>6, <1>8

(* filterIsolated (gridmap.cpp:112) as a loop.                             *)
LEMMA FilterRuns ==
  ASSUME GridAssumption, NEW grid \in Grids
  PROVE  \E F : Runs(F, grid, Filtering) /\ F[Rows * Cols] = filterIsolated(grid)
  <1> DEFINE N     == Rows * Cols
             Eq(g) == g = [s \in SUBSET (1 .. N) |-> IF s = {} THEN grid
                                                     ELSE FilterCell(g[s \ {Max(s)}], InRasterOrder[Max(s)])]
             iter  == CHOOSE g : Eq(g)
  <1>1. Filtering \in [Grids \X Cells -> Grids] /\ \A g \in Grids, c \in Cells : Filtering[<<g, c>>] = FilterCell(g, c)
    BY FilterOne DEF Filtering
  <1>2. \A s \in SUBSET (1 .. N) : s # {} => InRasterOrder[Max(s)] \in Cells /\ s \ {Max(s)} \in SUBSET (1 .. N)
    BY Sizes, RasterIs, MaxIsLast
  <1>3. PICK f : f \in [SUBSET (1 .. N) -> Grids] /\ Loops(f, grid, Filtering)
    BY <1>1, LoopExists
  <1>4. Eq(f)
    <2>1. \A s \in SUBSET (1 .. N) : f[s] = IF s = {} THEN grid
                                            ELSE FilterCell(f[s \ {Max(s)}], InRasterOrder[Max(s)])
      BY <1>1, <1>2, <1>3 DEF Loops
    <2> QED BY <1>3, <2>1
  <1>5. Eq(iter)
    <2> HIDE DEF Eq
    <2> QED BY <1>4
  <1>6. filterIsolated(grid) = iter[1 .. N]
    <2>1. DOMAIN InRasterOrder = 1 .. N
      BY RasterIs
    <2> QED BY <2>1, Zenon DEF filterIsolated, FoldLeft, MapThenFoldSet
  <1>7. Loops(iter, grid, Filtering)
    <2> HIDE DEF iter
    <2>1. \A s \in SUBSET (1 .. N) : iter[s] = IF s = {} THEN grid
                                               ELSE FilterCell(iter[s \ {Max(s)}], InRasterOrder[Max(s)])
      BY <1>5
    <2> QED BY <1>1, <1>2, <2>1 DEF Loops
  <1> HIDE DEF iter, Eq
  <1>8. \E F : Runs(F, grid, Filtering) /\ F[Rows * Cols] = iter[1 .. Rows * Cols]
    BY <1>1, <1>7, LoopRuns
  <1> QED BY <1>6, <1>8

(* What every step of a loop keeps holds at its end.                       *)
LEMMA LoopKeeps ==
  ASSUME GridAssumption, NEW grid \in Grids, NEW cell \in [Grids \X Cells -> Grids],
         NEW F, Runs(F, grid, cell), NEW Good, <<0, grid>> \in Good,
         \A i \in 1 .. Rows * Cols, g \in Grids :
            <<i - 1, g>> \in Good => <<i, cell[<<g, InRasterOrder[i]>>]>> \in Good
  PROVE  <<Rows * Cols, F[Rows * Cols]>> \in Good /\ F[Rows * Cols] \in Grids
  <1> DEFINE N == Rows * Cols
             B == {i \in 0 .. N : <<i, F[i]>> \notin Good}
  <1>1. N \in Nat
    BY Sizes
  <1>2. F[0] = grid /\ \A i \in 0 .. N : F[i] \in Grids
    BY DEF Runs
  <1>3. ASSUME B # {} PROVE FALSE
    <2>1. PICK i \in B : \A j \in B : i <= j
      <3>1. B \subseteq Nat
        OBVIOUS
      <3> HIDE DEF B
      <3> QED BY <1>3, <3>1, LeastOf
    <2>2. i \in 1 .. N /\ i - 1 \in 0 .. N /\ ~ i <= i - 1
      BY <1>1, <1>2
    <2>3. <<i - 1, F[i - 1]>> \in Good /\ F[i - 1] \in Grids
      BY <1>2, <2>1, <2>2
    <2>4. F[i] = cell[<<F[i - 1], InRasterOrder[i]>>]
      BY <2>2 DEF Runs
    <2> QED BY <2>2, <2>3, <2>4
  <1>4. N \in 0 .. N
    BY <1>1
  <1> QED BY <1>2, <1>3, <1>4

(* The heights of a map are between heights of hs.                         *)
Between(h, hs)   == (\E y \in hs : y <= h) /\ (\E y \in hs : h <= y)
Within(grid, hs) == \A c \in Cells : grid[c].surface => Between(grid[c].z, hs)

(* The map g after i steps of filling in grid.                             *)
FilledIn(grid, g, hs, i) ==
  /\ \A c \in Cells : grid[c].surface => g[c] = grid[c]
  /\ Within(grid, hs) => Within(g, hs)
  /\ \A j \in 1 .. i : \A d \in Neighbours(InRasterOrder[j]) :
       grid[d].surface => g[InRasterOrder[j]].surface

(* One cell further.                                                       *)
LEMMA FillStep ==
  ASSUME GridAssumption, NEW grid \in Grids, NEW g \in Grids, NEW hs \in SUBSET Nat,
         NEW i \in 1 .. Rows * Cols, FilledIn(grid, g, hs, i - 1)
  PROVE  FilledIn(grid, FillCell(g, InRasterOrder[i]), hs, i)
  <1> DEFINE c == InRasterOrder[i]
             R == FillCell(g, c)
  <1>1. c \in Cells /\ Rows * Cols \in Nat
    BY RasterIs, Sizes
  <1>2. /\ R \in Grids /\ \A d \in Cells : d # c \/ g[d].surface => R[d] = g[d]
        /\ FilledFrom(g, c) # {} => R[c].surface
        /\ R[c].surface /\ ~g[c].surface => /\ \E n \in FilledFrom(g, c) : g[n].z <= R[c].z
                                            /\ \E n \in FilledFrom(g, c) : R[c].z <= g[n].z
    BY <1>1, FillOne
  <1>3. /\ \A d \in Cells : grid[d].surface => g[d] = grid[d]
        /\ Within(grid, hs) => Within(g, hs)
        /\ \A j \in 1 .. i - 1 : \A d \in Neighbours(InRasterOrder[j]) :
             grid[d].surface => g[InRasterOrder[j]].surface
    BY DEF FilledIn
  <1>4. /\ FilledFrom(g, c) = {n \in Neighbours(c) : g[n].surface}
        /\ FilledFrom(g, c) \subseteq Cells /\ Neighbours(c) \subseteq Cells
    BY <1>1, FilledFromIs, NeighboursAre
  <1> HIDE DEF R, c
  <1>5. \A d \in Cells : grid[d].surface => R[d] = grid[d]
    <2> SUFFICES ASSUME NEW d \in Cells, grid[d].surface PROVE R[d] = grid[d]
      OBVIOUS
    <2>1. g[d] = grid[d]
      BY <1>3
    <2> QED BY <1>2, <2>1
  <1>6. ASSUME Within(grid, hs) PROVE Within(R, hs)
    <2> SUFFICES ASSUME NEW d \in Cells, R[d].surface PROVE Between(R[d].z, hs)
      BY DEF Within
    <2>1. \A e \in Cells : g[e].surface => Between(g[e].z, hs)
      BY <1>3, <1>6 DEF Within
    <2>2. CASE d # c \/ g[d].surface
      <3>1. R[d] = g[d]
        BY <1>2, <2>2
      <3> QED BY <2>1, <3>1
    <2>3. CASE d = c /\ ~g[d].surface
      <3>1. PICK n \in FilledFrom(g, c) : g[n].z <= R[c].z
        BY <1>2, <2>3
      <3>2. PICK m \in FilledFrom(g, c) : R[c].z <= g[m].z
        BY <1>2, <2>3
      <3>3. g[n].surface /\ g[m].surface /\ n \in Cells /\ m \in Cells
        BY <1>4
      <3>4. R[c].z \in Nat /\ g[n].z \in Nat /\ g[m].z \in Nat
        BY <1>1, <1>2, <3>3 DEF Grids, Cell
      <3>5. PICK y \in hs : y <= g[n].z
        BY <2>1, <3>3 DEF Between
      <3>6. PICK z \in hs : g[m].z <= z
        BY <2>1, <3>3 DEF Between
      <3>7. y <= R[c].z /\ R[c].z <= z
        <4>1. y \in Nat /\ z \in Nat
          OBVIOUS
        <4> QED BY <3>1, <3>2, <3>4, <3>5, <3>6, <4>1
      <3> QED BY <2>3, <3>7 DEF Between
    <2> QED BY <2>2, <2>3
  <1>7. ASSUME NEW j \in 1 .. i, NEW d \in Neighbours(InRasterOrder[j]), grid[d].surface
        PROVE  R[InRasterOrder[j]].surface
    <2>1. j \in 1 .. Rows * Cols /\ (j = i \/ j \in 1 .. i - 1)
      BY <1>1
    <2>2. InRasterOrder[j] \in Cells
      BY <2>1, RasterIs
    <2>3. CASE j = i
      <3>1. d \in Neighbours(c) /\ d \in Cells
        BY <1>4, <2>3 DEF c
      <3>2. g[d].surface
        BY <1>3, <1>7, <3>1
      <3>3. FilledFrom(g, c) # {}
        BY <1>4, <3>1, <3>2
      <3> QED BY <1>2, <2>3, <3>3 DEF c
    <2>4. CASE j \in 1 .. i - 1
      <3>1. g[InRasterOrder[j]].surface
        BY <1>3, <1>7, <2>4
      <3> QED BY <1>2, <2>2, <3>1
    <2> QED BY <2>1, <2>3, <2>4
  <1> QED BY <1>5, <1>6, <1>7 DEF FilledIn, R, c

(* Filling in keeps what a map has, fills each cell next to one, and stays *)
(* within the heights there are.                                           *)
LEMMA FillKeeps ==
  ASSUME GridAssumption, NEW grid \in Grids
  PROVE  /\ fillBlankCells(grid) \in Grids
         /\ \A c \in Cells : grid[c].surface => fillBlankCells(grid)[c] = grid[c]
         /\ \A c \in Cells : \A d \in Neighbours(c) : grid[d].surface => fillBlankCells(grid)[c].surface
         /\ \A hs \in SUBSET Nat : Within(grid, hs) => Within(fillBlankCells(grid), hs)
  <1> DEFINE N == Rows * Cols
             R == fillBlankCells(grid)
  <1>1. PICK F : Runs(F, grid, Filling) /\ F[Rows * Cols] = R
    BY FillRuns
  <1>2. /\ Filling \in [Grids \X Cells -> Grids]
        /\ \A g \in Grids, c \in Cells : Filling[<<g, c>>] = FillCell(g, c)
    BY FillOne DEF Filling
  <1>3. ASSUME NEW hs \in SUBSET Nat PROVE R \in Grids /\ FilledIn(grid, R, hs, N)
    <2> DEFINE Good == {p \in (0 .. N) \X Grids : FilledIn(grid, p[2], hs, p[1])}
    <2>1. N \in Nat /\ \A i \in 1 .. N : InRasterOrder[i] \in Cells /\ i - 1 \in 0 .. N /\ i \in 0 .. N
      BY Sizes, RasterIs
    <2>2. <<0, grid>> \in Good
      <3>1. FilledIn(grid, grid, hs, 0)
        BY DEF FilledIn
      <3> QED BY <2>1, <3>1
    <2>3. ASSUME NEW i \in 1 .. N, NEW g \in Grids, <<i - 1, g>> \in Good
          PROVE  <<i, Filling[<<g, InRasterOrder[i]>>]>> \in Good
      <3>1. FilledIn(grid, g, hs, i - 1)
        BY <2>3
      <3>2. FilledIn(grid, FillCell(g, InRasterOrder[i]), hs, i)
        BY <3>1, FillStep
      <3>3. Filling[<<g, InRasterOrder[i]>>] = FillCell(g, InRasterOrder[i])
            /\ Filling[<<g, InRasterOrder[i]>>] \in Grids
        BY <1>2, <2>1
      <3> QED BY <2>1, <3>2, <3>3
    <2>4. <<N, F[N]>> \in Good /\ F[N] \in Grids
      <3> HIDE DEF Good
      <3>1. \A i \in 1 .. Rows * Cols, g \in Grids :
              <<i - 1, g>> \in Good => <<i, Filling[<<g, InRasterOrder[i]>>]>> \in Good
        BY <2>3
      <3> QED BY <1>1, <1>2, <2>2, <3>1, LoopKeeps, Zenon
    <2> QED BY <1>1, <2>4
  <1> HIDE DEF R
  <1>4. R \in Grids /\ \A c \in Cells : grid[c].surface => R[c] = grid[c]
    <2>1. {} \in SUBSET Nat
      OBVIOUS
    <2> QED BY <1>3, <2>1 DEF FilledIn
  <1>5. ASSUME NEW c \in Cells, NEW d \in Neighbours(c), grid[d].surface PROVE R[c].surface
    <2>1. {} \in SUBSET Nat
      OBVIOUS
    <2>2. PICK j \in 1 .. N : InRasterOrder[j] = c
      BY RasterIs
    <2> QED BY <1>3, <1>5, <2>1, <2>2 DEF FilledIn
  <1>6. \A hs \in SUBSET Nat : Within(grid, hs) => Within(R, hs)
    BY <1>3 DEF FilledIn
  <1> QED BY <1>4, <1>5, <1>6 DEF R

(* The map g after i steps of filtering grid.                              *)
FilteredIn(grid, g, i) ==
  \A c \in Cells : g[c].surface <=>
    grid[c].surface /\ (FilledFrom(grid, c) = {} => \A j \in 1 .. i : InRasterOrder[j] # c)

(* One cell further: an isolated cell that was removed before is none that *)
(* this one depends on.                                                    *)
LEMMA FilterStep ==
  ASSUME GridAssumption, NEW grid \in Grids, NEW g \in Grids,
         NEW i \in 1 .. Rows * Cols, FilteredIn(grid, g, i - 1)
  PROVE  FilteredIn(grid, FilterCell(g, InRasterOrder[i]), i)
  <1> DEFINE c == InRasterOrder[i]
             R == FilterCell(g, c)
  <1>1. c \in Cells /\ Rows * Cols \in Nat
    BY RasterIs, Sizes
  <1>2. \A d \in Cells : R[d].surface <=> g[d].surface /\ (d = c => FilledFrom(g, c) # {})
    BY <1>1, FilterOne
  <1>3. \A d \in Cells : g[d].surface <=>
          grid[d].surface /\ (FilledFrom(grid, d) = {} => \A j \in 1 .. i - 1 : InRasterOrder[j] # d)
    BY DEF FilteredIn
  <1>4. /\ FilledFrom(g, c) = {n \in Neighbours(c) : g[n].surface} /\ Neighbours(c) \subseteq Cells
        /\ FilledFrom(grid, c) = {n \in Neighbours(c) : grid[n].surface}
        /\ \A n \in Neighbours(c) : c \in Neighbours(n)
    BY <1>1, FilledFromIs, NeighboursAre
  <1>5. \A n \in Cells : FilledFrom(grid, n) = {m \in Neighbours(n) : grid[m].surface}
    BY FilledFromIs
  <1>6. grid[c].surface => (FilledFrom(g, c) = {} <=> FilledFrom(grid, c) = {})
    <2>1. FilledFrom(grid, c) = {} => FilledFrom(g, c) = {}
      BY <1>3, <1>4
    <2>2. ASSUME grid[c].surface, NEW n \in FilledFrom(grid, c) PROVE n \in FilledFrom(g, c)
      <3>1. n \in Neighbours(c) /\ n \in Cells /\ grid[n].surface
        BY <1>4
      <3>2. c \in FilledFrom(grid, n)
        BY <1>4, <1>5, <2>2, <3>1
      <3>3. g[n].surface
        BY <1>3, <3>1, <3>2
      <3> QED BY <1>4, <3>1, <3>3
    <2> QED BY <2>1, <2>2
  <1>7. \A d : (\A j \in 1 .. i : InRasterOrder[j] # d)
               <=> (\A j \in 1 .. i - 1 : InRasterOrder[j] # d) /\ c # d
    <2>1. \A j \in 1 .. i : j \in 1 .. i - 1 \/ j = i
      BY <1>1
    <2>2. \A j \in 1 .. i - 1 : j \in 1 .. i
      BY <1>1
    <2>3. i \in 1 .. i
      BY <1>1
    <2> QED BY <2>1, <2>2, <2>3
  <1> HIDE DEF R, c
  <1>8. ASSUME NEW d \in Cells
        PROVE  R[d].surface <=>
               grid[d].surface /\ (FilledFrom(grid, d) = {} => \A j \in 1 .. i : InRasterOrder[j] # d)
    <2>1. CASE d = c
      BY <1>2, <1>3, <1>6, <1>7, <2>1
    <2>2. CASE d # c
      BY <1>2, <1>3, <1>7, <2>2
    <2> QED BY <2>1, <2>2
  <1> QED BY <1>8 DEF FilteredIn, R, c

(* The filter leaves the cells that were not isolated when it began.       *)
LEMMA FilterIs ==
  ASSUME GridAssumption, NEW grid \in Grids
  PROVE  Surface(filterIsolated(grid)) = {c \in Surface(grid) : FilledFrom(grid, c) # {}}
  <1> DEFINE N == Rows * Cols
             R == filterIsolated(grid)
             Good == {p \in (0 .. N) \X Grids : FilteredIn(grid, p[2], p[1])}
  <1>1. PICK F : Runs(F, grid, Filtering) /\ F[Rows * Cols] = R
    BY FilterRuns
  <1>2. /\ Filtering \in [Grids \X Cells -> Grids]
        /\ \A g \in Grids, c \in Cells : Filtering[<<g, c>>] = FilterCell(g, c)
    BY FilterOne DEF Filtering
  <1>3. N \in Nat /\ \A i \in 1 .. N : InRasterOrder[i] \in Cells /\ i - 1 \in 0 .. N /\ i \in 0 .. N
    BY Sizes, RasterIs
  <1>4. <<0, grid>> \in Good
    <2>1. FilteredIn(grid, grid, 0)
      BY DEF FilteredIn
    <2> QED BY <1>3, <2>1
  <1>5. ASSUME NEW i \in 1 .. N, NEW g \in Grids, <<i - 1, g>> \in Good
        PROVE  <<i, Filtering[<<g, InRasterOrder[i]>>]>> \in Good
    <2>1. FilteredIn(grid, g, i - 1)
      BY <1>5
    <2>2. FilteredIn(grid, FilterCell(g, InRasterOrder[i]), i)
      BY <2>1, FilterStep
    <2>3. Filtering[<<g, InRasterOrder[i]>>] = FilterCell(g, InRasterOrder[i])
          /\ Filtering[<<g, InRasterOrder[i]>>] \in Grids
      BY <1>2, <1>3
    <2> QED BY <1>3, <2>2, <2>3
  <1>6. <<N, F[N]>> \in Good /\ F[N] \in Grids
    <2> HIDE DEF Good
    <2>1. \A i \in 1 .. Rows * Cols, g \in Grids :
            <<i - 1, g>> \in Good => <<i, Filtering[<<g, InRasterOrder[i]>>]>> \in Good
      BY <1>5
    <2> QED BY <1>1, <1>2, <1>4, <2>1, LoopKeeps, Zenon
  <1>7. R \in Grids /\ FilteredIn(grid, R, N)
    BY <1>1, <1>6
  <1> HIDE DEF R
  <1>8. \A c \in Cells : R[c].surface <=> grid[c].surface /\ FilledFrom(grid, c) # {}
    BY <1>7, RasterIs DEF FilteredIn
  <1>9. DOMAIN R = Cells /\ DOMAIN grid = Cells
    BY <1>7 DEF Grids
  <1> QED BY <1>8, <1>9 DEF Surface, R

-----------------------------------------------------------------------------
(* The sparse map.                                                         *)
LEMMA LastOfIs ==
  ASSUME GridAssumption, NEW cells \in SUBSET Cells, cells # {}
  PROVE  LastOf(cells) \in cells
  <1>1. \A c \in Cells : c[1] \in Nat /\ c[2] \in Nat /\ c = <<c[1], c[2]>>
    BY Sizes
  <1>2. IsFiniteSet(cells)
    BY Sizes, FS_Subset
  <1> DEFINE rows == {c[1] : c \in cells}
  <1>3. PICK r \in rows : \A s \in rows : s <= r
    <2> DEFINE row == [c \in cells |-> c[1]]
    <2>3. rows = {row[c] : c \in cells}
      OBVIOUS
    <2>1. IsFiniteSet(rows)
      <3> HIDE DEF rows, row
      <3> QED BY <1>2, <2>3, ImageIsFinite
    <2>2. rows \subseteq Nat /\ rows # {}
      BY <1>1
    <2> HIDE DEF rows
    <2> QED BY <2>1, <2>2, GreatestOf
  <1> DEFINE inrow == {c \in cells : c[1] = r}
             cols  == {c[2] : c \in inrow}
  <1>4. PICK k \in cols : \A s \in cols : s <= k
    <2>1. IsFiniteSet(inrow)
      BY <1>2, FS_Subset
    <2> DEFINE col == [c \in inrow |-> c[2]]
    <2>4. cols = {col[c] : c \in inrow}
      OBVIOUS
    <2>2. IsFiniteSet(cols)
      <3> HIDE DEF inrow, col, cols
      <3> QED BY <2>1, <2>4, ImageIsFinite
    <2>3. cols \subseteq Nat /\ cols # {}
      BY <1>1, <1>3
    <2> HIDE DEF cols
    <2> QED BY <2>2, <2>3, GreatestOf
  <1>5. PICK c \in inrow : c[2] = k
    BY <1>4
  <1>6. ASSUME NEW d \in cells PROVE d[1] < c[1] \/ (d[1] = c[1] /\ d[2] <= c[2])
    <2>1. d[1] <= r /\ c[1] = r /\ d[1] \in Nat /\ r \in Nat
      BY <1>1, <1>3, <1>5
    <2>2. d[1] = r => d[2] <= k
      BY <1>4
    <2> QED BY <1>5, <2>1, <2>2
  <1>7. c \in cells
    BY <1>5
  <1> QED BY <1>6, <1>7 DEF LastOf

(* A block of the sparse map is surface if one of its cells is, and has    *)
(* what one of its cells has.                                              *)
LEMMA SparseIs ==
  ASSUME GridAssumption, NEW grid \in Grids
  PROVE  LET sparse == sparseGrid(grid, 2)
         IN  /\ {<<c[1] \div 2, c[2] \div 2>> : c \in Surface(grid)} = Surface(sparse)
             /\ \A s \in Surface(sparse) : \E c \in Block(s, 2) : grid[c] = sparse[s]
  <1> DEFINE D == (0 .. (Rows + 2 - 1) \div 2 - 1) \X (0 .. (Cols + 2 - 1) \div 2 - 1)
             seen(s) == Block(s, 2) \cap Surface(grid)
             sparse == sparseGrid(grid, 2)
  <1>1. DOMAIN sparse = D /\ \A s \in D : sparse[s] = IF seen(s) = {} THEN NoPoints ELSE grid[LastOf(seen(s))]
    BY DEF sparseGrid
  <1> HIDE DEF sparse
  <1>2. \A s : seen(s) \in SUBSET Cells /\ seen(s) = {c \in Surface(grid) : c[1] \div 2 = s[1] /\ c[2] \div 2 = s[2]}
    BY DEF Block, Surface, Grids
  <1>3. ASSUME NEW s \in D
        PROVE  /\ sparse[s].surface <=> seen(s) # {}
               /\ seen(s) # {} => LastOf(seen(s)) \in seen(s) /\ sparse[s] = grid[LastOf(seen(s))]
    <2>1. CASE seen(s) = {}
      <3>1. sparse[s] = NoPoints
        BY <1>1, <2>1
      <3> QED BY <2>1, <3>1 DEF NoPoints
    <2>2. CASE seen(s) # {}
      <3>1. LastOf(seen(s)) \in seen(s)
        BY <1>2, <2>2, LastOfIs
      <3>2. sparse[s] = grid[LastOf(seen(s))]
        BY <1>1, <2>2
      <3>3. grid[LastOf(seen(s))].surface
        BY <3>1 DEF Surface
      <3> QED BY <2>2, <3>1, <3>2, <3>3
    <2> QED BY <2>1, <2>2
  <1>4. ASSUME NEW c \in Surface(grid)
        PROVE  <<c[1] \div 2, c[2] \div 2>> \in D /\ c \in seen(<<c[1] \div 2, c[2] \div 2>>)
    <2>1. c \in Cells
      BY DEF Surface, Grids
    <2>2. c[1] \in 0 .. Rows - 1 /\ c[2] \in 0 .. Cols - 1 /\ Rows \in Nat /\ Cols \in Nat
      BY <2>1, Sizes
    <2>3. \A a, n \in Nat : a \in 0 .. n - 1 => a \div 2 \in 0 .. (n + 2 - 1) \div 2 - 1
      OBVIOUS
    <2>4. c[1] \div 2 \in 0 .. (Rows + 2 - 1) \div 2 - 1 /\ c[2] \div 2 \in 0 .. (Cols + 2 - 1) \div 2 - 1
      BY <2>2, <2>3
    <2> QED BY <1>2, <2>4
  <1> HIDE DEF D
  <1>5. ASSUME NEW s \in Surface(sparse)
        PROVE  s \in D /\ seen(s) # {} /\ \E c \in Block(s, 2) : grid[c] = sparse[s]
    <2>1. s \in D /\ sparse[s].surface
      BY <1>1 DEF Surface
    <2>2. seen(s) # {} /\ LastOf(seen(s)) \in seen(s) /\ sparse[s] = grid[LastOf(seen(s))]
      BY <1>3, <2>1
    <2> QED BY <2>1, <2>2
  <1>6. ASSUME NEW c \in Surface(grid) PROVE <<c[1] \div 2, c[2] \div 2>> \in Surface(sparse)
    <2>1. sparse[<<c[1] \div 2, c[2] \div 2>>].surface
      BY <1>3, <1>4
    <2> QED BY <1>1, <1>4, <2>1 DEF Surface
  <1>7. ASSUME NEW s \in Surface(sparse) PROVE \E c \in Surface(grid) : s = <<c[1] \div 2, c[2] \div 2>>
    <2>1. PICK c \in Surface(grid) : c[1] \div 2 = s[1] /\ c[2] \div 2 = s[2]
      BY <1>2, <1>5
    <2>2. s = <<s[1], s[2]>>
      BY <1>5 DEF D
    <2> QED BY <2>1, <2>2
  <1>8. {<<c[1] \div 2, c[2] \div 2>> : c \in Surface(grid)} = Surface(sparse)
    BY <1>6, <1>7
  <1> QED BY <1>5, <1>8 DEF sparse

-----------------------------------------------------------------------------
(* Clouds, maps and what is computed from them.                            *)
IsCloud(cloud) == IsFiniteSet(cloud) /\ cloud \subseteq Points
IsMap(grid)    == DOMAIN grid \subseteq Cells /\ \A c \in DOMAIN grid : grid[c] \in Cell /\ grid[c].surface

(* The map of a cloud has only cells with natural heights, all placed.     *)
LEMMA ScanIs ==
  ASSUME GridAssumption, NEW cloud, IsCloud(cloud)
  PROVE  pcd2Grid(cloud) \in Grids /\ \A c \in Cells : pcd2Grid(cloud)[c].placed
  <1>1. ASSUME NEW c \in Cells, PointsIn(cloud, c) # {}
        PROVE  MeanHeight(PointsIn(cloud, c)) \in Nat /\ Cardinality(PointsIn(cloud, c)) \in Nat
    <2> DEFINE points == PointsIn(cloud, c)
               fun    == [p \in points |-> p.z]
    <2>1. points \subseteq cloud /\ points \subseteq Points
      BY DEF PointsIn, IsCloud
    <2>2. IsFiniteSet(points)
      BY <2>1, FS_Subset DEF IsCloud
    <2>3. fun \in [points -> Nat]
      BY <2>1 DEF Points
    <2>4. Cardinality(points) \in Nat
      BY <2>2, FS_CardinalityType
    <2>5. SumFunction(fun) \div Cardinality(points) \in Nat
      <3> HIDE DEF fun, points
      <3>1. points # {}
        BY <1>1 DEF points
      <3> QED BY <2>2, <2>3, <3>1, MeanBetween
    <2> QED BY <2>4, <2>5 DEF MeanHeight
  <1>2. \A c \in Cells : pcd2Grid(cloud)[c] =
          IF PointsIn(cloud, c) = {} THEN [NoPoints EXCEPT !.placed = TRUE]
          ELSE [surface |-> TRUE, pts_num |-> Cardinality(PointsIn(cloud, c)),
                z |-> MeanHeight(PointsIn(cloud, c)), placed |-> TRUE]
    BY DEF pcd2Grid
  <1>3. pcd2Grid(cloud) = [c \in Cells |-> pcd2Grid(cloud)[c]]
    BY DEF pcd2Grid
  <1>4. ASSUME NEW c \in Cells PROVE pcd2Grid(cloud)[c] \in Cell /\ pcd2Grid(cloud)[c].placed
    <2>1. CASE PointsIn(cloud, c) = {}
      <3>1. pcd2Grid(cloud)[c] = [surface |-> FALSE, pts_num |-> 0, z |-> 0, placed |-> TRUE]
        BY <1>2, <2>1 DEF NoPoints
      <3> QED BY <3>1 DEF Cell
    <2>2. CASE PointsIn(cloud, c) # {}
      <3>1. pcd2Grid(cloud)[c] = [surface |-> TRUE, pts_num |-> Cardinality(PointsIn(cloud, c)),
                                  z |-> MeanHeight(PointsIn(cloud, c)), placed |-> TRUE]
        BY <1>2, <2>2
      <3> QED BY <1>1, <2>2, <3>1 DEF Cell
    <2> QED BY <2>1, <2>2
  <1> QED BY <1>3, <1>4 DEF Grids

(* A cloud that was moved and cropped is a cloud.                          *)
LEMMA CropIs ==
  ASSUME MapAssumption, NEW l \in Lidars, NEW cloud, IsCloud(cloud)
  PROVE  IsCloud(Cropped(l, cloud))
  <1> DEFINE moved == {[q EXCEPT !.x = @ + Shift[l]] : q \in cloud}
             f     == [q \in cloud |-> [q EXCEPT !.x = @ + Shift[l]]]
  <1>1. IsFiniteSet(moved)
    <2>1. moved = {f[q] : q \in cloud}
      OBVIOUS
    <2> HIDE DEF f, moved
    <2> QED BY <2>1, ImageIsFinite DEF IsCloud
  <1>2. moved \subseteq Points
    <2>1. Shift[l] \in Int
      BY DEF MapAssumption
    <2>2. ASSUME NEW q \in Points PROVE [q EXCEPT !.x = @ + Shift[l]] \in Points
      BY <2>1 DEF Points
    <2> QED BY <2>2 DEF IsCloud
  <1>3. Cropped(l, cloud) \subseteq moved
    BY DEF Cropped
  <1> HIDE DEF moved
  <1>4. IsFiniteSet(Cropped(l, cloud))
    BY <1>1, <1>3, FS_Subset
  <1> QED BY <1>2, <1>3, <1>4 DEF IsCloud

(* A sum over what is not negative is not negative.                        *)
LEMMA SumNotNegative ==
  ASSUME NEW S, IsFiniteSet(S), NEW fun \in [S -> Int], NEW sum, Sums(sum, fun, S),
         NEW P \in SUBSET S, \A x \in P : fun[x] >= 0
  PROVE  sum[P] >= 0
  <1> DEFINE B == {s \in SUBSET P : ~ sum[s] >= 0}
  <1>1. B \in SUBSET (SUBSET P) /\ {} \notin B /\ IsFiniteSet(P)
    BY FS_Subset DEF Sums
  <1>2. ASSUME NEW s \in B PROVE \E x \in s : s \ {x} \in B
    <2>1. s # {} /\ s \in SUBSET P /\ s \in SUBSET S
      BY <1>1
    <2>2. PICK x \in s : TRUE
      BY <2>1
    <2>3. sum[s] = fun[x] + sum[s \ {x}] /\ s \ {x} \in SUBSET P /\ sum[s \ {x}] \in Int /\ fun[x] \in Int
      BY <2>1 DEF Sums
    <2>4. fun[x] >= 0 /\ ~ sum[s] >= 0
      BY <2>1
    <2>5. ~ sum[s \ {x}] >= 0
      BY <2>3, <2>4
    <2> QED BY <2>3, <2>5
  <1>3. B = {}
    <2> HIDE DEF B
    <2> QED BY <1>1, <1>2, NoneSmaller
  <1> QED BY <1>3

(* The two volumes of a map agree.                                         *)
LEMMA VolumesHold ==
  ASSUME MapAssumption, IsMap(last_grid_)
  PROVE  VolumesAgree
  <1> DEFINE grid  == last_grid_
             D     == DOMAIN grid
             above == {d \in D : grid[d].z > base_height_}
             fun   == [c \in D |-> (grid[c].z - base_height_) * Res * Res]
             full  == [c \in Cells |-> IF c \in D THEN grid[c] ELSE NoPoints]
             base  == [c \in Cells |-> base_height_]
  <1>1. /\ D \subseteq Cells /\ IsFiniteSet(D) /\ base_height_ \in Int /\ Res \in Nat
        /\ \A c \in D : grid[c] \in Cell /\ grid[c].z \in Nat /\ grid[c].surface
    <2>1. IsFiniteSet(Cells)
      BY Sizes DEF MapAssumption
    <2> QED BY <2>1, FS_Subset DEF IsMap, MapAssumption, GridAssumption, Cell
  <1>2. /\ fun \in [D -> Int]
        /\ \A c \in D : /\ fun[c] = (grid[c].z - base_height_) * Res * Res
                        /\ grid[c].z >= base_height_ => fun[c] >= 0
                        /\ grid[c].z <= base_height_ => fun[c] <= 0
                        /\ grid[c].z = base_height_ => fun[c] = 0
    <2>1. \A a \in Int, r \in Nat : /\ a * r * r \in Int
                                    /\ a >= 0 => a * r * r >= 0
                                    /\ a <= 0 => a * r * r <= 0
                                    /\ a = 0 => a * r * r = 0
      <3>1. \A a \in Int, r \in Nat : /\ a * r \in Int
                                      /\ a >= 0 => a * r >= 0
                                      /\ a <= 0 => a * r <= 0
                                      /\ a = 0 => a * r = 0
        OBVIOUS
      <3> QED BY <3>1
    <2>2. \A c \in D : grid[c].z - base_height_ \in Int
      BY <1>1
    <2>3. \A c \in D : fun[c] = (grid[c].z - base_height_) * Res * Res
      OBVIOUS
    <2>4. fun \in [D -> Int]
      BY <1>1, <2>1, <2>2
    <2> HIDE DEF fun
    <2>5. ASSUME NEW c \in D
          PROVE  /\ grid[c].z >= base_height_ => fun[c] >= 0
                 /\ grid[c].z <= base_height_ => fun[c] <= 0
                 /\ grid[c].z = base_height_ => fun[c] = 0
      <3> DEFINE a == grid[c].z - base_height_
      <3>1. /\ grid[c].z >= base_height_ => a >= 0
            /\ grid[c].z <= base_height_ => a <= 0
            /\ grid[c].z = base_height_ => a = 0
            /\ a \in Int /\ fun[c] = a * Res * Res
        BY <1>1, <2>3
      <3> HIDE DEF a
      <3> QED BY <1>1, <2>1, <3>1
    <2> QED BY <2>3, <2>4, <2>5
  <1>3. Surface(full) = D
    BY <1>1 DEF Surface, NoPoints
  <1>4. calcVolume(full, base) = IF SumFunction(fun) < 0 THEN 0 ELSE SumFunction(fun)
    <2>1. [c \in Surface(full) |-> (full[c].z - base[c]) * Res * Res] = fun
      BY <1>1, <1>3
    <2> HIDE DEF full, base, fun
    <2> QED BY <2>1 DEF calcVolume
  <1>5. VolumeOf(grid) = SumFunction([c \in above |-> fun[c]])
    <2>1. [c \in above |-> (grid[c].z - base_height_) * Res * Res] = [c \in above |-> fun[c]]
      OBVIOUS
    <2> QED BY <2>1 DEF VolumeOf
  <1> HIDE DEF fun
  <1>6. PICK sum : Sums(sum, fun, D) /\ SumFunction(fun) = sum[D]
    BY <1>1, <1>2, SumIs
  <1>7. above \in SUBSET D /\ \A x \in D \ above : fun[x] <= 0
    BY <1>1, <1>2
  <1>8. \A x \in above : fun[x] >= 0
    BY <1>1, <1>2
  <1>9. (\A c \in D : grid[c].z >= base_height_) => \A x \in D \ above : fun[x] = 0
    BY <1>1, <1>2
  <1> HIDE DEF above, D, full, base
  <1>10. SumFunction([c \in above |-> fun[c]]) = sum[above]
    BY <1>1, <1>2, <1>6, <1>7, SumOfPart
  <1>11. sum[D] <= sum[above] /\ ((\A x \in D \ above : fun[x] = 0) => sum[D] = sum[above])
    BY <1>1, <1>2, <1>6, <1>7, SumWithout
  <1>12. sum[above] >= 0
    BY <1>1, <1>2, <1>6, <1>7, <1>8, SumNotNegative
  <1>13. sum[D] \in Int /\ sum[above] \in Int
    BY <1>6, <1>7 DEF Sums
  <1>14. calcVolume(full, base) <= VolumeOf(grid)
    BY <1>4, <1>5, <1>6, <1>10, <1>11, <1>12, <1>13
  <1>15. (\A c \in D : grid[c].z >= base_height_) => calcVolume(full, base) = VolumeOf(grid)
    BY <1>4, <1>5, <1>6, <1>9, <1>10, <1>11, <1>12, <1>13
  <1> QED BY <1>14, <1>15 DEF VolumesAgree, full, base, D

-----------------------------------------------------------------------------
(* The points to pick.                                                     *)

(* Up to k points, each the best of those that are not too close to the    *)
(* ones before it; fewer only when none is left.                           *)
Chosen(p, grid, k) ==
  /\ p \in Seq(Candidates(grid)) /\ Len(p) <= k
  /\ \A i, j \in 1 .. Len(p) : i < j => ~TooClose(p[j], p[i])
  /\ \A i \in 1 .. Len(p), d \in Candidates(grid) :
       (\A j \in 1 .. i - 1 : ~TooClose(d, p[j])) => ~Better(Score(grid, d), Score(grid, p[i]))
  /\ Len(p) = k \/ Remaining(grid, p) = {}

(* One more point is chosen as the ones before.                            *)
LEMMA SelectKeeps ==
  ASSUME NEW grid, NEW k \in Nat, NEW p, Chosen(p, grid, k), NEW t \in SelectOne(grid, p)
  PROVE  Chosen(t, grid, k + 1)
  <1> DEFINE C == Candidates(grid)
  <1>1. /\ p \in Seq(C) /\ Len(p) \in Nat /\ DOMAIN p = 1 .. Len(p) /\ \A i \in 1 .. Len(p) : p[i] \in C
    BY ElementOfSeq DEF Chosen
  <1>2. CASE Remaining(grid, p) = {}
    <2>1. t = p
      BY <1>2 DEF SelectOne
    <2>2. Len(p) <= k + 1
      BY <1>1 DEF Chosen
    <2> QED BY <1>2, <2>1, <2>2 DEF Chosen
  <1>3. CASE Remaining(grid, p) # {}
    <2>1. PICK c \in BestOf(grid, Remaining(grid, p)) : t = Append(p, c)
      BY <1>3 DEF SelectOne
    <2>2. /\ c \in Remaining(grid, p)
          /\ \A d \in Remaining(grid, p) : ~Better(Score(grid, d), Score(grid, c))
      BY <2>1 DEF BestOf
    <2>3. c \in C /\ (\A i \in 1 .. Len(p) : ~TooClose(c, p[i])) /\ Len(p) = k
      <3>1. Len(p) = k
        BY <1>3 DEF Chosen
      <3>2. c \in C /\ \A i \in DOMAIN p : ~TooClose(c, p[i])
        BY <2>2 DEF Remaining
      <3> QED BY <1>1, <3>1, <3>2
    <2>4. /\ t \in Seq(C) /\ Len(t) = Len(p) + 1 /\ t[Len(p) + 1] = c
          /\ \A i \in 1 .. Len(p) : t[i] = p[i]
      BY <1>1, <2>1, <2>3, AppendProperties
    <2>5. \A i \in 1 .. Len(t) : i \in 1 .. Len(p) \/ i = Len(p) + 1
      BY <1>1, <2>4
    <2>6. \A i, j \in 1 .. Len(t) : i < j => ~TooClose(t[j], t[i])
      <3> SUFFICES ASSUME NEW i \in 1 .. Len(t), NEW j \in 1 .. Len(t), i < j PROVE ~TooClose(t[j], t[i])
        OBVIOUS
      <3>1. i \in 1 .. Len(p) /\ t[i] = p[i]
        BY <1>1, <2>4
      <3>2. CASE j = Len(p) + 1
        BY <2>3, <2>4, <3>1, <3>2
      <3>3. CASE j \in 1 .. Len(p)
        BY <2>4, <3>1, <3>3 DEF Chosen
      <3> QED BY <2>5, <3>2, <3>3
    <2>7. \A i \in 1 .. Len(t), d \in C :
            (\A j \in 1 .. i - 1 : ~TooClose(d, t[j])) => ~Better(Score(grid, d), Score(grid, t[i]))
      <3> SUFFICES ASSUME NEW i \in 1 .. Len(t), NEW d \in C, \A j \in 1 .. i - 1 : ~TooClose(d, t[j])
                   PROVE  ~Better(Score(grid, d), Score(grid, t[i]))
        OBVIOUS
      <3>1. CASE i \in 1 .. Len(p)
        <4>1. \A j \in 1 .. i - 1 : j \in 1 .. Len(p)
          BY <1>1, <3>1
        <4>2. \A j \in 1 .. i - 1 : ~TooClose(d, p[j])
          BY <2>4, <4>1
        <4> QED BY <2>4, <3>1, <4>2 DEF Chosen
      <3>2. CASE i = Len(p) + 1
        <4>1. \A j \in 1 .. Len(p) : j \in 1 .. i - 1
          BY <1>1, <3>2
        <4>2. \A j \in 1 .. Len(p) : ~TooClose(d, p[j])
          BY <2>4, <4>1
        <4>3. d \in Remaining(grid, p)
          BY <1>1, <4>2 DEF Remaining
        <4> QED BY <2>2, <2>4, <3>2, <4>3
      <3> QED BY <2>5, <3>1, <3>2
    <2>8. Len(t) = k + 1
      BY <2>3, <2>4
    <2> QED BY <2>4, <2>6, <2>7, <2>8 DEF Chosen
  <1> QED BY <1>2, <1>3

(* What may be selected is chosen so.                                      *)
LEMMA SelectionsAre ==
  ASSUME NEW grid, NEW p \in Selections(grid)
  PROVE  Chosen(p, grid, MaxPicks)
  <1> DEFINE Eq(g) == g = [n \in 0 .. MaxPicks |->
                             IF n = 0 THEN {<<>>} ELSE UNION {SelectOne(grid, s) : s \in g[n - 1]}]
             after == CHOOSE g : Eq(g)
             next(S) == UNION {SelectOne(grid, s) : s \in S}
             found == [n \in 0 .. MaxPicks |-> CASE n = 0 -> {<<>>} [] n = 1 -> next({<<>>})
                                                 [] n = 2 -> next(next({<<>>}))
                                                 [] OTHER -> next(next(next({<<>>})))]
  <1>1. Eq(found)
    <2>1. \A n \in 0 .. MaxPicks : n = 0 \/ n = 1 \/ n = 2 \/ n = 3
      BY DEF MaxPicks
    <2>2. /\ found[0] = {<<>>} /\ found[1] = next(found[0]) /\ found[2] = next(found[1])
          /\ found[3] = next(found[2])
      BY DEF MaxPicks
    <2>3. \A n \in 0 .. MaxPicks : found[n] = IF n = 0 THEN {<<>>} ELSE next(found[n - 1])
      <3> HIDE DEF found, next
      <3>1. 1 - 1 = 0 /\ 2 - 1 = 1 /\ 3 - 1 = 2
        OBVIOUS
      <3> QED BY <2>1, <2>2, <3>1
    <2>4. found = [n \in 0 .. MaxPicks |-> found[n]]
      OBVIOUS
    <2> HIDE DEF found
    <2> QED BY <2>3, <2>4
  <1>2. Eq(after)
    <2> HIDE DEF Eq
    <2> QED BY <1>1
  <1>3. p \in after[MaxPicks]
    BY DEF Selections
  <1> HIDE DEF after
  <1>4. /\ after[0] = {<<>>} /\ after[1] = next(after[0]) /\ after[2] = next(after[1])
        /\ after[3] = next(after[2])
    <2>1. \A n \in 0 .. 3 : after[n] = IF n = 0 THEN {<<>>} ELSE next(after[n - 1])
      BY <1>2 DEF MaxPicks
    <2> HIDE DEF next
    <2>2. 0 \in 0 .. 3 /\ 1 \in 0 .. 3 /\ 2 \in 0 .. 3 /\ 3 \in 0 .. 3 /\ 1 - 1 = 0 /\ 2 - 1 = 1 /\ 3 - 1 = 2
      OBVIOUS
    <2> QED BY <2>1, <2>2
  <1>5. \A s \in after[0] : Chosen(s, grid, 0)
    <2>1. <<>> \in Seq(Candidates(grid)) /\ Len(<<>>) = 0
      OBVIOUS
    <2> QED BY <1>4, <2>1 DEF Chosen
  <1>6. ASSUME NEW k \in Nat, NEW S, \A s \in S : Chosen(s, grid, k)
        PROVE  \A t \in next(S) : Chosen(t, grid, k + 1)
    BY <1>6, SelectKeeps
  <1> HIDE DEF next
  <1>7. \A s \in after[1] : Chosen(s, grid, 1)
    <2>1. 0 \in Nat /\ 0 + 1 = 1
      OBVIOUS
    <2> QED BY <1>4, <1>5, <1>6, <2>1
  <1>8. \A s \in after[2] : Chosen(s, grid, 2)
    <2>1. 1 \in Nat /\ 1 + 1 = 2
      OBVIOUS
    <2> QED BY <1>4, <1>6, <1>7, <2>1
  <1>9. \A s \in after[3] : Chosen(s, grid, 3)
    <2>1. 2 \in Nat /\ 2 + 1 = 3
      OBVIOUS
    <2> QED BY <1>4, <1>6, <1>8, <2>1
  <1> QED BY <1>3, <1>9 DEF MaxPicks

(* Points chosen so are the best.                                          *)
LEMMA PicksHold ==
  ASSUME Chosen(picks, pick_map, MaxPicks)
  PROVE  PicksAreBest
  <1> DEFINE C == Candidates(pick_map)
             better(c, d) == Better(Score(pick_map, c), Score(pick_map, d))
             chosen == Range(picks)
  <1>1. /\ picks \in Seq(C) /\ Len(picks) \in Nat /\ Len(picks) <= MaxPicks /\ DOMAIN picks = 1 .. Len(picks)
        /\ \A i \in 1 .. Len(picks) : picks[i] \in C
    BY ElementOfSeq DEF Chosen
  <1>2. chosen = {picks[i] : i \in 1 .. Len(picks)} /\ chosen \subseteq C
    BY <1>1 DEF Range
  <1>3. \A c \in C : c[1] \in Int /\ c[2] \in Int
    BY DEF Candidates
  <1>4. \A c, d \in C : TooClose(c, d) <=> TooClose(d, c)
    BY <1>3 DEF TooClose
  <1>5. ASSUME NEW i \in 1 .. Len(picks), NEW j \in 1 .. Len(picks), i < j
        PROVE  ~TooClose(picks[i], picks[j]) /\ ~better(picks[j], picks[i])
    <2>1. ~TooClose(picks[j], picks[i])
      BY <1>5 DEF Chosen
    <2>2. \A m \in 1 .. i - 1 : m \in 1 .. Len(picks) /\ m < j
      BY <1>1, <1>5
    <2>3. \A m \in 1 .. i - 1 : ~TooClose(picks[j], picks[m])
      BY <2>2 DEF Chosen
    <2>4. ~better(picks[j], picks[i])
      BY <1>1, <2>3 DEF Chosen
    <2> QED BY <1>1, <1>4, <2>1, <2>4
  <1>6. ASSUME NEW c \in C
        PROVE  \/ \E s \in chosen : TooClose(c, s) /\ ~better(c, s)
               \/ Len(picks) = MaxPicks /\ \A s \in chosen : ~better(c, s)
    <2> DEFINE close == {i \in 1 .. Len(picks) : TooClose(c, picks[i])}
    <2>1. CASE close # {}
      <3>1. PICK i \in close : \A j \in close : i <= j
        <4>1. close \subseteq Nat
          OBVIOUS
        <4> HIDE DEF close
        <4> QED BY <2>1, <4>1, LeastOf
      <3>2. \A j \in 1 .. i - 1 : j \in 1 .. Len(picks) /\ ~ i <= j
        BY <1>1
      <3>3. \A j \in 1 .. i - 1 : ~TooClose(c, picks[j])
        BY <3>1, <3>2
      <3>4. ~better(c, picks[i]) /\ TooClose(c, picks[i]) /\ picks[i] \in chosen
        BY <1>2, <3>3 DEF Chosen
      <3> QED BY <3>4
    <2>2. CASE close = {}
      <3>1. \A j \in 1 .. Len(picks) : ~TooClose(c, picks[j])
        BY <2>2
      <3>2. c \in Remaining(pick_map, picks)
        BY <1>1, <3>1 DEF Remaining
      <3>3. Len(picks) = MaxPicks
        BY <3>2 DEF Chosen
      <3>4. ASSUME NEW i \in 1 .. Len(picks) PROVE ~better(c, picks[i])
        <4>1. \A j \in 1 .. i - 1 : j \in 1 .. Len(picks)
          BY <1>1
        <4>2. \A j \in 1 .. i - 1 : ~TooClose(c, picks[j])
          BY <3>1, <4>1
        <4> QED BY <4>2 DEF Chosen
      <3> QED BY <1>2, <3>3, <3>4
    <2> QED BY <2>1, <2>2
  <1> HIDE DEF chosen, C
  <1>7. \A i, j \in DOMAIN picks : i < j => ~TooClose(picks[i], picks[j]) /\ ~better(picks[j], picks[i])
    BY <1>1, <1>5
  <1> QED BY <1>1, <1>2, <1>6, <1>7 DEF PicksAreBest, chosen, C

-----------------------------------------------------------------------------
(* What a cloud does to the map.                                           *)

(* A cell has a neighbour that is nearer to another.                       *)
LEMMA Nearer ==
  ASSUME GridAssumption, NEW c \in Cells, NEW d \in Cells
  PROVE  /\ Distance(c, d) \in Nat /\ (Distance(c, d) = 0 => c = d)
         /\ Distance(c, d) # 0 => \E e \in Cells : e \in Neighbours(d) /\ Distance(c, e) <= Distance(c, d) - 1
  <1> DEFINE apart(x, y)   == IF x < y THEN y - x ELSE x - y
             towards(x, y) == IF x < y THEN x + 1 ELSE IF y < x THEN x - 1 ELSE x
             e == <<towards(d[1], c[1]), towards(d[2], c[2])>>
  <1>1. /\ c[1] \in 0 .. Rows - 1 /\ c[2] \in 0 .. Cols - 1 /\ c = <<c[1], c[2]>>
        /\ d[1] \in 0 .. Rows - 1 /\ d[2] \in 0 .. Cols - 1 /\ d = <<d[1], d[2]>>
        /\ Rows \in Nat /\ Cols \in Nat
    BY Sizes
  <1>2. \A n \in Nat : \A x, y \in 0 .. n - 1 :
          /\ towards(x, y) \in 0 .. n - 1 /\ towards(x, y) - x \in -1 .. 1
          /\ apart(x, y) \in Nat /\ (apart(x, y) = 0 <=> x = y)
          /\ (x # y => towards(x, y) # x)
          /\ apart(y, towards(x, y)) <= (IF apart(y, x) = 0 THEN 0 ELSE apart(y, x) - 1)
          /\ apart(y, towards(x, y)) \in Nat /\ apart(y, x) \in Nat /\ apart(y, x) = apart(x, y)
    OBVIOUS
  <1>3. /\ Distance(c, d) = IF apart(c[1], d[1]) < apart(c[2], d[2]) THEN apart(c[2], d[2]) ELSE apart(c[1], d[1])
        /\ Distance(c, e) = IF apart(c[1], e[1]) < apart(c[2], e[2]) THEN apart(c[2], e[2]) ELSE apart(c[1], e[1])
    BY DEF Distance
  <1>4. /\ e[1] \in 0 .. Rows - 1 /\ e[2] \in 0 .. Cols - 1 /\ e[1] - d[1] \in -1 .. 1 /\ e[2] - d[2] \in -1 .. 1
        /\ (d[1] # c[1] => e[1] # d[1]) /\ (d[2] # c[2] => e[2] # d[2])
        /\ apart(c[1], e[1]) <= (IF apart(c[1], d[1]) = 0 THEN 0 ELSE apart(c[1], d[1]) - 1)
        /\ apart(c[2], e[2]) <= (IF apart(c[2], d[2]) = 0 THEN 0 ELSE apart(c[2], d[2]) - 1)
        /\ apart(c[1], d[1]) \in Nat /\ apart(c[2], d[2]) \in Nat
        /\ apart(c[1], e[1]) \in Nat /\ apart(c[2], e[2]) \in Nat
        /\ (apart(c[1], d[1]) = 0 <=> d[1] = c[1]) /\ (apart(c[2], d[2]) = 0 <=> d[2] = c[2])
    <2> HIDE DEF apart, towards
    <2>1. e[1] = towards(d[1], c[1]) /\ e[2] = towards(d[2], c[2])
      OBVIOUS
    <2> DEFINE Facts(n, x, y) ==
          /\ towards(x, y) \in 0 .. n - 1 /\ towards(x, y) - x \in -1 .. 1
          /\ apart(x, y) \in Nat /\ (apart(x, y) = 0 <=> x = y)
          /\ (x # y => towards(x, y) # x)
          /\ apart(y, towards(x, y)) <= (IF apart(y, x) = 0 THEN 0 ELSE apart(y, x) - 1)
          /\ apart(y, towards(x, y)) \in Nat /\ apart(y, x) \in Nat /\ apart(y, x) = apart(x, y)
    <2>2. \A n \in Nat : \A x, y \in 0 .. n - 1 : Facts(n, x, y)
      BY <1>2, Zenon
    <2>3. Facts(Rows, d[1], c[1]) /\ Facts(Cols, d[2], c[2])
      <3> HIDE DEF Facts
      <3> QED BY <1>1, <2>2
    <2> HIDE DEF e
    <2> QED BY <2>1, <2>3, Zenon
  <1>5. e \in Cells
    <2>1. e = <<e[1], e[2]>>
      OBVIOUS
    <2> HIDE DEF e
    <2> QED BY <1>4, <2>1 DEF Cells
  <1> HIDE DEF e, apart, towards
  <1>6. Distance(c, d) \in Nat /\ (Distance(c, d) = 0 => c = d)
    BY <1>1, <1>3, <1>4
  <1>7. ASSUME Distance(c, d) # 0
        PROVE  e \in Neighbours(d) /\ Distance(c, e) <= Distance(c, d) - 1
    <2>1. Distance(c, e) <= Distance(c, d) - 1
      BY <1>3, <1>4, <1>7
    <2>2. d # c
      BY <1>3, <1>4, <1>7
    <2>3. e # d
      BY <1>1, <1>4, <2>2
    <2> QED BY <1>4, <1>5, <2>1, <2>3, NeighboursAre
  <1> QED BY <1>5, <1>6, <1>7

(* A cell is at no distance from itself.                                   *)
LEMMA DistanceToItself ==
  ASSUME GridAssumption, NEW c \in Cells
  PROVE  Distance(c, c) = 0
  <1>1. c[1] \in Nat /\ c[2] \in Nat
    BY Sizes
  <1> QED BY <1>1 DEF Distance

(* A map a, the heights m last measured, and the clouds g since the first. *)
Keeps(a, m, g) ==
  \A c \in Cells : m[c] # NoHeight =>
    /\ a[c].surface /\ a[c].z = m[c] /\ a[c].placed
    /\ \A d \in Cells : Distance(c, d) <= g[c] => a[d].surface

History(a, m, g, hs) ==
  /\ a \in Grids /\ m \in [Cells -> Nat \cup {NoHeight}] /\ g \in [Cells -> Nat] /\ hs \in SUBSET Nat
  /\ \A c \in Cells : m[c] = NoHeight => g[c] = 0
  /\ Keeps(a, m, g) /\ Within(a, hs)

AfterCloud(a, m, g, hs, scan, am, mm, gg, hh) ==
  /\ am = fillBlankCells(updateArea(a, scan))
  /\ mm = [c \in Cells |-> IF scan[c].surface THEN scan[c].z ELSE m[c]]
  /\ gg = [c \in Cells |-> IF mm[c] = NoHeight THEN 0 ELSE g[c] + 1]
  /\ hh = hs \cup {mm[c] : c \in {d \in Cells : mm[d] # NoHeight}}

(* A cloud leaves a map that is true to what was measured up to then.      *)
LEMMA CloudKeeps ==
  ASSUME GridAssumption, NEW a, NEW m, NEW g, NEW hs, History(a, m, g, hs),
         NEW scan \in Grids, \A c \in Cells : scan[c].placed,
         NEW am, NEW mm, NEW gg, NEW hh, AfterCloud(a, m, g, hs, scan, am, mm, gg, hh)
  PROVE  History(am, mm, gg, hh) /\ \A c \in Cells : a[c].surface => am[c].surface
  <1> DEFINE U == updateArea(a, scan)
  <1>0. AfterCloud(a, m, g, hs, scan, am, mm, gg, hh)
    OBVIOUS
  <1>1. \A c \in Cells : /\ a[c] \in Cell /\ scan[c] \in Cell /\ scan[c].z \in Nat
                         /\ a[c].surface \in BOOLEAN /\ scan[c].surface \in BOOLEAN
    BY DEF History, Grids, Cell
  <1>2. /\ a \in Grids /\ m \in [Cells -> Nat \cup {NoHeight}] /\ g \in [Cells -> Nat] /\ hs \in SUBSET Nat
        /\ \A c \in Cells : m[c] = NoHeight => g[c] = 0
        /\ Keeps(a, m, g) /\ Within(a, hs)
    BY DEF History
  <1>3. \A n \in Nat : n # NoHeight
    BY DEF NoHeight
  <1>4. U \in Grids /\ \A c \in Cells : U[c] = IF scan[c].surface THEN scan[c] ELSE a[c]
    BY <1>1 DEF updateArea, Grids
  <1> HIDE DEF U
  <1>5. /\ am \in Grids /\ (\A c \in Cells : U[c].surface => am[c] = U[c])
        /\ \A c \in Cells : \A d \in Neighbours(c) : U[d].surface => am[c].surface
        /\ \A s \in SUBSET Nat : Within(U, s) => Within(am, s)
    BY <1>0, <1>4, FillKeeps DEF U, AfterCloud
  <1>6. \A c \in Cells : mm[c] = IF scan[c].surface THEN scan[c].z ELSE m[c]
    BY <1>0 DEF AfterCloud
  <1>7. mm \in [Cells -> Nat \cup {NoHeight}]
    BY <1>0, <1>1, <1>2 DEF AfterCloud
  <1>8. gg \in [Cells -> Nat] /\ \A c \in Cells : gg[c] = IF mm[c] = NoHeight THEN 0 ELSE g[c] + 1
    BY <1>0, <1>2 DEF AfterCloud
  <1>9. hh \in SUBSET Nat /\ hs \subseteq hh /\ \A c \in Cells : mm[c] # NoHeight => mm[c] \in hh
    <2>1. hh = hs \cup {mm[c] : c \in {d \in Cells : mm[d] # NoHeight}}
      BY <1>0 DEF AfterCloud
    <2>2. \A c \in Cells : mm[c] # NoHeight => mm[c] \in Nat
      BY <1>7
    <2>3. hs \subseteq Nat
      BY <1>2
    <2> HIDE DEF AfterCloud
    <2> QED BY <2>1, <2>2, <2>3
  <1>10. \A c \in Cells : a[c].surface => U[c].surface
    BY <1>1, <1>4
  <1>11. ASSUME NEW c \in Cells, mm[c] # NoHeight
         PROVE  U[c].surface /\ U[c].z = mm[c] /\ U[c].placed
    <2>1. CASE scan[c].surface
      BY <1>4, <1>6, <2>1
    <2>2. CASE ~scan[c].surface
      <3>1. m[c] # NoHeight /\ mm[c] = m[c] /\ U[c] = a[c]
        BY <1>4, <1>6, <1>11, <2>2
      <3> QED BY <1>2, <3>1 DEF Keeps
    <2> QED BY <1>1, <2>1, <2>2
  <1>12. ASSUME NEW c \in Cells, mm[c] # NoHeight, NEW d \in Cells, Distance(c, d) <= g[c]
         PROVE  U[d].surface
    <2>1. CASE m[c] # NoHeight
      <3>1. a[d].surface
        BY <1>2, <1>12, <2>1 DEF Keeps
      <3> QED BY <1>10, <3>1
    <2>2. CASE m[c] = NoHeight
      <3>1. g[c] = 0 /\ Distance(c, d) \in Nat
        BY <1>2, <2>2, Nearer
      <3>2. Distance(c, d) = 0
        BY <1>12, <3>1
      <3>3. d = c
        BY <3>2, Nearer
      <3> QED BY <1>11, <1>12, <3>3
    <2> QED BY <2>1, <2>2
  <1>13. ASSUME NEW c \in Cells, mm[c] # NoHeight, NEW d \in Cells, Distance(c, d) <= gg[c]
         PROVE  am[d].surface
    <2>1. gg[c] = g[c] + 1 /\ g[c] \in Nat /\ Distance(c, d) \in Nat
      BY <1>2, <1>8, <1>13, Nearer
    <2>2. CASE Distance(c, d) <= g[c]
      BY <1>5, <1>12, <1>13, <2>2
    <2>3. CASE ~ Distance(c, d) <= g[c]
      <3>1. Distance(c, d) # 0 /\ Distance(c, d) - 1 <= g[c]
        BY <1>13, <2>1, <2>3
      <3>2. PICK e \in Cells : e \in Neighbours(d) /\ Distance(c, e) <= Distance(c, d) - 1
        BY <3>1, Nearer
      <3>3. Distance(c, e) <= g[c]
        <4>1. Distance(c, e) \in Nat
          BY Nearer
        <4> QED BY <2>1, <3>1, <3>2, <4>1
      <3>4. U[e].surface
        BY <1>12, <1>13, <3>3
      <3> QED BY <1>5, <3>2, <3>4
    <2> QED BY <2>2, <2>3
  <1>14. Keeps(am, mm, gg)
    <2> SUFFICES ASSUME NEW c \in Cells, mm[c] # NoHeight
                 PROVE  /\ am[c].surface /\ am[c].z = mm[c] /\ am[c].placed
                        /\ \A d \in Cells : Distance(c, d) <= gg[c] => am[d].surface
      BY DEF Keeps
    <2>1. am[c] = U[c] /\ U[c].surface /\ U[c].z = mm[c] /\ U[c].placed
      BY <1>5, <1>11
    <2> QED BY <1>13, <2>1
  <1>15. Within(U, hh)
    <2> SUFFICES ASSUME NEW c \in Cells, U[c].surface PROVE Between(U[c].z, hh)
      BY DEF Within
    <2>1. CASE scan[c].surface
      <3>1. U[c].z = mm[c] /\ mm[c] \in Nat /\ mm[c] \in hh
        BY <1>1, <1>3, <1>4, <1>6, <1>9, <2>1
      <3>2. mm[c] <= mm[c]
        BY <3>1
      <3> QED BY <3>1, <3>2 DEF Between
    <2>2. CASE ~scan[c].surface
      <3>1. U[c] = a[c]
        BY <1>4, <2>2
      <3>2. Between(a[c].z, hs)
        BY <1>2, <3>1 DEF Within
      <3> QED BY <1>9, <3>1, <3>2 DEF Between
    <2> QED BY <1>1, <2>1, <2>2
  <1>16. Within(am, hh)
    BY <1>5, <1>9, <1>15
  <1>17. \A c \in Cells : a[c].surface => am[c].surface
    BY <1>5, <1>10
  <1>18. \A c \in Cells : mm[c] = NoHeight => gg[c] = 0
    BY <1>8
  <1> QED BY <1>5, <1>7, <1>8, <1>9, <1>14, <1>16, <1>17, <1>18 DEF History

-----------------------------------------------------------------------------
(* The nodes.                                                              *)
CloudSet == {cloud \in SUBSET Points : IsFiniteSet(cloud)}

(* What waits for the reader is a part of the map, and what it has a part  *)
(* of what waits.                                                          *)
Following ==
  /\ IsMap(last_grid_) /\ DOMAIN last_grid_ \subseteq Surface(accumulated_)
  /\ \/ gridmap = <<>>
     \/ \E grid : /\ gridmap = <<grid>> /\ IsMap(grid)
                  /\ DOMAIN last_grid_ \subseteq DOMAIN grid /\ DOMAIN grid \subseteq Surface(accumulated_)

GridInv ==
  /\ cloud_topic \in [Lidars -> Seq(CloudSet)]
  /\ History(accumulated_, measured, age, heights)
  /\ Following
  /\ Chosen(picks, pick_map, MaxPicks)

(* A topic that drops its oldest cloud holds clouds.                       *)
LEMMA QueuedIs ==
  ASSUME NEW S, NEW q \in Seq(S), NEW x \in S, NEW depth \in Nat \ {0}
  PROVE  DroppingOldest(q, depth, x) \in Seq(S)
  <1>1. CASE Len(q) < depth
    <2>1. Append(q, x) \in Seq(S)
      BY AppendProperties
    <2> QED BY <1>1, <2>1 DEF DroppingOldest
  <1>2. CASE ~(Len(q) < depth)
    <2>1. q # <<>>
      BY <1>2
    <2>2. Tail(q) \in Seq(S)
      BY <2>1, HeadTailProperties
    <2>3. Append(Tail(q), x) \in Seq(S)
      BY <2>2, AppendProperties
    <2> QED BY <1>2, <2>3 DEF DroppingOldest
  <1> QED BY <1>1, <1>2

(* The invariant holds of empty maps.                                      *)
LEMMA GridInit ==
  ASSUME MapAssumption, MapInit
  PROVE  GridInv
  <1>1. GridAssumption
    BY DEF MapAssumption
  <1>2. cloud_topic \in [Lidars -> Seq(CloudSet)]
    BY DEF MapInit
  <1>3. History(accumulated_, measured, age, heights)
    <2>1. /\ accumulated_ = BlankMap /\ measured = [c \in Cells |-> NoHeight]
          /\ age = [c \in Cells |-> 0] /\ heights = {}
      BY DEF MapInit
    <2>2. accumulated_ \in Grids /\ \A c \in Cells : accumulated_[c].surface = FALSE
      <3>1. NoPoints \in Cell /\ NoPoints.surface = FALSE
        BY DEF NoPoints, Cell
      <3> QED BY <2>1, <3>1 DEF BlankMap, Grids
    <2>3. measured \in [Cells -> Nat \cup {NoHeight}] /\ age \in [Cells -> Nat]
      BY <2>1
    <2>4. \A c \in Cells : measured[c] = NoHeight /\ age[c] = 0
      BY <2>1
    <2> QED BY <2>1, <2>2, <2>3, <2>4 DEF History, Keeps, Within
  <1>4. Following
    <2>1. last_grid_ = NoMap /\ gridmap = <<>>
      BY DEF MapInit
    <2>2. DOMAIN NoMap = {}
      BY DEF NoMap
    <2> QED BY <2>1, <2>2 DEF Following, IsMap
  <1>5. Chosen(picks, pick_map, MaxPicks)
    <2>1. picks = <<>> /\ pick_map = NoMap
      BY DEF MapInit
    <2>2. DOMAIN NoMap = {}
      BY DEF NoMap
    <2>3. Candidates(NoMap) = {}
      BY <2>2 DEF Candidates
    <2>4. Remaining(NoMap, <<>>) = {}
      BY <2>3 DEF Remaining
    <2>5. <<>> \in Seq(Candidates(NoMap)) /\ Len(<<>>) = 0
      OBVIOUS
    <2> QED BY <2>1, <2>4, <2>5 DEF Chosen, MaxPicks
  <1> QED BY <1>2, <1>3, <1>4, <1>5 DEF GridInv

(* A map that has all cells of another is followed as well.                *)
LEMMA FollowingGrows ==
  ASSUME Following, UNCHANGED <<gridmap, last_grid_>>,
         Surface(accumulated_) \subseteq Surface(accumulated_)'
  PROVE  Following'
  <1>1. DOMAIN last_grid_' \subseteq Surface(accumulated_)' /\ IsMap(last_grid_)'
    BY DEF Following, IsMap
  <1>2. CASE gridmap = <<>>
    BY <1>1, <1>2 DEF Following
  <1>3. CASE \E grid : /\ gridmap = <<grid>> /\ IsMap(grid)
                       /\ DOMAIN last_grid_ \subseteq DOMAIN grid
                       /\ DOMAIN grid \subseteq Surface(accumulated_)
    <2>1. PICK grid : /\ gridmap = <<grid>> /\ IsMap(grid)
                      /\ DOMAIN last_grid_ \subseteq DOMAIN grid
                      /\ DOMAIN grid \subseteq Surface(accumulated_)
      BY <1>3
    <2>2. /\ gridmap' = <<grid>> /\ IsMap(grid)
          /\ DOMAIN last_grid_' \subseteq DOMAIN grid /\ DOMAIN grid \subseteq Surface(accumulated_)'
      BY <2>1
    <2> QED BY <1>1, <2>2 DEF Following
  <1> QED BY <1>2, <1>3 DEF Following

(* Each callback, timer and service of the nodes keeps it.                 *)
LEMMA GridNext ==
  ASSUME MapAssumption, GridInv, [MapNext]_gridVars
  PROVE  GridInv'
  <1> DEFINE HistorySame == UNCHANGED <<accumulated_, measured, heights, age>>
  <1>1. GridAssumption /\ QueueDepth \in Nat \ {0}
    BY DEF MapAssumption
  <1>2. /\ cloud_topic \in [Lidars -> Seq(CloudSet)]
        /\ History(accumulated_, measured, age, heights) /\ Following
        /\ Chosen(picks, pick_map, MaxPicks)
    BY DEF GridInv
  <1>3. ASSUME UNCHANGED cloudGridVars PROVE History(accumulated_, measured, age, heights)'
    BY <1>2, <1>3 DEF cloudGridVars
  <1>4. ASSUME UNCHANGED resultVars PROVE Chosen(picks, pick_map, MaxPicks)'
    BY <1>2, <1>4 DEF resultVars
  <1>5. ASSUME UNCHANGED <<cloudGridVars, gridmap, last_grid_>> PROVE Following'
    <2>1. Surface(accumulated_)' = Surface(accumulated_)
      BY <1>5 DEF cloudGridVars
    <2> QED BY <1>2, <1>5, <2>1, FollowingGrows
  <1>6. ASSUME NEW l \in Lidars, LidarCallback(l) PROVE GridInv'
    <2>1. PICK cloud \in Clouds : /\ cloud_topic' = [cloud_topic EXCEPT ![l] = DroppingOldest(@, QueueDepth, Cropped(l, cloud))]
                                  /\ UNCHANGED <<reader, saved_cloud, cloudGridVars, gridmap, last_grid_, resultVars>>
      BY <1>6 DEF LidarCallback
    <2>2. IsCloud(cloud)
      BY DEF MapAssumption, IsCloud
    <2>3. Cropped(l, cloud) \in CloudSet
      BY <2>2, CropIs DEF IsCloud, CloudSet
    <2>4. DroppingOldest(cloud_topic[l], QueueDepth, Cropped(l, cloud)) \in Seq(CloudSet)
      BY <1>1, <1>2, <2>3, QueuedIs
    <2>5. cloud_topic' \in [Lidars -> Seq(CloudSet)]
      BY <1>2, <2>1, <2>4
    <2> QED BY <1>3, <1>4, <1>5, <2>1, <2>5 DEF GridInv
  <1>7. ASSUME NEW l \in Lidars, HandleSavePCD(l) PROVE GridInv'
    BY <1>2, <1>3, <1>4, <1>5, <1>7 DEF HandleSavePCD, GridInv
  <1>8. ASSUME NEW l \in Lidars, CloudCallback(l) PROVE GridInv'
    <2> DEFINE scan == pcd2Grid(Head(cloud_topic[l]))
    <2>1. /\ cloud_topic[l] # <<>> /\ cloud_topic' = [cloud_topic EXCEPT ![l] = Tail(@)]
          /\ accumulated_' = fillBlankCells(updateArea(accumulated_, scan))
          /\ measured' = [c \in Cells |-> IF scan[c].surface THEN scan[c].z ELSE measured[c]]
          /\ heights' = heights \cup {measured'[c] : c \in {d \in Cells : measured'[d] # NoHeight}}
          /\ age' = [c \in Cells |-> IF measured'[c] = NoHeight THEN 0 ELSE age[c] + 1]
          /\ UNCHANGED <<gridmap, last_grid_, resultVars>>
      BY <1>8 DEF CloudCallback
    <2>2. cloud_topic[l] \in Seq(CloudSet)
      BY <1>2
    <2>3. Head(cloud_topic[l]) \in CloudSet /\ Tail(cloud_topic[l]) \in Seq(CloudSet)
      BY <2>1, <2>2, HeadTailProperties
    <2>4. scan \in Grids /\ \A c \in Cells : scan[c].placed
      BY <1>1, <2>3, ScanIs DEF CloudSet, IsCloud
    <2>5. cloud_topic' \in [Lidars -> Seq(CloudSet)]
      BY <1>2, <2>1, <2>3
    <2> HIDE DEF scan
    <2>6. /\ History(accumulated_', measured', age', heights')
          /\ \A c \in Cells : accumulated_[c].surface => accumulated_'[c].surface
      <3>1. accumulated_' = fillBlankCells(updateArea(accumulated_, scan))
        BY <2>1
      <3>2. measured' = [c \in Cells |-> IF scan[c].surface THEN scan[c].z ELSE measured[c]]
        BY <2>1
      <3>3. heights' = heights \cup {measured'[c] : c \in {d \in Cells : measured'[d] # NoHeight}}
        BY <2>1
      <3>4. age' = [c \in Cells |-> IF measured'[c] = NoHeight THEN 0 ELSE age[c] + 1]
        BY <2>1
      <3>5. History(accumulated_, measured, age, heights)
        BY <1>2
      <3>6. AfterCloud(accumulated_, measured, age, heights, scan, accumulated_', measured', age', heights')
        BY <3>1, <3>2, <3>3, <3>4 DEF AfterCloud
      <3> QED BY <1>1, <2>4, <3>5, <3>6, CloudKeeps
    <2>7. Surface(accumulated_) \subseteq Surface(accumulated_)'
      <3>1. DOMAIN accumulated_ = Cells /\ DOMAIN accumulated_' = Cells
        BY <1>2, <2>6 DEF History, Grids
      <3> QED BY <2>6, <3>1 DEF Surface
    <2>8. Following'
      BY <1>2, <2>1, <2>7, FollowingGrows
    <2> QED BY <1>4, <2>1, <2>5, <2>6, <2>8 DEF GridInv
  <1>9. ASSUME PublishGridMap PROVE GridInv'
    <2>1. gridmap' = DroppingOldest(gridmap, 1, Published) /\ UNCHANGED <<lidarVars, cloudGridVars, last_grid_, resultVars>>
      BY <1>9 DEF PublishGridMap
    <2>2. gridmap' = <<Published>>
      <3>1. CASE gridmap = <<>>
        BY <2>1, <3>1 DEF DroppingOldest
      <3>2. CASE gridmap # <<>>
        <4>1. PICK grid : gridmap = <<grid>>
          BY <1>2, <3>2 DEF Following
        <4> QED BY <2>1, <4>1 DEF DroppingOldest
      <3> QED BY <3>1, <3>2
    <2>3. /\ DOMAIN Published = Surface(accumulated_)
          /\ \A c \in Surface(accumulated_) : Published[c] = accumulated_[c]
      BY DEF Published
    <2>4. IsMap(Published)
      <3>1. \A c \in Surface(accumulated_) : c \in Cells /\ accumulated_[c] \in Cell /\ accumulated_[c].surface
        BY <1>2 DEF Surface, History, Grids
      <3> QED BY <2>3, <3>1 DEF IsMap
    <2>5. IsMap(last_grid_) /\ DOMAIN last_grid_ \subseteq Surface(accumulated_)
      BY <1>2 DEF Following
    <2>6. last_grid_' = last_grid_ /\ accumulated_' = accumulated_
      BY <2>1 DEF cloudGridVars
    <2> DEFINE grid == Published
    <2>7. /\ gridmap' = <<grid>> /\ IsMap(grid) /\ DOMAIN last_grid_ \subseteq DOMAIN grid
          /\ DOMAIN grid \subseteq Surface(accumulated_)
      BY <2>2, <2>3, <2>4, <2>5
    <2> HIDE DEF grid
    <2>8. Following'
      BY <2>5, <2>6, <2>7 DEF Following, IsMap, Surface
    <2>9. cloud_topic' = cloud_topic
      BY <2>1 DEF lidarVars
    <2> QED BY <1>2, <1>3, <1>4, <2>1, <2>8, <2>9 DEF GridInv
  <1>10. ASSUME SaveGridSnapshot PROVE GridInv'
    <2>1. /\ cloud_topic' = cloud_topic /\ UNCHANGED <<accumulated_, measured, heights, age, gridmap, last_grid_>>
          /\ UNCHANGED resultVars
      BY <1>10 DEF SaveGridSnapshot, lidarVars
    <2>2. Following'
      <3>1. Surface(accumulated_)' = Surface(accumulated_)
        BY <2>1
      <3> QED BY <1>2, <2>1, <3>1, FollowingGrows
    <2>3. History(accumulated_, measured, age, heights)'
      BY <1>2, <2>1
    <2> QED BY <1>2, <1>4, <2>1, <2>2, <2>3 DEF GridInv
  <1>11. ASSUME TakesMap PROVE GridInv'
    <2>1. /\ gridmap # <<>> /\ gridmap' = Tail(gridmap) /\ last_grid_' = Head(gridmap)
          /\ UNCHANGED <<lidarVars, cloudGridVars, picks, pick_map, volume>>
      BY <1>11 DEF TakesMap
    <2>2. PICK grid : /\ gridmap = <<grid>> /\ IsMap(grid) /\ DOMAIN grid \subseteq Surface(accumulated_)
      BY <1>2, <2>1 DEF Following
    <2>3. gridmap' = <<>> /\ last_grid_' = grid
      BY <2>1, <2>2
    <2>4. accumulated_' = accumulated_ /\ cloud_topic' = cloud_topic
      BY <2>1 DEF cloudGridVars, lidarVars
    <2>5. Following'
      BY <2>2, <2>3, <2>4 DEF Following, IsMap, Surface
    <2>6. Chosen(picks, pick_map, MaxPicks)'
      BY <1>2, <2>1
    <2> QED BY <1>2, <1>3, <2>1, <2>4, <2>5, <2>6 DEF GridInv
  <1>12. ASSUME PublishVolume PROVE GridInv'
    <2>1. /\ cloud_topic' = cloud_topic /\ UNCHANGED <<cloudGridVars, gridmap, last_grid_>>
          /\ UNCHANGED <<picks, pick_map>>
      BY <1>12 DEF PublishVolume, lidarVars
    <2>2. Chosen(picks, pick_map, MaxPicks)'
      BY <1>2, <2>1
    <2> QED BY <1>2, <1>3, <1>5, <2>1, <2>2 DEF GridInv
  <1>13. ASSUME ComputePickPoints PROVE GridInv'
    <2>1. /\ cloud_topic' = cloud_topic /\ UNCHANGED <<cloudGridVars, gridmap, last_grid_>>
          /\ picks' \in Selections(last_grid_) /\ pick_map' = last_grid_
      BY <1>13 DEF ComputePickPoints, lidarVars
    <2>2. Chosen(picks', last_grid_, MaxPicks)
      BY <2>1, SelectionsAre
    <2>3. Chosen(picks', pick_map', MaxPicks)
      BY <2>1, <2>2
    <2> QED BY <1>2, <1>3, <1>5, <2>1, <2>3 DEF GridInv
  <1>14. ASSUME UNCHANGED gridVars PROVE GridInv'
    <2>1. /\ cloud_topic' = cloud_topic /\ UNCHANGED <<cloudGridVars, gridmap, last_grid_>> /\ UNCHANGED resultVars
      BY <1>14 DEF gridVars, lidarVars
    <2> QED BY <1>2, <1>3, <1>4, <1>5, <2>1 DEF GridInv
  <1> QED BY <1>6, <1>7, <1>8, <1>9, <1>10, <1>11, <1>12, <1>13, <1>14
          DEF MapNext, GridCallback, SaveAsPCD

(* What is in two or three sequences of one element each.                  *)
LEMMA InARowIs ==
  ASSUME NEW a, NEW b, NEW c
  PROVE  /\ LET s == <<a>> \o <<>> \o <<c>> IN Len(s) = 2 /\ s[1] = a /\ s[2] = c
         /\ LET s == <<a>> \o <<b>> \o <<c>> IN Len(s) = 3 /\ s[1] = a /\ s[2] = b /\ s[3] = c
  <1> DEFINE S == {a, b, c}
  <1>1. <<a>> \in Seq(S) /\ <<b>> \in Seq(S) /\ <<c>> \in Seq(S) /\ <<>> \in Seq(S)
    OBVIOUS
  <1>2. \A s, t \in Seq(S) : /\ s \o t \in Seq(S) /\ Len(s \o t) = Len(s) + Len(t)
                             /\ \A i \in 1 .. Len(s) + Len(t) :
                                  (s \o t)[i] = IF i <= Len(s) THEN s[i] ELSE t[i - Len(s)]
    BY ConcatProperties
  <1>3. Len(<<a>>) = 1 /\ Len(<<b>>) = 1 /\ Len(<<c>>) = 1 /\ Len(<<>>) = 0
        /\ <<a>>[1] = a /\ <<b>>[1] = b /\ <<c>>[1] = c
    OBVIOUS
  <1> HIDE DEF S
  <1>4. LET s == <<a>> \o <<>> \o <<c>> IN Len(s) = 2 /\ s[1] = a /\ s[2] = c
    <2> DEFINE t == <<a>> \o <<>>
               s == t \o <<c>>
    <2>1. t \in Seq(S) /\ Len(t) = 1 /\ t[1] = a
      BY <1>1, <1>2, <1>3
    <2> HIDE DEF t
    <2>2. Len(s) = 2 /\ s[1] = a /\ s[2] = c
      BY <1>1, <1>2, <1>3, <2>1
    <2> QED BY <2>2 DEF t
  <1>5. LET s == <<a>> \o <<b>> \o <<c>> IN Len(s) = 3 /\ s[1] = a /\ s[2] = b /\ s[3] = c
    <2> DEFINE t == <<a>> \o <<b>>
               s == t \o <<c>>
    <2>1. t \in Seq(S) /\ Len(t) = 2 /\ t[1] = a /\ t[2] = b
      BY <1>1, <1>2, <1>3
    <2> HIDE DEF t
    <2>2. Len(s) = 3 /\ s[1] = a /\ s[2] = b /\ s[3] = c
      <3> DEFINE last == <<c>>
      <3>1. last \in Seq(S) /\ Len(last) = 1 /\ last[1] = c
        BY <1>1, <1>3
      <3> HIDE DEF last
      <3>4. /\ Len(t \o last) = Len(t) + Len(last)
            /\ \A i \in 1 .. Len(t) + Len(last) :
                 (t \o last)[i] = IF i <= Len(t) THEN t[i] ELSE last[i - Len(t)]
        BY <1>2, <2>1, <3>1, Zenon
      <3>2. /\ Len(t \o last) = 2 + 1
            /\ \A i \in 1 .. 2 + 1 : (t \o last)[i] = IF i <= 2 THEN t[i] ELSE last[i - 2]
        BY <2>1, <3>1, <3>4
      <3>3. Len(t \o last) = 3 /\ (t \o last)[1] = a /\ (t \o last)[2] = b /\ (t \o last)[3] = c
        BY <2>1, <3>1, <3>2
      <3> QED BY <3>3 DEF last
    <2> QED BY <2>2 DEF t
  <1> QED BY <1>4, <1>5

(* The invariant implies the property.                                     *)
LEMMA GridHolds ==
  ASSUME MapAssumption, GridInv
  PROVE  MapIsSound
  <1>1. GridAssumption
    BY DEF MapAssumption
  <1>2. /\ cloud_topic \in [Lidars -> Seq(CloudSet)]
        /\ History(accumulated_, measured, age, heights) /\ Following
        /\ Chosen(picks, pick_map, MaxPicks)
    BY DEF GridInv
  <1>3. MapKeepsMeasurements
    <2>1. /\ Keeps(accumulated_, measured, age) /\ Within(accumulated_, heights)
          /\ heights \subseteq Nat
      BY <1>2 DEF History
    <2>2. ASSUME NEW c \in Cells, accumulated_[c].surface
          PROVE  \E y, z \in heights : y <= accumulated_[c].z /\ accumulated_[c].z <= z
      BY <2>1, <2>2 DEF Within, Between
    <2> QED BY <2>1, <2>2 DEF MapKeepsMeasurements, Keeps
  <1>4. ReadersFollow
    <2> DEFINE maps == <<last_grid_>> \o gridmap \o <<Published>>
    <2>1. DOMAIN Published = Surface(accumulated_)
      BY DEF Published
    <2>2. CASE gridmap = <<>>
      <3>2. \A i \in 1 .. Len(maps) - 1 : maps[i] = last_grid_ /\ maps[i + 1] = Published
        <4>1. Len(maps) = 2 /\ maps[1] = last_grid_ /\ maps[2] = Published
          BY <2>2, InARowIs
        <4> HIDE DEF maps
        <4>2. \A i \in 1 .. 2 - 1 : i = 1 /\ i + 1 = 2
          OBVIOUS
        <4> QED BY <4>1, <4>2
      <3> HIDE DEF maps
      <3> QED BY <1>2, <2>1, <3>2 DEF ReadersFollow, Following, maps
    <2>3. CASE gridmap # <<>>
      <3>1. PICK grid : /\ gridmap = <<grid>> /\ DOMAIN last_grid_ \subseteq DOMAIN grid
                        /\ DOMAIN grid \subseteq Surface(accumulated_)
        BY <1>2, <2>3 DEF Following
      <3>3. \A i \in 1 .. Len(maps) - 1 : DOMAIN maps[i] \subseteq DOMAIN maps[i + 1]
        <4>1. Len(maps) = 3 /\ maps[1] = last_grid_ /\ maps[2] = grid /\ maps[3] = Published
          BY <3>1, InARowIs
        <4> HIDE DEF maps
        <4>2. \A i \in 1 .. 3 - 1 : (i = 1 /\ i + 1 = 2) \/ (i = 2 /\ i + 1 = 3)
          OBVIOUS
        <4> QED BY <2>1, <3>1, <4>1, <4>2
      <3> QED BY <3>3 DEF ReadersFollow
    <2> QED BY <2>2, <2>3
  <1>5. VolumesAgree
    BY <1>2, VolumesHold DEF Following
  <1>6. ScansAreFiltered
    <2> SUFFICES ASSUME NEW l \in Lidars, cloud_topic[l] # <<>>
                 PROVE  LET scan == pcd2Grid(Head(cloud_topic[l]))
                            sparse == sparseGrid(scan, 2)
                        IN  /\ Surface(filterIsolated(scan)) = {c \in Surface(scan) : FilledFrom(scan, c) # {}}
                            /\ {<<c[1] \div 2, c[2] \div 2>> : c \in Surface(scan)} = Surface(sparse)
                            /\ \A s \in Surface(sparse) : \E c \in Block(s, 2) : scan[c] = sparse[s]
      BY DEF ScansAreFiltered
    <2>1. cloud_topic[l] \in Seq(CloudSet)
      BY <1>2
    <2>2. Head(cloud_topic[l]) \in CloudSet
      BY <2>1, HeadTailProperties
    <2> DEFINE scan == pcd2Grid(Head(cloud_topic[l]))
    <2>3. scan \in Grids
      BY <1>1, <2>2, ScanIs DEF CloudSet, IsCloud
    <2> HIDE DEF scan
    <2>4. Surface(filterIsolated(scan)) = {c \in Surface(scan) : FilledFrom(scan, c) # {}}
      BY <1>1, <2>3, FilterIs
    <2>5. /\ {<<c[1] \div 2, c[2] \div 2>> : c \in Surface(scan)} = Surface(sparseGrid(scan, 2))
          /\ \A s \in Surface(sparseGrid(scan, 2)) : \E c \in Block(s, 2) : scan[c] = sparseGrid(scan, 2)[s]
      BY <1>1, <2>3, SparseIs
    <2> QED BY <2>4, <2>5 DEF scan
  <1>7. PicksAreBest
    BY <1>2, PicksHold
  <1> QED BY <1>3, <1>4, <1>5, <1>6, <1>7 DEF MapIsSound

(* For every workspace, any lidars and clouds and any order of the         *)
(* callbacks: the map of cloud_grid keeps what was last measured, has no   *)
(* height beyond those measured and grows by a cell in each direction with *)
(* each cloud; no reader goes back to an earlier map; the two volumes      *)
(* agree; the loops that change the map they read filter and thin it out   *)
(* as they should; and the points to pick are the best (gridmap.cpp,       *)
(* cloud_grid.cpp, picking_area.cpp, vol_cal.cpp).                         *)
THEOREM MapStaysSound ==
  ASSUME MapAssumption PROVE MapSpec => []MapIsSound
  <1>1. MapInit => GridInv
    BY GridInit
  <1>2. GridInv /\ [MapNext]_gridVars => GridInv'
    BY GridNext
  <1>3. GridInv => MapIsSound
    BY GridHolds
  <1> QED BY <1>1, <1>2, <1>3, PTL DEF MapSpec
=============================================================================
