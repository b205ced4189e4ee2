------------------------- MODULE KmallocBoot_proofs -------------------------
(***************************************************************************)
(* What set-up leaves behind, for every memory map, every size of memory   *)
(* and of a block: the tree is exact, and neither a reserved region nor    *)
(* the tree's own tables are ever handed out.                              *)
(***************************************************************************)
EXTENDS KmallocBoot, WellFoundedInduction, TLAPS

(* The least-number principle for a set of naturals, from the fact that <  *)
(* is well founded: the inductions of the proofs rest on it.               *)
LEMMA LeastNatural ==
  ASSUME NEW S, S \subseteq Nat, S # {}
  PROVE  \E n \in S : \A k \in S : n <= k
<1> DEFINE R == OpToRel(<, Nat)
<1>1. IsWellFoundedOn(R, Nat)
  BY NatLessThanWellFounded, Zenon
<1>2. \A j, k \in Nat : <<j, k>> \in R <=> j < k
  BY DEF OpToRel
<1> HIDE DEF R
<1>3. PICK n \in S : \A k \in S : ~(<<k, n>> \in R)
  BY <1>1, WFMin, Zenon
<1>4. ASSUME NEW k \in S PROVE n <= k
  <2>1. k \in Nat /\ n \in Nat
    BY <1>3
  <2>2. ~(<<k, n>> \in R)
    BY <1>3
  <2>3. ~(k < n)
    BY <1>2, <2>1, <2>2, Zenon
  <2> QED BY <2>1, <2>3
<1> QED BY <1>3, <1>4

-----------------------------------------------------------------------------
(* Quotients and powers of two. *)

LEMMA QuotientIs ==
  ASSUME NEW a \in Nat, NEW w \in Nat, w >= 1, NEW q \in Nat
  PROVE  (q * w <= a /\ a < q * w + w) <=> a \div w = q
<1>1. /\ a \div w \in Nat /\ (a \div w) * w <= a /\ a < (a \div w) * w + w
  OBVIOUS
<1>2. ASSUME q * w <= a, a < q * w + w PROVE a \div w = q
  <2> DEFINE p == a \div w
  <2>1. p \in Nat /\ p * w <= a /\ a < p * w + w
    BY <1>1
  <2> HIDE DEF p
  <2>2. ASSUME p < q PROVE FALSE
    <3>1. PICK d \in Nat : q = p + 1 + d
      <4>1. q - (p + 1) \in Nat /\ q = p + 1 + (q - (p + 1))
        BY <2>1, <2>2
      <4> QED BY <4>1
    <3>2. q * w = (p * w + w) + d * w /\ d * w >= 0 /\ p * w \in Nat
      BY <2>1, <3>1
    <3> QED BY <1>2, <2>1, <3>2
  <2>3. ASSUME q < p PROVE FALSE
    <3>1. PICK d \in Nat : p = q + 1 + d
      <4>1. p - (q + 1) \in Nat /\ p = q + 1 + (p - (q + 1))
        BY <2>1, <2>3
      <4> QED BY <4>1
    <3>2. p * w = (q * w + w) + d * w /\ d * w >= 0 /\ q * w \in Nat
      BY <3>1
    <3> QED BY <1>2, <2>1, <3>2
  <2>4. p = q
    BY <2>1, <2>2, <2>3
  <2> QED BY <2>4 DEF p
<1> QED BY <1>1, <1>2

LEMMA QuotientMonotone ==
  ASSUME NEW a \in Nat, NEW b \in Nat, NEW w \in Nat, w >= 1, a <= b
  PROVE  a \div w <= b \div w
<1> DEFINE p == a \div w
           q == b \div w
<1>1. /\ p \in Nat /\ p * w <= a /\ q \in Nat /\ b < q * w + w
  OBVIOUS
<1> HIDE DEF p, q
<1>2. ASSUME q < p PROVE FALSE
  <2>1. PICK d \in Nat : p = q + 1 + d
    <3>1. p - (q + 1) \in Nat /\ p = q + 1 + (p - (q + 1))
      BY <1>1, <1>2
    <3> QED BY <3>1
  <2>2. p * w = (q * w + w) + d * w /\ d * w >= 0 /\ q * w \in Nat
    BY <1>1, <2>1
  <2> QED BY <1>1, <2>2
<1>3. p <= q
  BY <1>1, <1>2
<1> QED BY <1>3 DEF p, q

(* One level up is one more halving. *)
LEMMA HalfOfQuotient ==
  ASSUME NEW a \in Nat, NEW w \in Nat, w >= 1
  PROVE  (a \div w) \div 2 = a \div (2 * w)
<1> DEFINE q == a \div w
           p == q \div 2
<1>1. /\ q \in Nat /\ q * w <= a /\ a < q * w + w
  OBVIOUS
<1> HIDE DEF q
<1>2. p \in Nat /\ (q = 2 * p \/ q = 2 * p + 1)
  BY <1>1
<1> HIDE DEF p
<1>3. p * w \in Nat /\ p * (2 * w) = 2 * (p * w)
  BY <1>2
<1>4. q * w = 2 * (p * w) \/ q * w = 2 * (p * w) + w
  BY <1>1, <1>2, <1>3
<1>5. p * (2 * w) <= a /\ a < p * (2 * w) + 2 * w
  BY <1>1, <1>3, <1>4
<1>6. a \div (2 * w) = p
  <2>1. 2 * w \in Nat /\ 2 * w >= 1
    OBVIOUS
  <2> QED BY <1>2, <1>5, <2>1, QuotientIs, Zenon
<1> QED BY <1>6 DEF p, q

LEMMA PowerFacts ==
  /\ Levels \in Nat /\ Levels >= 1 /\ Power[0] = 1 /\ Power[1] = 2
  /\ \A n \in 0..Levels : Power[n] \in Nat /\ Power[n] >= 1
  /\ \A n \in 0..(Levels - 1) : Power[n + 1] = 2 * Power[n]
<1>1. /\ Levels \in Nat /\ Levels >= 1 /\ Power[0] = 1
      /\ \A n \in 0..Levels : Power[n] \in Nat
  BY PowerAssumption
<1>2. \A n \in 0..(Levels - 1) : Power[n + 1] = 2 * Power[n]
  <2> TAKE n \in 0..(Levels - 1)
  <2>1. n + 1 \in 1..Levels /\ (n + 1) - 1 = n
    BY <1>1
  <2> QED BY <2>1, PowerAssumption
<1>3. \A n \in 0..Levels : Power[n] >= 1
  <2> DEFINE Bad == {n \in Nat : n \in 0..Levels /\ ~(Power[n] >= 1)}
  <2> SUFFICES ASSUME Bad # {} PROVE FALSE
    BY <1>1
  <2>1. PICK n \in Bad : \A k \in Bad : n <= k
    BY LeastNatural
  <2>2. n # 0
    BY <1>1, <2>1
  <2>3. n - 1 \in 0..(Levels - 1) /\ n - 1 \in 0..Levels /\ (n - 1) + 1 = n
    BY <1>1, <2>2
  <2>4. Power[n - 1] >= 1 /\ Power[n - 1] \in Nat
    BY <1>1, <2>1, <2>3
  <2>5. Power[n] = 2 * Power[n - 1]
    BY <1>2, <2>3
  <2> QED BY <2>1, <2>4, <2>5
<1>4. Power[1] = 2
  <2>1. 0 \in 0..(Levels - 1) /\ 0 + 1 = 1
    BY <1>1
  <2>2. Power[0 + 1] = 2 * Power[0]
    BY <1>2, <2>1
  <2> QED BY <1>1, <2>1, <2>2
<1> QED BY <1>1, <1>2, <1>3, <1>4

LEMMA PowerSum ==
  \A m, n \in Nat : m + n <= Levels => Power[m + n] = Power[m] * Power[n]
<1> SUFFICES ASSUME NEW m \in Nat
             PROVE  \A n \in Nat : m + n <= Levels => Power[m + n] = Power[m] * Power[n]
  OBVIOUS
<1> DEFINE Bad == {n \in Nat : m + n <= Levels /\ Power[m + n] # Power[m] * Power[n]}
<1> SUFFICES ASSUME Bad # {} PROVE FALSE
  OBVIOUS
<1>1. PICK n \in Bad : \A k \in Bad : n <= k
  BY LeastNatural
<1>2. n \in Nat /\ m + n <= Levels /\ Levels \in Nat
  BY <1>1, PowerFacts
<1>3. m \in 0..Levels /\ n \in 0..Levels /\ Power[m] \in Nat /\ Power[0] = 1
  BY <1>2, PowerFacts
<1>4. n # 0
  <2>1. m + 0 = m /\ Power[m] * 1 = Power[m]
    BY <1>3
  <2> QED BY <1>1, <1>3, <2>1
<1>5. /\ n - 1 \in Nat /\ n - 1 \in 0..(Levels - 1) /\ m + (n - 1) \in 0..(Levels - 1)
      /\ (n - 1) + 1 = n /\ (m + (n - 1)) + 1 = m + n /\ m + (n - 1) <= Levels
      /\ n - 1 \in 0..Levels
  BY <1>2, <1>4
<1>6. Power[m + (n - 1)] = Power[m] * Power[n - 1]
  BY <1>1, <1>2, <1>5
<1>7. Power[n] = 2 * Power[n - 1] /\ Power[m + n] = 2 * Power[m + (n - 1)]
  BY <1>5, PowerFacts
<1>8. Power[n - 1] \in Nat
  BY <1>5, PowerFacts
<1>9. Power[m + n] = Power[m] * Power[n]
  BY <1>3, <1>6, <1>7, <1>8
<1> QED BY <1>1, <1>9

LEMMA PowerMonotone ==
  \A m, n \in Nat : (m <= n /\ n <= Levels) => Power[m] <= Power[n]
<1> TAKE m, n \in Nat
<1> HAVE m <= n /\ n <= Levels
<1>1. n - m \in Nat /\ m + (n - m) = n /\ n - m \in 0..Levels /\ m \in 0..Levels
  BY PowerFacts
<1>2. Power[n] = Power[m] * Power[n - m]
  BY <1>1, PowerSum
<1>3. Power[m] \in Nat /\ Power[n - m] \in Nat /\ Power[n - m] >= 1
  BY <1>1, PowerFacts
<1>4. PICK d \in Nat : Power[n - m] = 1 + d
  <2>1. Power[n - m] - 1 \in Nat /\ Power[n - m] = 1 + (Power[n - m] - 1)
    BY <1>3
  <2> QED BY <2>1
<1>5. Power[m] * (1 + d) = Power[m] + Power[m] * d /\ Power[m] * d >= 0
  BY <1>3
<1> QED BY <1>2, <1>3, <1>4, <1>5

(* To go up n levels and then m is to go up m + n. *)
LEMMA Quotients ==
  \A a, m, n \in Nat :
    m + n <= Levels => (a \div Power[m]) \div Power[n] = a \div Power[m + n]
<1> SUFFICES ASSUME NEW a \in Nat, NEW m \in Nat
             PROVE  \A n \in Nat : m + n <= Levels =>
                      (a \div Power[m]) \div Power[n] = a \div Power[m + n]
  OBVIOUS
<1> DEFINE Bad == {n \in Nat : /\ m + n <= Levels
                               /\ (a \div Power[m]) \div Power[n] # a \div Power[m + n]}
<1> SUFFICES ASSUME Bad # {} PROVE FALSE
  OBVIOUS
<1>1. PICK n \in Bad : \A k \in Bad : n <= k
  BY LeastNatural
<1>2. n \in Nat /\ m + n <= Levels /\ Levels \in Nat
  BY <1>1, PowerFacts
<1>3. /\ m \in 0..Levels /\ Power[m] \in Nat /\ Power[m] >= 1 /\ Power[0] = 1
      /\ a \div Power[m] \in Nat
  BY <1>2, PowerFacts
<1>4. n # 0
  <2>1. m + 0 = m /\ (a \div Power[m]) \div 1 = a \div Power[m]
    BY <1>3
  <2> QED BY <1>1, <1>3, <2>1
<1>5. /\ n - 1 \in Nat /\ n - 1 \in 0..(Levels - 1) /\ m + (n - 1) \in 0..(Levels - 1)
      /\ (n - 1) + 1 = n /\ (m + (n - 1)) + 1 = m + n /\ m + (n - 1) <= Levels
      /\ n - 1 \in 0..Levels /\ m + (n - 1) \in 0..Levels
  BY <1>2, <1>4
<1>6. (a \div Power[m]) \div Power[n - 1] = a \div Power[m + (n - 1)]
  BY <1>1, <1>2, <1>5
<1>7. Power[n] = 2 * Power[n - 1] /\ Power[m + n] = 2 * Power[m + (n - 1)]
  BY <1>5, PowerFacts
<1>8. /\ Power[n - 1] \in Nat /\ Power[n - 1] >= 1
      /\ Power[m + (n - 1)] \in Nat /\ Power[m + (n - 1)] >= 1
  BY <1>5, PowerFacts
<1>9. (a \div Power[m]) \div (2 * Power[n - 1])
        = ((a \div Power[m]) \div Power[n - 1]) \div 2
  BY <1>3, <1>8, HalfOfQuotient, Zenon
<1>10. a \div (2 * Power[m + (n - 1)]) = (a \div Power[m + (n - 1)]) \div 2
  BY <1>8, HalfOfQuotient, Zenon
<1>11. (a \div Power[m]) \div Power[n] = a \div Power[m + n]
  BY <1>6, <1>7, <1>9, <1>10, Zenon
<1> QED BY <1>1, <1>11

-----------------------------------------------------------------------------
(* The arena and its tree. *)

Arena ==
  /\ low \in Nat /\ size \in Nat /\ size >= 1 /\ low + size <= Word - 1

LEMMA Sizes ==
  /\ Word \in Nat /\ BlockSize \in Nat /\ BlockSize >= 1
  /\ Kernel \in Nat /\ Kernel <= Word - 2
BY SizesAssumption

LEMMA MaxLevelIs ==
  ASSUME Arena
  PROVE  /\ Blocks \in Nat /\ Blocks <= size /\ MaxLevel \in 1..Levels
         /\ Blocks <= Power[MaxLevel]
         /\ MaxLevel > 1 => Power[MaxLevel - 1] < Blocks
<1>1. Blocks \in Nat /\ Blocks <= size
  <2>1. size \in Nat /\ BlockSize \in Nat /\ BlockSize >= 1
    BY Sizes DEF Arena
  <2>2. size \div BlockSize \in Nat /\ size \div BlockSize <= size
    <3> DEFINE q == size \div BlockSize
    <3>1. q \in Nat /\ q * BlockSize <= size
      BY <2>1
    <3> HIDE DEF q
    <3>2. PICK d \in Nat : BlockSize = 1 + d
      <4>1. BlockSize - 1 \in Nat /\ BlockSize = 1 + (BlockSize - 1)
        BY <2>1
      <4> QED BY <4>1
    <3>3. q * BlockSize = q + q * d /\ q * d >= 0
      BY <3>1, <3>2
    <3>4. q \in Nat /\ q <= size
      BY <2>1, <3>1, <3>3
    <3> QED BY <3>4 DEF q
  <2> QED BY <2>2 DEF Blocks
<1> DEFINE Fits == {l \in Nat : l \in 1..Levels /\ Power[l] >= Blocks}
<1>2. Levels \in Fits
  <2>1. Levels \in 1..Levels /\ Power[Levels] \in Nat
    BY PowerFacts
  <2>2. size < Word /\ Word \in Nat /\ size \in Nat
    BY Sizes DEF Arena
  <2>3. Power[Levels] >= Word
    BY PowerAssumption
  <2> QED BY <1>1, <2>1, <2>2, <2>3
<1>3. PICK m \in Fits : \A k \in Fits : m <= k
  BY <1>2, LeastNatural
<1>4. m > 1 => Power[m - 1] < Blocks
  <2> HAVE m > 1
  <2>1. m - 1 \in 1..Levels /\ ~(m <= m - 1) /\ Power[m - 1] \in Nat
    BY <1>3, PowerFacts
  <2>2. ~(Power[m - 1] >= Blocks)
    BY <1>3, <2>1
  <2> QED BY <1>1, <2>1, <2>2
<1>5. /\ MaxLevel \in 1..Levels
      /\ Power[MaxLevel] >= Blocks /\ (MaxLevel > 1 => Power[MaxLevel - 1] < Blocks)
  BY <1>3, <1>4 DEF MaxLevel
<1>6. Power[MaxLevel] \in Nat
  BY <1>5, PowerFacts
<1> QED BY <1>1, <1>5, <1>6

(* The leaves are a power of two, at least two, and the tables take half   *)
(* as many bytes, which the arena has.                                     *)
LEMMA TreeIs ==
  ASSUME Arena
  PROVE  /\ MaxLevel \in Nat /\ MaxLevel >= 1 /\ MaxLevel <= Levels
         /\ Leaves \in Nat /\ Leaves >= 2 /\ Blocks <= Leaves
         /\ Power[MaxLevel - 1] \in Nat /\ Leaves = 2 * Power[MaxLevel - 1]
         /\ End \in Nat /\ End + Power[MaxLevel - 1] = size
<1>1. MaxLevel \in Nat /\ MaxLevel >= 1 /\ MaxLevel <= Levels /\ MaxLevel - 1 \in 0..(Levels - 1)
  BY MaxLevelIs, PowerFacts
<1>2. Leaves = 2 * Power[MaxLevel - 1]
  <2>1. (MaxLevel - 1) + 1 = MaxLevel
    BY <1>1
  <2> QED BY <1>1, <2>1, PowerFacts DEF Leaves
<1> DEFINE half == Power[MaxLevel - 1]
<1>3. half \in Nat /\ half >= 1
  <2>1. MaxLevel - 1 \in 0..Levels
    BY <1>1, PowerFacts
  <2> QED BY <2>1, PowerFacts
<1>4. half <= size
  <2>1. CASE MaxLevel = 1
    <3>1. MaxLevel - 1 = 0
      BY <2>1
    <3>2. half = 1
      BY <3>1, PowerFacts
    <3> QED BY <3>2 DEF Arena
  <2>2. CASE MaxLevel > 1
    BY <1>3, <2>2, MaxLevelIs DEF Arena
  <2> QED BY <1>1, <2>1, <2>2
<1>5. (Leaves - 1) \div 2 + 1 = half
  <2>1. Leaves = 2 * half
    BY <1>2
  <2> HIDE DEF half
  <2> QED BY <1>3, <2>1
<1>6. End = size - half
  BY <1>5, Zenon DEF End
<1> QED BY <1>1, <1>2, <1>3, <1>4, <1>6, MaxLevelIs DEF Arena, Leaves

LEMMA NodeIs ==
  ASSUME Arena
  PROVE  /\ \A x \in Node : /\ x = <<x[1], x[2]>> /\ x[1] \in 0..MaxLevel /\ x[2] \in Nat
                            /\ x[2] < Power[MaxLevel - x[1]]
         /\ \A l \in 0..MaxLevel, j \in Nat : j < Power[MaxLevel - l] => <<l, j>> \in Node
<1>1. ASSUME NEW x \in Node
      PROVE  /\ x = <<x[1], x[2]>> /\ x[1] \in 0..MaxLevel /\ x[2] \in Nat
             /\ x[2] < Power[MaxLevel - x[1]]
  BY TreeIs DEF Node
<1>2. ASSUME NEW l \in 0..MaxLevel, NEW j \in Nat, j < Power[MaxLevel - l]
      PROVE  <<l, j>> \in Node
  <2>1. MaxLevel - l \in Nat /\ MaxLevel - l <= MaxLevel /\ MaxLevel \in Nat /\ MaxLevel <= Levels
        /\ MaxLevel - l \in 0..Levels
    BY TreeIs, PowerFacts
  <2>2. Power[MaxLevel - l] <= Leaves
    BY <2>1, PowerMonotone DEF Leaves
  <2>3. Power[MaxLevel - l] \in Nat /\ Leaves \in Nat
    BY <2>1, PowerFacts, TreeIs
  <2>4. j \in 0..(Leaves - 1)
    BY <1>2, <2>2, <2>3
  <2> QED BY <1>2, <2>4 DEF Node
<1> QED BY <1>1, <1>2

LEMMA LeavesAreNodes ==
  ASSUME Arena
  PROVE  \A s \in 0..(Leaves - 1) : <<0, s>> \in Node
<1> TAKE s \in 0..(Leaves - 1)
<1>1. 0 \in 0..MaxLevel /\ MaxLevel - 0 = MaxLevel /\ s \in Nat /\ s < Leaves
  BY TreeIs
<1> QED BY <1>1, NodeIs DEF Leaves

LEMMA ChildrenAre ==
  ASSUME Arena, NEW x \in Node, x[1] >= 1
  PROVE  /\ <<x[1] - 1, 2 * x[2]>> \in Node /\ <<x[1] - 1, 2 * x[2] + 1>> \in Node
         /\ x[1] - 1 \in Nat
<1>1. /\ x[1] \in Nat /\ x[1] <= MaxLevel /\ x[2] \in Nat /\ x[2] < Power[MaxLevel - x[1]]
      /\ MaxLevel \in Nat /\ MaxLevel <= Levels
  BY NodeIs, TreeIs
<1>2. /\ x[1] - 1 \in 0..MaxLevel /\ MaxLevel - x[1] \in 0..(Levels - 1)
      /\ (MaxLevel - x[1]) + 1 = MaxLevel - (x[1] - 1) /\ MaxLevel - x[1] \in 0..Levels
  BY <1>1, PowerFacts
<1>3. Power[MaxLevel - (x[1] - 1)] = 2 * Power[MaxLevel - x[1]] /\ Power[MaxLevel - x[1]] \in Nat
  BY <1>2, PowerFacts
<1>4. /\ 2 * x[2] \in Nat /\ 2 * x[2] + 1 \in Nat
      /\ 2 * x[2] < Power[MaxLevel - (x[1] - 1)] /\ 2 * x[2] + 1 < Power[MaxLevel - (x[1] - 1)]
  BY <1>1, <1>3
<1> QED BY <1>2, <1>4, NodeIs

(* The nodes under a node: itself at its own level, and its children's.    *)
LEMMA SubtreeOfItself ==
  ASSUME Arena, NEW x \in Node, NEW y \in Node, y[1] = x[1]
  PROVE  InSubtree(y, x) <=> y = x
<1>1. x[1] \in Nat /\ x[2] \in Nat /\ y[2] \in Nat /\ x = <<x[1], x[2]>> /\ y = <<y[1], y[2]>>
  BY NodeIs
<1>2. x[1] - y[1] = 0 /\ Power[0] = 1 /\ y[2] \div 1 = y[2] /\ y[1] <= x[1]
  BY <1>1, PowerFacts
<1>3. InSubtree(y, x) <=> y[2] = x[2]
  BY <1>2 DEF InSubtree
<1> QED BY <1>1, <1>3

LEMMA SubtreeOfChildren ==
  ASSUME Arena, NEW x \in Node, x[1] >= 1, NEW y \in Node, y[1] < x[1]
  PROVE  InSubtree(y, x) <=> \/ InSubtree(y, <<x[1] - 1, 2 * x[2]>>)
                             \/ InSubtree(y, <<x[1] - 1, 2 * x[2] + 1>>)
<1>1. /\ x[1] \in Nat /\ x[2] \in Nat /\ y[1] \in Nat /\ y[2] \in Nat /\ x[1] <= Levels
      /\ Levels \in Nat
  BY NodeIs, TreeIs, PowerFacts
<1> DEFINE d == (x[1] - 1) - y[1]
           c == y[2] \div Power[d]
<1>2. d \in Nat /\ d + 1 = x[1] - y[1] /\ d + 1 <= Levels /\ d \in 0..Levels
  BY <1>1
<1>3. Power[d] \in Nat /\ Power[d] >= 1
  BY <1>2, PowerFacts
<1>4. y[2] \div Power[d + 1] = c \div 2
  <2>1. 1 \in Nat
    OBVIOUS
  <2>2. c \div Power[1] = y[2] \div Power[d + 1]
    BY <1>1, <1>2, <2>1, Quotients, ZenonT(40)
  <2> QED BY <2>2, PowerFacts, Zenon
<1>5. c \in Nat
  BY <1>1, <1>3
<1>6. InSubtree(y, x) <=> c \div 2 = x[2]
  BY <1>1, <1>2, <1>4 DEF InSubtree
<1>7. /\ InSubtree(y, <<x[1] - 1, 2 * x[2]>>) <=> c = 2 * x[2]
      /\ InSubtree(y, <<x[1] - 1, 2 * x[2] + 1>>) <=> c = 2 * x[2] + 1
  BY <1>1 DEF InSubtree
<1> HIDE DEF c, d
<1>8. c \div 2 = x[2] <=> (c = 2 * x[2] \/ c = 2 * x[2] + 1)
  BY <1>1, <1>5
<1> QED BY <1>6, <1>7, <1>8

LEMMA SubtreeIsTransitive ==
  ASSUME Arena, NEW x \in Node, NEW y \in Node, NEW z \in Node,
         InSubtree(z, y), InSubtree(y, x)
  PROVE  InSubtree(z, x)
<1>1. /\ x[1] \in Nat /\ y[1] \in Nat /\ z[1] \in Nat /\ z[2] \in Nat /\ x[1] <= Levels
      /\ Levels \in Nat
  BY NodeIs, TreeIs, PowerFacts
<1>2. z[1] <= y[1] /\ y[1] <= x[1]
  BY DEF InSubtree
<1>3. /\ z[2] \div Power[y[1] - z[1]] = y[2] /\ y[2] \div Power[x[1] - y[1]] = x[2]
  BY DEF InSubtree
<1>4. /\ y[1] - z[1] \in Nat /\ x[1] - y[1] \in Nat
      /\ (y[1] - z[1]) + (x[1] - y[1]) = x[1] - z[1] /\ x[1] - z[1] <= Levels
  BY <1>1, <1>2
<1>5. z[2] \div Power[x[1] - z[1]] = x[2]
  BY <1>1, <1>3, <1>4, Quotients
<1>6. z[1] <= x[1]
  BY <1>1, <1>2
<1> QED BY <1>5, <1>6 DEF InSubtree

(* A node has nodes under it at every level below. *)
LEMMA SubtreeReaches ==
  ASSUME Arena, NEW x \in Node, NEW k \in 0..x[1]
  PROVE  \E y \in Node : y[1] = k /\ InSubtree(y, x)
<1>1. /\ x[1] \in Nat /\ x[2] \in Nat /\ x[1] <= MaxLevel /\ MaxLevel <= Levels
      /\ MaxLevel \in Nat /\ x[2] < Power[MaxLevel - x[1]] /\ Levels \in Nat /\ k \in Nat
  BY NodeIs, TreeIs, PowerFacts
<1>2. /\ x[1] - k \in Nat /\ x[1] - k \in 0..Levels /\ MaxLevel - x[1] \in Nat
      /\ MaxLevel - x[1] \in 0..Levels /\ k \in 0..MaxLevel
      /\ (MaxLevel - x[1]) + (x[1] - k) = MaxLevel - k /\ MaxLevel - k <= Levels
  BY <1>1
<1> DEFINE w == Power[x[1] - k]
           p == Power[MaxLevel - x[1]]
<1>3. w \in Nat /\ w >= 1 /\ p \in Nat
  BY <1>2, PowerFacts
<1>4. Power[MaxLevel - k] = p * w
  BY <1>2, PowerSum
<1> DEFINE j == x[2] * w
<1>5. j \in Nat /\ j < p * w
  <2>1. x[2] < p
    BY <1>1
  <2> HIDE DEF w, p
  <2>2. PICK d \in Nat : p = x[2] + 1 + d
    <3>1. p - (x[2] + 1) \in Nat /\ p = x[2] + 1 + (p - (x[2] + 1))
      BY <1>1, <1>3, <2>1
    <3> QED BY <3>1
  <2>3. p * w = (x[2] * w + w) + d * w /\ d * w >= 0 /\ x[2] * w \in Nat
    BY <1>1, <1>3, <2>2
  <2> QED BY <1>3, <2>3
<1>6. j \div w = x[2]
  <2>1. x[2] * w <= j /\ j < x[2] * w + w
    <3> HIDE DEF w
    <3> QED BY <1>1, <1>3
  <2> HIDE DEF j, w
  <2> QED BY <1>1, <1>3, <1>5, <2>1, QuotientIs, Zenon
<1>7. <<k, j>> \in Node
  BY <1>2, <1>4, <1>5, NodeIs
<1>8. InSubtree(<<k, j>>, x)
  <2>1. k <= x[1]
    BY <1>1
  <2> QED BY <1>6, <2>1, Zenon DEF InSubtree
<1> QED BY <1>7, <1>8

-----------------------------------------------------------------------------
(* What a node is due, from the leaves of a tree t: the sizes no area of   *)
(* which is left vacant below it.                                          *)
Hit(t, y) == \E s \in 0..(Leaves - 1) : t[<<0, s>>] = {0} /\ InSubtree(<<0, s>>, y)
Due(t, x) == {k \in 0..x[1] : \A y \in Node : (y[1] = k /\ InSubtree(y, x)) => Hit(t, y)}

(* The leaves f to l are taken. *)
Taken(t, f, l) ==
  [x \in Node |-> IF x[1] = 0 /\ x[2] \in Span(f, l) THEN {0} ELSE t[x]]

LEMMA DueOfLeaf ==
  ASSUME Arena, NEW t, NEW x \in Node, x[1] = 0, t[x] \in {{}, {0}}
  PROVE  Due(t, x) = t[x]
<1>1. \A y \in Node : (y[1] = 0 /\ InSubtree(y, x)) <=> y = x
  BY SubtreeOfItself
<1>2. x = <<0, x[2]>> /\ x[2] \in 0..(Leaves - 1)
  <2>1. /\ x = <<x[1], x[2]>> /\ x[2] \in Nat /\ x[2] < Power[MaxLevel - 0]
        /\ MaxLevel - 0 = MaxLevel /\ Leaves \in Nat
    BY NodeIs, TreeIs
  <2> QED BY <2>1 DEF Leaves
<1>3. Hit(t, x) <=> t[x] = {0}
  <2>1. ASSUME Hit(t, x) PROVE t[x] = {0}
    <3>1. PICK s \in 0..(Leaves - 1) : t[<<0, s>>] = {0} /\ InSubtree(<<0, s>>, x)
      BY <2>1 DEF Hit
    <3>2. <<0, s>> \in Node /\ <<0, s>>[1] = 0
      BY LeavesAreNodes
    <3>3. <<0, s>> = x
      BY <1>1, <3>1, <3>2, Zenon
    <3> QED BY <3>1, <3>3
  <2>2. ASSUME t[x] = {0} PROVE Hit(t, x)
    <3>1. InSubtree(x, x)
      BY <1>1
    <3> QED BY <1>2, <2>2, <3>1, Zenon DEF Hit
  <2> QED BY <2>1, <2>2
<1>4. \A k : k \in Due(t, x) <=> (k = 0 /\ t[x] = {0})
  <2>1. \A k : k \in 0..x[1] <=> k = 0
    OBVIOUS
  <2> QED BY <1>1, <1>3, <2>1 DEF Due
<1>5. t[x] = {} \/ t[x] = {0}
  OBVIOUS
<1>6. CASE t[x] = {}
  BY <1>4, <1>6
<1>7. CASE t[x] = {0}
  BY <1>4, <1>7
<1> QED BY <1>5, <1>6, <1>7

(* buddify makes of its children's exactly what a node is due. *)
LEMMA CombineIsDue ==
  ASSUME Arena, NEW t, NEW x \in Node, x[1] >= 1
  PROVE  Combine(x[1], Due(t, <<x[1] - 1, 2 * x[2]>>), Due(t, <<x[1] - 1, 2 * x[2] + 1>>))
           = Due(t, x)
<1> DEFINE a == <<x[1] - 1, 2 * x[2]>>
           b == <<x[1] - 1, 2 * x[2] + 1>>
<1>1. /\ a \in Node /\ b \in Node /\ a[1] = x[1] - 1 /\ b[1] = x[1] - 1
      /\ x[1] - 1 \in Nat /\ x[1] \in Nat
  BY ChildrenAre, NodeIs
<1>2. \A y \in Node : y[1] < x[1] => (InSubtree(y, x) <=> InSubtree(y, a) \/ InSubtree(y, b))
  BY SubtreeOfChildren
<1> HIDE DEF a, b
<1>3. ASSUME NEW k, k \in 0..(x[1] - 1)
      PROVE  k \in Due(t, x) <=> (k \in Due(t, a) /\ k \in Due(t, b))
  <2>1. k \in 0..x[1] /\ k < x[1] /\ k \in 0..a[1] /\ k \in 0..b[1]
    BY <1>1, <1>3
  <2>2. \A y \in Node : y[1] = k => (InSubtree(y, x) <=> InSubtree(y, a) \/ InSubtree(y, b))
    BY <1>2, <2>1
  <2> QED BY <2>1, <2>2, Zenon DEF Due
<1>4. ASSUME NEW c \in {a, b} PROVE c[1] \in Due(t, c) <=> Hit(t, c)
  <2>1. c \in Node /\ c[1] \in 0..c[1]
    BY <1>1
  <2>2. \A y \in Node : (y[1] = c[1] /\ InSubtree(y, c)) <=> y = c
    BY <2>1, SubtreeOfItself
  <2> QED BY <2>1, <2>2, Zenon DEF Due
<1>5. x[1] \in Due(t, x) <=> Hit(t, x)
  <2>1. x[1] \in 0..x[1]
    BY <1>1
  <2>2. \A y \in Node : (y[1] = x[1] /\ InSubtree(y, x)) <=> y = x
    BY SubtreeOfItself
  <2> QED BY <2>1, <2>2, Zenon DEF Due
<1>6. Hit(t, x) <=> Hit(t, a) \/ Hit(t, b)
  <2>1. \A s \in 0..(Leaves - 1) :
           InSubtree(<<0, s>>, x) <=> InSubtree(<<0, s>>, a) \/ InSubtree(<<0, s>>, b)
    <3> TAKE s \in 0..(Leaves - 1)
    <3>1. <<0, s>> \in Node /\ <<0, s>>[1] = 0 /\ 0 < x[1]
      BY <1>1, LeavesAreNodes
    <3> QED BY <1>2, <3>1
  <2> QED BY <2>1, Zenon DEF Hit
<1>7. x[1] \in Due(t, x) <=> (x[1] - 1 \in Due(t, a) \/ x[1] - 1 \in Due(t, b))
  BY <1>1, <1>4, <1>5, <1>6
<1>8. \A k : k \in Due(t, x) => (k \in 0..(x[1] - 1) \/ k = x[1])
  BY <1>1 DEF Due
<1>9. \A k : (k \in Due(t, a) /\ k \in Due(t, b)) => (k \in 0..(x[1] - 1) /\ k # x[1])
  BY <1>1 DEF Due
<1>10. \A k : k \in Combine(x[1], Due(t, a), Due(t, b)) <=>
         \/ k \in Due(t, a) /\ k \in Due(t, b)
         \/ k = x[1] /\ (x[1] - 1 \in Due(t, a) \/ x[1] - 1 \in Due(t, b))
  BY DEF Combine
<1>11. \A k : k \in Combine(x[1], Due(t, a), Due(t, b)) <=> k \in Due(t, x)
  <2> TAKE k
  <2>1. CASE k \in 0..(x[1] - 1)
    <3>1. k # x[1]
      BY <1>1, <2>1
    <3> QED BY <1>3, <1>10, <2>1, <3>1, Zenon
  <2>2. CASE k = x[1]
    BY <1>7, <1>9, <1>10, <2>2, Zenon
  <2>3. CASE k \notin 0..(x[1] - 1) /\ k # x[1]
    BY <1>8, <1>9, <1>10, <2>3, Zenon
  <2> QED BY <2>1, <2>2, <2>3, Zenon
<1>12. Combine(x[1], Due(t, a), Due(t, b)) = Due(t, x)
  BY <1>11
<1> QED BY <1>12 DEF a, b

(* Only the leaves count, and of those only the ones below the node. *)
LEMMA SameLeavesSameDue ==
  ASSUME Arena, NEW t, NEW u, NEW x \in Node,
         \A s \in 0..(Leaves - 1) : u[<<0, s>>] = t[<<0, s>>]
  PROVE  Due(u, x) = Due(t, x)
<1>1. \A y : Hit(u, y) <=> Hit(t, y)
  BY Zenon DEF Hit
<1> QED BY <1>1 DEF Due

LEMMA DueElsewhere ==
  ASSUME Arena, NEW t, NEW f \in Nat, NEW l \in Nat, NEW x \in Node,
         \A g \in Span(f, l) : g \div Power[x[1]] # x[2]
  PROVE  Due(Taken(t, f, l), x) = Due(t, x)
<1> DEFINE u == Taken(t, f, l)
<1>1. ASSUME NEW y \in Node, InSubtree(y, x)
      PROVE  Hit(u, y) <=> Hit(t, y)
  <2>1. ASSUME NEW s \in 0..(Leaves - 1), InSubtree(<<0, s>>, y)
        PROVE  u[<<0, s>>] = t[<<0, s>>]
    <3>1. <<0, s>> \in Node /\ <<0, s>>[1] = 0 /\ <<0, s>>[2] = s /\ x[1] - 0 = x[1]
      BY LeavesAreNodes, NodeIs
    <3>2. InSubtree(<<0, s>>, x)
      BY <1>1, <2>1, <3>1, SubtreeIsTransitive, Zenon
    <3>3. s \div Power[x[1]] = x[2]
      BY <3>1, <3>2 DEF InSubtree
    <3>4. s \notin Span(f, l)
      BY <3>3
    <3> QED BY <3>1, <3>4 DEF Taken
  <2> QED BY <2>1, Zenon DEF Hit
<1> QED BY <1>1, Zenon DEF Due

LEMMA DueOfNothing ==
  ASSUME Arena, NEW x \in Node
  PROVE  Due([y \in Node |-> {}], x) = {}
<1> DEFINE t == [y \in Node |-> {}]
<1>1. \A y \in Node : ~Hit(t, y)
  <2> SUFFICES ASSUME NEW y \in Node, Hit(t, y) PROVE FALSE
    OBVIOUS
  <2>1. PICK s \in 0..(Leaves - 1) : t[<<0, s>>] = {0}
    BY Zenon DEF Hit
  <2>2. <<0, s>> \in Node
    BY LeavesAreNodes
  <2>3. t[<<0, s>>] = {}
    BY <2>2
  <2> QED BY <2>1, <2>3
<1>2. ASSUME NEW k \in 0..x[1] PROVE k \notin Due(t, x)
  <2>1. PICK y \in Node : y[1] = k /\ InSubtree(y, x)
    BY SubtreeReaches
  <2> QED BY <1>1, <2>1, Zenon DEF Due
<1> HIDE DEF t
<1>3. Due(t, x) \subseteq 0..x[1]
  BY DEF Due
<1>4. Due(t, x) = {}
  BY <1>2, <1>3
<1> QED BY <1>4 DEF t

-----------------------------------------------------------------------------
(* The inductive invariant. *)

TypeInv ==
  /\ map \in Maps /\ i \in Nat /\ i >= 1
  /\ level \in Nat /\ first \in Nat /\ last \in Nat
  /\ pc \in {"scan", "kset", "tables", "up", "entry", "done", "astray"}
  /\ pc # "scan" => Arena

LeafInv ==
  pc \notin {"scan", "kset"} => \A s \in 0..(Leaves - 1) : tree[<<0, s>>] \in {{}, {0}}

(* On its way up areafull_buddify has put right the levels it has passed;  *)
(* above, a node is right that is on the way of none of the nodes between  *)
(* the first and the last.                                                 *)
Right(t, lev, f, l) ==
  \A x \in Node :
    (x[1] <= lev \/ \A g \in Span(f, l) : g \div Power[x[1] - lev] # x[2])
      => t[x] = Due(t, x)

ExactInv ==
  /\ pc \in {"tables", "entry", "done"} => \A x \in Node : tree[x] = Due(tree, x)
  /\ pc = "up" => Right(tree, level, first, last)

LEMMA SameArena ==
  ASSUME size' = size
  PROVE  /\ Blocks' = Blocks /\ MaxLevel' = MaxLevel /\ Leaves' = Leaves
         /\ End' = End /\ Node' = Node
         /\ \A x : Due(tree, x)' = Due(tree', x)
         /\ \A f, l, n : Right(tree, n, f, l)' = Right(tree', n, f, l)
<1>1. MaxLevel' = MaxLevel /\ Blocks' = Blocks
  BY DEF MaxLevel, Blocks
<1>2. Leaves' = Leaves
  BY <1>1 DEF Leaves
<1>3. End' = End /\ Node' = Node
  BY <1>1, <1>2 DEF End, Node
<1>4. \A x : Due(tree, x)' = Due(tree', x)
  BY <1>2, <1>3 DEF Due, Hit
<1>5. \A f, l, n : Right(tree, n, f, l)' = Right(tree', n, f, l)
  BY <1>3, <1>4 DEF Right, Span
<1> QED BY <1>1, <1>2, <1>3, <1>4, <1>5

LEMMA SpanHalves ==
  ASSUME NEW f \in Nat, NEW l \in Nat, NEW g \in Span(f, l)
  PROVE  g \in Nat /\ g \div 2 \in Span(f \div 2, l \div 2)
BY DEF Span

LEMMA TakenIsRight ==
  ASSUME Arena, NEW t, NEW f \in Nat, NEW l \in Nat,
         \A x \in Node : t[x] = Due(t, x),
         \A s \in 0..(Leaves - 1) : t[<<0, s>>] \in {{}, {0}}
  PROVE  /\ \A s \in 0..(Leaves - 1) : Taken(t, f, l)[<<0, s>>] \in {{}, {0}}
         /\ Right(Taken(t, f, l), 0, f, l)
<1> DEFINE u == Taken(t, f, l)
<1>1. \A s \in 0..(Leaves - 1) : u[<<0, s>>] \in {{}, {0}}
  BY LeavesAreNodes DEF Taken
<1>2. ASSUME NEW x \in Node,
             x[1] <= 0 \/ \A g \in Span(f, l) : g \div Power[x[1] - 0] # x[2]
      PROVE  u[x] = Due(u, x)
  <2>1. x[1] \in Nat /\ x[1] - 0 = x[1]
    BY NodeIs
  <2>2. CASE x[1] = 0
    <3>1. /\ x = <<x[1], x[2]>> /\ x[2] \in Nat /\ x[2] < Power[MaxLevel - 0]
          /\ MaxLevel - 0 = MaxLevel /\ Leaves \in Nat
      BY <2>2, NodeIs, TreeIs
    <3>2. x = <<0, x[2]>> /\ x[2] \in 0..(Leaves - 1)
      BY <2>2, <3>1 DEF Leaves
    <3>3. u[x] \in {{}, {0}}
      BY <1>1, <3>2
    <3> HIDE DEF u
    <3> QED BY <2>2, <3>3, DueOfLeaf
  <2>3. CASE x[1] # 0
    <3>1. \A g \in Span(f, l) : g \div Power[x[1]] # x[2]
      BY <1>2, <2>1, <2>3
    <3>2. Due(u, x) = Due(t, x)
      BY <3>1, DueElsewhere
    <3>3. u[x] = t[x]
      BY <2>3 DEF Taken
    <3> QED BY <3>2, <3>3
  <2> QED BY <2>2, <2>3
<1> QED BY <1>1, <1>2 DEF Right

(* One round of areafull_buddify. *)
Levelled(t, lev, f, l) ==
  [x \in Node |->
    IF x[1] = lev + 1 /\ x[2] \in Span(f \div 2, l \div 2)
      THEN Combine(lev + 1, t[<<lev, 2 * x[2]>>], t[<<lev, 2 * x[2] + 1>>])
      ELSE t[x]]

LEMMA LevelIsRight ==
  ASSUME Arena, NEW t, NEW lev \in Nat, NEW f \in Nat, NEW l \in Nat,
         lev + 1 <= MaxLevel, Right(t, lev, f, l)
  PROVE  /\ \A s \in 0..(Leaves - 1) : Levelled(t, lev, f, l)[<<0, s>>] = t[<<0, s>>]
         /\ Right(Levelled(t, lev, f, l), lev + 1, f \div 2, l \div 2)
<1> DEFINE u == Levelled(t, lev, f, l)
<1>0. \A x \in Node :
        u[x] = IF x[1] = lev + 1 /\ x[2] \in Span(f \div 2, l \div 2)
                 THEN Combine(lev + 1, t[<<lev, 2 * x[2]>>], t[<<lev, 2 * x[2] + 1>>])
                 ELSE t[x]
  BY Zenon DEF Levelled
<1> HIDE DEF u
<1>1. \A s \in 0..(Leaves - 1) : u[<<0, s>>] = t[<<0, s>>]
  <2> TAKE s \in 0..(Leaves - 1)
  <2>1. <<0, s>> \in Node /\ <<0, s>>[1] = 0 /\ 0 # lev + 1
    BY LeavesAreNodes
  <2> QED BY <1>0, <2>1
<1>2. \A x \in Node : Due(u, x) = Due(t, x)
  BY <1>1, SameLeavesSameDue
<1>3. ASSUME NEW x \in Node,
             \/ x[1] <= lev + 1
             \/ \A g \in Span(f \div 2, l \div 2) : g \div Power[x[1] - (lev + 1)] # x[2]
      PROVE  u[x] = Due(t, x)
  <2>1. x[1] \in Nat /\ x[2] \in Nat /\ x[1] <= Levels /\ Levels \in Nat
    BY NodeIs, TreeIs, PowerFacts
  <2>2. CASE x[1] <= lev
    <3>1. x[1] # lev + 1
      BY <2>1, <2>2
    <3>2. u[x] = t[x]
      BY <1>0, <3>1, Zenon
    <3> QED BY <2>2, <3>2 DEF Right
  <2>3. CASE x[1] = lev + 1 /\ x[2] \in Span(f \div 2, l \div 2)
    <3> DEFINE a == <<lev, 2 * x[2]>>
               b == <<lev, 2 * x[2] + 1>>
    <3>1. x[1] - 1 = lev /\ x[1] >= 1
      BY <2>1, <2>3
    <3>2. a \in Node /\ b \in Node /\ a[1] <= lev /\ b[1] <= lev
      BY <3>1, ChildrenAre
    <3>3. t[a] = Due(t, a) /\ t[b] = Due(t, b)
      BY <3>2 DEF Right
    <3>4. Combine(x[1], Due(t, a), Due(t, b)) = Due(t, x)
      BY <3>1, CombineIsDue
    <3>5. u[x] = Combine(x[1], t[a], t[b])
      BY <1>0, <2>3
    <3> QED BY <3>3, <3>4, <3>5
  <2>4. CASE x[1] > lev /\ ~(x[1] = lev + 1 /\ x[2] \in Span(f \div 2, l \div 2))
    <3> DEFINE d == x[1] - (lev + 1)
    <3>1. d \in Nat /\ 1 + d = x[1] - lev /\ 1 + d <= Levels /\ 1 \in Nat
      BY <2>1, <2>4
    <3>2. \A g \in Span(f \div 2, l \div 2) : g \div Power[d] # x[2]
      <4>1. CASE x[1] = lev + 1
        <5>1. d = 0 /\ Power[0] = 1
          BY <4>1, PowerFacts
        <5>2. \A g \in Span(f \div 2, l \div 2) : g \in Int /\ g \div 1 = g
          BY DEF Span
        <5> QED BY <2>4, <4>1, <5>1, <5>2
      <4>2. CASE x[1] # lev + 1
        <5>1. ~(x[1] <= lev + 1)
          BY <2>1, <2>4, <4>2
        <5> QED BY <1>3, <5>1
      <4> QED BY <4>1, <4>2
    <3>3. ASSUME NEW g \in Span(f, l) PROVE g \div Power[x[1] - lev] # x[2]
      <4>1. g \in Nat /\ g \div 2 \in Span(f \div 2, l \div 2)
        BY SpanHalves
      <4>2. (g \div Power[1]) \div Power[d] = g \div Power[1 + d]
        BY <3>1, <4>1, Quotients, ZenonT(40)
      <4>3. (g \div 2) \div Power[d] = g \div Power[x[1] - lev]
        BY <3>1, <4>2, PowerFacts, Zenon
      <4> QED BY <3>2, <4>1, <4>3, Zenon
    <3>4. u[x] = t[x]
      BY <1>0, <2>4
    <3> QED BY <3>3, <3>4 DEF Right
  <2> QED BY <2>1, <2>2, <2>3, <2>4
<1>4. Right(u, lev + 1, f \div 2, l \div 2)
  BY <1>2, <1>3 DEF Right
<1> QED BY <1>1, <1>4 DEF u

-----------------------------------------------------------------------------
(* mem_init's scan: there is an arena. *)

LEMMA MinIs ==
  ASSUME NEW S, S \subseteq Nat, S # {}
  PROVE  Min(S) \in S /\ \A x \in S : Min(S) <= x
<1>1. \E n \in S : \A k \in S : n <= k
  BY LeastNatural
<1> QED BY <1>1, Zenon DEF Min

LEMMA MaxIs ==
  ASSUME NEW S, S \subseteq Nat, S # {}, NEW b \in Nat, \A x \in S : x <= b
  PROVE  Max(S) \in S /\ \A x \in S : Max(S) >= x
<1> DEFINE D == {n \in Nat : \E x \in S : n = b - x}
<1>1. D # {}
  <2>1. PICK x \in S : TRUE
    OBVIOUS
  <2>2. b - x \in Nat
    BY <2>1
  <2> QED BY <2>2
<1>2. PICK n \in D : \A k \in D : n <= k
  BY <1>1, LeastNatural
<1>3. PICK m \in S : n = b - m
  BY <1>2
<1>4. \A x \in S : m >= x
  <2> TAKE x \in S
  <2>1. x \in Nat /\ x <= b /\ m \in Nat
    OBVIOUS
  <2>2. b - x \in D
    BY <2>1
  <2>3. b - m <= b - x
    BY <1>2, <1>3, <2>2
  <2> QED BY <2>1, <2>3
<1> QED BY <1>4, Zenon DEF Max

(* Finitely many numbers have a bound. *)
LEMMA Bounded ==
  ASSUME NEW f, NEW n \in Nat, \A k \in 1..n : f[k] \in Nat
  PROVE  \E b \in Nat : \A k \in 1..n : f[k] <= b
<1> DEFINE Bad == {m \in Nat : m <= n /\ ~(\E b \in Nat : \A k \in 1..m : f[k] <= b)}
<1> SUFFICES ASSUME ~(\E b \in Nat : \A k \in 1..n : f[k] <= b) PROVE FALSE
  OBVIOUS
<1>0. n \in Bad
  OBVIOUS
<1>1. PICK m \in Bad : \A k \in Bad : m <= k
  BY <1>0, LeastNatural
<1>2. m # 0
  <2>1. \A k \in 1..0 : f[k] <= 0
    OBVIOUS
  <2> QED BY <1>1, <2>1
<1>3. m - 1 \in Nat /\ m - 1 <= n /\ ~(m <= m - 1)
  BY <1>1, <1>2
<1>4. PICK b \in Nat : \A k \in 1..(m - 1) : f[k] <= b
  BY <1>1, <1>3
<1>5. m \in 1..n /\ f[m] \in Nat
  BY <1>1, <1>2
<1>6. b + f[m] \in Nat
  BY <1>5
<1>7. \A k \in 1..m : f[k] <= b + f[m]
  <2> TAKE k \in 1..m
  <2>1. CASE k = m
    BY <1>5, <2>1
  <2>2. CASE k # m
    <3>1. k \in 1..(m - 1) /\ k \in 1..n
      BY <1>1, <2>2
    <3>2. f[k] \in Nat /\ f[k] <= b
      BY <1>4, <3>1
    <3> QED BY <1>5, <3>2
  <2> QED BY <2>1, <2>2
<1> QED BY <1>1, <1>6, <1>7

LEMMA EntryType ==
  ASSUME map \in Maps
  PROVE  /\ Len(map) \in Nat
         /\ \A k \in 1..Len(map) : /\ map[k].base \in Nat /\ map[k].length \in Nat
                                   /\ map[k].free \in BOOLEAN
BY MapsAssumption

LEMMA ScanMakesArena ==
  ASSUME map \in Maps, Scan
  PROVE  Arena' /\ (LowMemory => low' + size' <= Word \div 2)
<1> DEFINE free == {k \in 1..Len(map) : map[k].free}
           bases == {map[k].base : k \in free}
           ends == {map[k].base + map[k].length : k \in free}
           begin == Min({Word - 1} \cup bases)
           end == Max({0} \cup ends)
<1>1. /\ low' = Max({begin, Kernel})
      /\ size' = Min({end, Word - 1}) - low'
  BY DEF Scan
<1>2. \A k \in free : map[k].base \in Nat /\ map[k].length \in Nat
  BY EntryType
<1>3. PICK k \in free : /\ map[k].length > 0
                        /\ map[k].base < Word - 1 /\ map[k].base + map[k].length > Kernel
  BY MapsAssumption
<1>4. Word \in Nat /\ Kernel \in Nat /\ Kernel <= Word - 2 /\ Word - 1 \in Nat
  BY Sizes
<1>5. begin \in Nat /\ begin <= map[k].base
  <2>1. {Word - 1} \cup bases \subseteq Nat /\ map[k].base \in {Word - 1} \cup bases
    BY <1>2, <1>3, <1>4
  <2>2. Min({Word - 1} \cup bases) \in {Word - 1} \cup bases
        /\ \A x \in {Word - 1} \cup bases : Min({Word - 1} \cup bases) <= x
    BY <2>1, MinIs
  <2> QED BY <2>1, <2>2
<1>6. /\ end \in Nat /\ map[k].base + map[k].length <= end
      /\ LowMemory => end <= Word \div 2
  <2>1. {0} \cup ends \subseteq Nat /\ map[k].base + map[k].length \in {0} \cup ends
    BY <1>2, <1>3
  <2> DEFINE f == [n \in 1..Len(map) |-> map[n].base + map[n].length]
  <2>2. PICK b \in Nat : \A n \in 1..Len(map) : f[n] <= b
    <3>1. \A n \in 1..Len(map) : f[n] \in Nat
      BY EntryType
    <3> HIDE DEF f
    <3> QED BY <3>1, EntryType, Bounded
  <2>3. \A x \in {0} \cup ends : x <= b
    BY <2>2
  <2>4. Max({0} \cup ends) \in {0} \cup ends
        /\ \A x \in {0} \cup ends : Max({0} \cup ends) >= x
    BY <2>1, <2>3, MaxIs
  <2>5. ASSUME LowMemory PROVE end <= Word \div 2
    <3>1. end = 0 \/ \E n \in free : end = map[n].base + map[n].length
      BY <2>4
    <3>2. \A n \in free : map[n].base + map[n].length <= Word \div 2
      BY <2>5 DEF LowMemory
    <3>3. Word \div 2 >= 0
      BY <1>4
    <3> QED BY <3>1, <3>2, <3>3
  <2> QED BY <2>1, <2>4, <2>5
<1> HIDE DEF begin, end
<1>7. low' \in {begin, Kernel} /\ low' >= begin /\ low' >= Kernel
  <2>1. \A x \in {begin, Kernel} : x <= begin + Kernel
    BY <1>4, <1>5
  <2>2. {begin, Kernel} \subseteq Nat /\ begin + Kernel \in Nat
    BY <1>4, <1>5
  <2>3. Max({begin, Kernel}) \in {begin, Kernel} /\ \A x \in {begin, Kernel} : Max({begin, Kernel}) >= x
    BY <2>1, <2>2, MaxIs
  <2> QED BY <1>1, <2>3
<1> DEFINE high == Min({end, Word - 1})
<1>8. high \in {end, Word - 1} /\ high <= end /\ high <= Word - 1
  <2>1. {end, Word - 1} \subseteq Nat
    BY <1>4, <1>6
  <2>2. Min({end, Word - 1}) \in {end, Word - 1} /\ \A x \in {end, Word - 1} : Min({end, Word - 1}) <= x
    BY <2>1, MinIs
  <2> QED BY <2>2
<1> HIDE DEF high
<1>9. size' = high - low'
  BY <1>1 DEF high
<1>10. low' < high
  BY <1>2, <1>3, <1>4, <1>5, <1>6, <1>7, <1>8
<1>11. low' \in Nat /\ high \in Nat
  BY <1>4, <1>5, <1>6, <1>7, <1>8
<1>12. Arena'
  <2>1. size' \in Nat /\ size' >= 1 /\ low' + size' = high
    <3>1. \A a, b \in Nat : a < b => (b - a \in Nat /\ b - a >= 1 /\ a + (b - a) = b)
      OBVIOUS
    <3> QED BY <1>9, <1>10, <1>11, <3>1, Zenon
  <2>2. high <= Word - 1
    BY <1>8
  <2> QED BY <1>11, <2>1, <2>2 DEF Arena
<1>13. ASSUME LowMemory PROVE low' + size' <= Word \div 2
  <2>1. Word \div 2 \in Nat
    BY <1>4
  <2> QED BY <1>6, <1>8, <1>9, <1>11, <1>13, <2>1
<1> QED BY <1>12, <1>13

(* kmres' segments are numbers, wherever the entry lies. *)
LEMMA SegmentType ==
  ASSUME Arena, NEW a \in Int
  PROVE  Segment(a) \in Nat
<1>1. Word \in Nat /\ Word >= 1 /\ BlockSize \in Nat /\ BlockSize >= 1
  BY Sizes
<1>2. \A n \in Int : n % Word \in Nat /\ n % Word < Word
  BY <1>1
<1> DEFINE hi == (low + size - 1) % Word
           c == Clamp(a % Word, low, hi)
<1>3. a % Word \in Nat /\ hi \in Nat /\ low \in Nat
  BY <1>2 DEF Arena
<1>4. c = low \/ c = hi \/ c = a % Word
  BY <1>1, <1>3 DEF Clamp, Signed
<1>5. c \in Int
  BY <1>3, <1>4
<1> HIDE DEF c
<1>6. (c - low) % Word \in Nat
  BY <1>2, <1>3, <1>5
<1>7. ((c - low) % Word) \div BlockSize \in Nat
  BY <1>1, <1>6
<1> QED BY <1>7 DEF c, Segment

-----------------------------------------------------------------------------
(* Every step keeps the types, and leaves the tree right. *)

LEMMA TypeStep ==
  ASSUME TypeInv, BNext
  PROVE  TypeInv'
<1>1. CASE Scan
  <2>1. Arena'
    BY <1>1, ScanMakesArena DEF TypeInv
  <2> QED BY <1>1, <2>1 DEF TypeInv, Scan
<1>2. ASSUME pc # "scan", low' = low, size' = size PROVE Arena'
  BY <1>2 DEF TypeInv, Arena
<1>3. CASE Kset
  BY <1>2, <1>3 DEF TypeInv, Kset
<1>4. CASE LayTable
  BY <1>2, <1>4 DEF TypeInv, LayTable
<1>5. CASE TakeEnd
  <2>1. Arena /\ Arena'
    BY <1>2, <1>5 DEF TypeInv, TakeEnd
  <2>2. End \div BlockSize \in Nat /\ Leaves - 1 \in Nat
    <3>1. End \in Nat /\ Leaves \in Nat /\ Leaves >= 2 /\ BlockSize \in Nat /\ BlockSize >= 1
      BY <2>1, TreeIs, Sizes
    <3> QED BY <3>1
  <2> QED BY <1>5, <2>1, <2>2 DEF TypeInv, TakeEnd, Take
<1>6. CASE LevelUp
  <2>1. Arena'
    BY <1>2, <1>6 DEF LevelUp
  <2>2. level' \in Nat /\ first' \in Nat /\ last' \in Nat /\ map' = map /\ i' = i
    BY <1>6 DEF LevelUp, TypeInv
  <2>3. pc' \in {"up", "entry"}
    BY <1>6 DEF LevelUp
  <2> QED BY <2>1, <2>2, <2>3 DEF TypeInv
<1>7. CASE TakeEntry
  <2>1. Arena /\ Arena'
    BY <1>2, <1>7 DEF TypeInv, TakeEntry
  <2>2. i \in 1..Len(map) /\ i + 1 \in Nat /\ i + 1 >= 1
    BY <1>7, EntryType DEF TypeInv, TakeEntry
  <2>3. FirstOf(map[i]) \in Nat /\ LastOf(map[i]) \in Nat
    <3>1. map[i].base \in Int /\ map[i].base + map[i].length - 1 \in Int
      BY <2>2, EntryType DEF TypeInv
    <3> QED BY <2>1, <3>1, SegmentType DEF FirstOf, LastOf
  <2> QED BY <1>7, <2>1, <2>2, <2>3 DEF TypeInv, TakeEntry, Take
<1>11. CASE StrayTables
  BY <1>2, <1>11 DEF TypeInv, StrayTables
<1>8. CASE StrayEntry
  BY <1>2, <1>8 DEF TypeInv, StrayEntry
<1>9. CASE SkipEntry
  BY <1>2, <1>9 DEF TypeInv, SkipEntry
<1>10. CASE Finish
  BY <1>2, <1>10 DEF TypeInv, Finish
<1> QED BY <1>1, <1>3, <1>4, <1>5, <1>6, <1>7, <1>8, <1>9, <1>10, <1>11 DEF BNext

(* A step that leaves the arena and the tree alone. *)
LEMMA QuietExact ==
  ASSUME TypeInv, LeafInv, ExactInv, pc \notin {"scan", "kset"}, size' = size, tree' = tree,
         pc' \in {"tables", "entry", "done"} => pc \in {"tables", "entry", "done"},
         pc' # "up"
  PROVE  LeafInv' /\ ExactInv'
<1>1. Leaves' = Leaves /\ Node' = Node /\ \A x : Due(tree, x)' = Due(tree', x)
  BY SameArena
<1>2. LeafInv'
  BY <1>1 DEF LeafInv
<1>3. ExactInv'
  BY <1>1 DEF ExactInv
<1> QED BY <1>2, <1>3

LEMMA TakeExact ==
  ASSUME TypeInv, LeafInv, ExactInv, pc \in {"tables", "entry"}, size' = size,
         NEW f \in Nat, NEW l \in Nat, Take(f, l)
  PROVE  LeafInv' /\ ExactInv'
<1>1. /\ Leaves' = Leaves /\ \A g, h, n : Right(tree, n, g, h)' = Right(tree', n, g, h)
  BY SameArena
<1>2. Arena
  BY DEF TypeInv
<1>3. tree' = Taken(tree, f, l)
  BY DEF Take, Taken
<1>4. /\ \A x \in Node : tree[x] = Due(tree, x)
      /\ \A s \in 0..(Leaves - 1) : tree[<<0, s>>] \in {{}, {0}}
  BY DEF ExactInv, LeafInv
<1>5. /\ \A s \in 0..(Leaves - 1) : Taken(tree, f, l)[<<0, s>>] \in {{}, {0}}
      /\ Right(Taken(tree, f, l), 0, f, l)
  BY <1>2, <1>4, TakenIsRight
<1>6. pc' = "up" /\ level' = 0 /\ first' = f /\ last' = l
  BY DEF Take
<1>7. LeafInv'
  BY <1>1, <1>3, <1>5 DEF LeafInv
<1>8. Right(tree, level, first, last)'
  <2>1. Right(tree, level, first, last)' <=> Right(tree', level', first', last')
    BY <1>1, SameArena DEF Right, Span
  <2> QED BY <1>3, <1>5, <1>6, <2>1
<1>9. ExactInv'
  BY <1>6, <1>8 DEF ExactInv
<1> QED BY <1>7, <1>9

LEMMA ExactStep ==
  ASSUME TypeInv, LeafInv, ExactInv, BNext
  PROVE  LeafInv' /\ ExactInv'
<1>1. CASE Scan
  BY <1>1 DEF Scan, LeafInv, ExactInv
<1>2. CASE Kset
  <2>1. /\ pc' = "tables" /\ tree' = [x \in Node |-> {}] /\ size' = size /\ pc = "kset"
    BY <1>2 DEF Kset
  <2>2. Arena
    BY <2>1 DEF TypeInv
  <2>3. Leaves' = Leaves /\ Node' = Node /\ \A x : Due(tree, x)' = Due(tree', x)
    BY <2>1, SameArena
  <2>4. \A x \in Node : Due(tree', x) = {} /\ tree'[x] = {}
    BY <2>1, <2>2, DueOfNothing
  <2>5. LeafInv'
    BY <2>1, <2>2, <2>3, LeavesAreNodes DEF LeafInv
  <2>6. ExactInv'
    BY <2>1, <2>3, <2>4 DEF ExactInv
  <2> QED BY <2>5, <2>6
<1>3. CASE LayTable
  BY <1>3, QuietExact DEF LayTable
<1>4. CASE TakeEnd
  <2>1. pc = "tables" /\ size' = size
    BY <1>4 DEF TakeEnd
  <2>2. CASE End \div BlockSize <= Leaves - 1
    <3>1. Take(End \div BlockSize, Leaves - 1)
      BY <1>4, <2>2 DEF TakeEnd
    <3>2. Arena
      BY <2>1 DEF TypeInv
    <3>3. End \in Nat /\ Leaves \in Nat /\ Leaves >= 2 /\ BlockSize \in Nat /\ BlockSize >= 1
      BY <3>2, TreeIs, Sizes
    <3>4. End \div BlockSize \in Nat /\ Leaves - 1 \in Nat
      BY <3>3
    <3> QED BY <2>1, <3>1, <3>4, TakeExact
  <2>3. CASE ~(End \div BlockSize <= Leaves - 1)
    <3>1. tree' = tree /\ pc' = "entry"
      BY <1>4, <2>3 DEF TakeEnd
    <3> QED BY <2>1, <3>1, QuietExact
  <2> QED BY <2>2, <2>3
<1>5. CASE LevelUp
  <2>1. /\ pc = "up" /\ size' = size
        /\ level' = level + 1 /\ first' = first \div 2 /\ last' = last \div 2
    BY <1>5 DEF LevelUp
  <2>2. Arena /\ level \in Nat /\ first \in Nat /\ last \in Nat
    BY <2>1 DEF TypeInv
  <2>3. /\ Leaves' = Leaves /\ Node' = Node /\ \A x : Due(tree, x)' = Due(tree', x)
        /\ MaxLevel' = MaxLevel
    BY <2>1, SameArena
  <2>4. Right(tree, level, first, last)
    BY <2>1 DEF ExactInv
  <2>5. \A s \in 0..(Leaves - 1) : tree[<<0, s>>] \in {{}, {0}}
    BY <2>1 DEF LeafInv
  <2>6. CASE level' <= MaxLevel
    <3>1. pc' = "up" /\ tree' = Levelled(tree, level, first, last)
      BY <1>5, <2>1, <2>6 DEF LevelUp, Levelled
    <3>2. /\ \A s \in 0..(Leaves - 1) : tree'[<<0, s>>] = tree[<<0, s>>]
          /\ Right(tree', level + 1, first \div 2, last \div 2)
      <4>1. level + 1 <= MaxLevel
        BY <2>1, <2>6
      <4> QED BY <2>2, <2>4, <3>1, <4>1, LevelIsRight, ZenonT(40)
    <3>3. LeafInv'
      BY <2>3, <2>5, <3>2 DEF LeafInv
    <3>4. Right(tree, level, first, last)' <=> Right(tree', level', first', last')
      BY <2>3 DEF Right, Span
    <3>5. ExactInv'
      BY <2>1, <3>1, <3>2, <3>4 DEF ExactInv
    <3> QED BY <3>3, <3>5
  <2>7. CASE ~(level' <= MaxLevel)
    <3>1. pc' = "entry" /\ tree' = tree
      BY <1>5, <2>7 DEF LevelUp
    <3>2. \A x \in Node : tree[x] = Due(tree, x)
      <4> TAKE x \in Node
      <4>1. x[1] \in Nat /\ x[1] <= MaxLevel /\ MaxLevel \in Nat
        BY <2>2, NodeIs, TreeIs
      <4>2. x[1] <= level
        BY <2>1, <2>2, <2>7, <4>1
      <4> QED BY <2>4, <4>2 DEF Right
    <3>3. LeafInv'
      BY <2>3, <2>5, <3>1 DEF LeafInv
    <3>4. ExactInv'
      BY <2>3, <3>1, <3>2 DEF ExactInv
    <3> QED BY <3>3, <3>4
  <2> QED BY <2>6, <2>7
<1>6. CASE TakeEntry
  <2>1. /\ pc = "entry" /\ size' = size /\ i <= Len(map)
        /\ Take(FirstOf(map[i]), LastOf(map[i]))
    BY <1>6 DEF TakeEntry
  <2>2. FirstOf(map[i]) \in Nat /\ LastOf(map[i]) \in Nat
    <3>1. i \in 1..Len(map)
      BY <2>1, EntryType DEF TypeInv
    <3>2. map[i].base \in Int /\ map[i].base + map[i].length - 1 \in Int
      BY <3>1, EntryType DEF TypeInv
    <3> QED BY <2>1, <3>2, SegmentType DEF FirstOf, LastOf, TypeInv
  <2> QED BY <2>1, <2>2, TakeExact
<1>10. CASE StrayTables
  BY <1>10, QuietExact DEF StrayTables
<1>7. CASE StrayEntry
  BY <1>7, QuietExact DEF StrayEntry
<1>8. CASE SkipEntry
  BY <1>8, QuietExact DEF SkipEntry
<1>9. CASE Finish
  BY <1>9, QuietExact DEF Finish
<1> QED BY <1>1, <1>2, <1>3, <1>4, <1>5, <1>6, <1>7, <1>8, <1>9, <1>10 DEF BNext

(* Theorem: boot leaves an exact tree.  Whenever no recomputation is under *)
(* way every node says which sizes its leaves leave room for, although     *)
(* areafull_buddify passes only between the paths of two leaves.  (With    *)
(* fewer than eight leaves boot goes astray before it marks one.)          *)
THEOREM TreeIsExact == BSpec => []TreeExact
<1> DEFINE Inv == TypeInv /\ LeafInv /\ ExactInv
<1>1. BInit => Inv
  <2> SUFFICES ASSUME BInit PROVE Inv
    OBVIOUS
  <2>1. /\ map \in Maps /\ pc = "scan" /\ i = 1 /\ level = 0 /\ first = 0 /\ last = 0
    BY DEF BInit
  <2> QED BY <2>1 DEF TypeInv, LeafInv, ExactInv
<1>2. Inv /\ [BNext]_bvars => Inv'
  <2> SUFFICES ASSUME Inv, [BNext]_bvars PROVE Inv'
    OBVIOUS
  <2>1. CASE BNext
    BY <2>1, TypeStep, ExactStep
  <2>2. CASE UNCHANGED bvars
    <3>1. Leaves' = Leaves /\ Node' = Node /\ \A x : Due(tree, x)' = Due(tree', x)
      BY <2>2, SameArena DEF bvars
    <3>2. \A f, l, n : Right(tree, n, f, l)' = Right(tree', n, f, l)
      BY <2>2, SameArena DEF bvars
    <3>3. Right(tree, level, first, last)' = Right(tree, level, first, last)
      BY <2>2, <3>1 DEF bvars, Right, Span
    <3>4. TypeInv'
      BY <2>2 DEF bvars, TypeInv, Arena
    <3>5. LeafInv'
      BY <2>2, <3>1 DEF bvars, LeafInv
    <3>6. ExactInv'
      BY <2>2, <3>1, <3>3 DEF bvars, ExactInv
    <3> QED BY <3>4, <3>5, <3>6
  <2> QED BY <2>1, <2>2
<1>3. Inv => TreeExact
  <2> SUFFICES ASSUME Inv, pc \in {"entry", "done"}, NEW x \in Node
               PROVE  tree[x] = {k \in 0..x[1] : \A y \in Node : y[1] = k /\ InSubtree(y, x)
                        => \E s \in 0..(Leaves - 1) : Blocked(s) /\ InSubtree(<<0, s>>, y)}
    BY DEF TreeExact
  <2>1. tree[x] = Due(tree, x)
    BY DEF ExactInv
  <2> QED BY <2>1 DEF Due, Hit, Blocked
<1> QED BY <1>1, <1>2, <1>3, PTL DEF BSpec

-----------------------------------------------------------------------------
(* The tables fit: down to the levels of eight nodes they take whole       *)
(* bytes, and what the last three round up is what the sum leaves.         *)
Laid(l, t) ==
  /\ t \in Int
  /\ MaxLevel < 3 => t = End + l
  /\ (MaxLevel >= 3 /\ l <= MaxLevel - 3) =>
       8 * (t - End) = (4 * Leaves) - ((l + 3) * Power[MaxLevel - l])
  /\ (MaxLevel >= 3 /\ l = MaxLevel - 2) =>
       t + MaxLevel <= (End + Power[MaxLevel - 1]) + (MaxLevel \div 2)
  /\ (MaxLevel >= 3 /\ l = MaxLevel - 1) =>
       t + MaxLevel
         <= (End + Power[MaxLevel - 1]) + ((MaxLevel \div 2) + ((MaxLevel + 3) \div 4))
  /\ (MaxLevel >= 3 /\ l = MaxLevel) => t <= End + Power[MaxLevel - 1]

LEMMA SmallPowers ==
  ASSUME Arena
  PROVE  /\ Power[0] = 1 /\ Power[1] = 2
         /\ MaxLevel >= 2 => Power[2] = 4
         /\ MaxLevel >= 3 => Power[3] = 8
<1>1. MaxLevel \in Nat /\ MaxLevel <= Levels /\ Levels \in Nat /\ Power[0] = 1 /\ Power[1] = 2
  BY TreeIs, PowerFacts
<1>2. ASSUME MaxLevel >= 2 PROVE Power[2] = 4
  <2>1. 1 \in 0..(Levels - 1) /\ 1 + 1 = 2
    BY <1>1, <1>2
  <2>2. Power[1 + 1] = 2 * Power[1]
    BY <2>1, PowerFacts
  <2> QED BY <1>1, <2>1, <2>2
<1>3. ASSUME MaxLevel >= 3 PROVE Power[3] = 8
  <2>1. 2 \in 0..(Levels - 1) /\ 2 + 1 = 3 /\ MaxLevel >= 2
    BY <1>1, <1>3
  <2>2. Power[2 + 1] = 2 * Power[2]
    BY <2>1, PowerFacts
  <2> QED BY <1>2, <2>1, <2>2
<1> QED BY <1>1, <1>2, <1>3

LEMMA LeavesLaid ==
  ASSUME Arena
  PROVE  Laid(0, End + TableBytes(0))
<1>1. /\ MaxLevel \in Nat /\ MaxLevel >= 1 /\ MaxLevel <= Levels /\ Leaves \in Nat
      /\ End \in Nat /\ Levels \in Nat /\ MaxLevel - 0 = MaxLevel
  BY TreeIs, PowerFacts
<1>2. TableBytes(0) = Leaves \div 8 /\ Leaves = Power[MaxLevel]
  BY DEF TableBytes, Leaves
<1>3. CASE MaxLevel < 3
  <2>1. MaxLevel = 1 \/ MaxLevel = 2
    BY <1>1, <1>3
  <2>2. Leaves = 2 \/ Leaves = 4
    BY <1>2, <2>1, SmallPowers
  <2>3. Leaves \div 8 = 0
    BY <2>2
  <2> QED BY <1>1, <1>2, <1>3, <2>3 DEF Laid
<1>4. CASE MaxLevel >= 3
  <2>1. 3 + (MaxLevel - 3) = MaxLevel /\ MaxLevel - 3 \in Nat /\ MaxLevel - 3 \in 0..Levels
        /\ 3 \in Nat
    BY <1>1, <1>4
  <2>2. Power[MaxLevel] = Power[3] * Power[MaxLevel - 3]
    BY <1>1, <2>1, PowerSum
  <2>3. Leaves = 8 * Power[MaxLevel - 3] /\ Power[MaxLevel - 3] \in Nat
    BY <1>2, <1>4, <2>1, <2>2, SmallPowers, PowerFacts
  <2>4. 8 * (Leaves \div 8) = Leaves /\ Leaves \div 8 \in Nat
    <3> DEFINE r == Power[MaxLevel - 3]
    <3>1. r \in Nat /\ Leaves = 8 * r
      BY <2>3
    <3> HIDE DEF r
    <3> QED BY <3>1
  <2> DEFINE t == End + TableBytes(0)
  <2>5. t \in Int /\ 8 * (t - End) = Leaves
    BY <1>1, <1>2, <2>4
  <2> HIDE DEF t
  <2>6. 8 * (t - End) = (4 * Leaves) - ((0 + 3) * Power[MaxLevel - 0])
    BY <1>1, <1>2, <2>5
  <2>7. Laid(0, t)
    BY <1>1, <1>4, <2>5, <2>6 DEF Laid
  <2> QED BY <2>7 DEF t
<1> QED BY <1>1, <1>3, <1>4

LEMMA TableLaid ==
  ASSUME Arena, NEW l \in Nat, l < MaxLevel, NEW t, Laid(l, t)
  PROVE  Laid(l + 1, t + TableBytes(l + 1))
<1>1. /\ MaxLevel \in Nat /\ MaxLevel >= 1 /\ MaxLevel <= Levels /\ Leaves \in Nat
      /\ End \in Nat /\ Levels \in Nat /\ t \in Int
  BY TreeIs, PowerFacts DEF Laid
<1> DEFINE m == MaxLevel - (l + 1)
           b == TableBytes(l + 1)
<1>2. /\ m \in Nat /\ m \in 0..Levels /\ m \in 0..(Levels - 1) /\ m + 1 = MaxLevel - l
  BY <1>1
<1>3. b = (((l + 1) + 1) * Power[m] - 1) \div 8 + 1 /\ Power[m] \in Nat
  <2>1. l + 1 # 0
    OBVIOUS
  <2> QED BY <1>2, <2>1, PowerFacts DEF TableBytes
<1>4. CASE MaxLevel < 3
  <2>1. \/ MaxLevel = 1 /\ l = 0 /\ m = 0
        \/ MaxLevel = 2 /\ l = 0 /\ m = 1
        \/ MaxLevel = 2 /\ l = 1 /\ m = 0
    BY <1>1, <1>4
  <2>2. Power[0] = 1 /\ Power[1] = 2
    BY SmallPowers
  <2> HIDE DEF m, b
  <2>3. b = 1
    BY <1>3, <2>1, <2>2
  <2>4. t = End + l
    BY <1>4 DEF Laid
  <2>5. Laid(l + 1, t + b)
    BY <1>1, <1>4, <2>3, <2>4 DEF Laid
  <2> QED BY <2>5 DEF b
<1>5. CASE MaxLevel >= 3 /\ l + 1 <= MaxLevel - 3
  <2>1. 3 + (m - 3) = m /\ m - 3 \in Nat /\ m - 3 \in 0..Levels /\ 3 \in Nat /\ m <= Levels
    BY <1>1, <1>2, <1>5
  <2>2. Power[m] = 8 * Power[m - 3] /\ Power[m - 3] \in Nat
    BY <1>5, <2>1, PowerSum, PowerFacts, SmallPowers
  <2>3. Power[MaxLevel - l] = 2 * Power[m]
    BY <1>2, PowerFacts
  <2> DEFINE r == Power[m - 3]
             z == (l + 2) * r
  <2>4. r \in Nat /\ z \in Nat /\ ((l + 1) + 1) * Power[m] = 8 * z
    <3>1. r \in Nat /\ Power[m] = 8 * r
      BY <2>2
    <3> HIDE DEF r
    <3> QED BY <3>1
  <2>5. (8 * z - 1) \div 8 + 1 = z
    <3> HIDE DEF z
    <3> QED BY <2>4
  <2>6. b = z
    BY <1>3, <2>4, <2>5
  <2>7. 8 * (t - End) = (4 * Leaves) - ((l + 3) * (16 * r))
    <3>1. l <= MaxLevel - 3
      BY <1>1, <1>5
    <3>2. 8 * (t - End) = (4 * Leaves) - ((l + 3) * Power[MaxLevel - l])
      BY <1>5, <3>1 DEF Laid
    <3>3. Power[MaxLevel - l] = 16 * r
      BY <2>2, <2>3
    <3> QED BY <3>2, <3>3, Zenon
  <2>8. (l + 3) * (16 * r) = 8 * z + ((l + 4) * (8 * r))
    <3> HIDE DEF r
    <3> QED BY <2>4
  <2>9. Power[m] = 8 * r /\ (l + 4) * (8 * r) \in Int
    <3>1. Power[m] = 8 * r
      BY <2>2
    <3> HIDE DEF r
    <3> QED BY <2>4, <3>1
  <2> HIDE DEF r, z, b
  <2>10. t + b \in Int /\ 8 * ((t + b) - End) = (4 * Leaves) - ((l + 4) * (8 * r))
    BY <1>1, <2>4, <2>6, <2>7, <2>8, <2>9
  <2>11. 8 * ((t + b) - End) = (4 * Leaves) - (((l + 1) + 3) * Power[MaxLevel - (l + 1)])
    <3>1. (l + 1) + 3 = l + 4
      OBVIOUS
    <3> QED BY <2>9, <2>10, <3>1 DEF m
  <2>12. Laid(l + 1, t + b)
    BY <1>1, <1>5, <2>10, <2>11 DEF Laid
  <2> QED BY <2>12 DEF b
<1>6. CASE MaxLevel >= 3 /\ l + 1 = MaxLevel - 2
  <2>1. m = 2 /\ l = MaxLevel - 3 /\ MaxLevel - l = 3 /\ l + 3 = MaxLevel
    BY <1>1, <1>6
  <2>2. 8 * (t - End) = (4 * Leaves) - (MaxLevel * 8)
    BY <1>1, <1>6, <2>1, SmallPowers DEF Laid
  <2>3. b = ((MaxLevel - 1) * 4 - 1) \div 8 + 1
    <3>1. Power[m] = 4 /\ (l + 1) + 1 = MaxLevel - 1
      BY <1>1, <1>6, <2>1, SmallPowers
    <3> QED BY <1>3, <3>1, Zenon
  <2>4. Leaves = 2 * Power[MaxLevel - 1] /\ Power[MaxLevel - 1] \in Nat
    BY TreeIs
  <2> HIDE DEF b, m
  <2>5. b \in Int /\ b <= MaxLevel \div 2
    BY <1>1, <2>3
  <2>6. t + b \in Int /\ (t + b) + MaxLevel <= (End + Power[MaxLevel - 1]) + (MaxLevel \div 2)
    BY <1>1, <2>2, <2>4, <2>5
  <2>7. Laid(l + 1, t + b)
    BY <1>1, <1>6, <2>6 DEF Laid
  <2> QED BY <2>7 DEF b
<1>7. CASE MaxLevel >= 3 /\ l + 1 = MaxLevel - 1
  <2>1. m = 1 /\ l = MaxLevel - 2
    BY <1>1, <1>7
  <2>2. t + MaxLevel <= (End + Power[MaxLevel - 1]) + (MaxLevel \div 2)
    BY <1>7, <2>1 DEF Laid
  <2>3. b = (MaxLevel * 2 - 1) \div 8 + 1
    <3>1. Power[m] = 2 /\ (l + 1) + 1 = MaxLevel
      BY <1>1, <1>7, <2>1, SmallPowers
    <3> QED BY <1>3, <3>1, Zenon
  <2>4. Power[MaxLevel - 1] \in Nat
    BY TreeIs
  <2> HIDE DEF b, m
  <2>5. b \in Int /\ b <= (MaxLevel + 3) \div 4
    BY <1>1, <2>3
  <2>6. t + b \in Int
        /\ (t + b) + MaxLevel
             <= (End + Power[MaxLevel - 1]) + ((MaxLevel \div 2) + ((MaxLevel + 3) \div 4))
    BY <1>1, <2>2, <2>4, <2>5
  <2>7. Laid(l + 1, t + b)
    BY <1>1, <1>7, <2>6 DEF Laid
  <2> QED BY <2>7 DEF b
<1>8. CASE MaxLevel >= 3 /\ l + 1 = MaxLevel
  <2>1. m = 0 /\ l = MaxLevel - 1
    BY <1>1, <1>8
  <2>2. t + MaxLevel
          <= (End + Power[MaxLevel - 1]) + ((MaxLevel \div 2) + ((MaxLevel + 3) \div 4))
    BY <1>8, <2>1 DEF Laid
  <2>3. b = ((MaxLevel + 1) * 1 - 1) \div 8 + 1
    <3>1. Power[m] = 1 /\ (l + 1) + 1 = MaxLevel + 1
      BY <1>1, <1>8, <2>1, SmallPowers
    <3> QED BY <1>3, <3>1, Zenon
  <2>4. Power[MaxLevel - 1] \in Nat
    BY TreeIs
  <2> HIDE DEF b, m
  <2>5. b \in Int /\ b = (MaxLevel \div 8) + 1
    BY <1>1, <2>3
  <2>6. ((MaxLevel \div 2) + ((MaxLevel + 3) \div 4)) + ((MaxLevel \div 8) + 1) <= MaxLevel
    BY <1>1, <1>8
  <2>7. t + b \in Int /\ t + b <= End + Power[MaxLevel - 1]
    BY <1>1, <2>2, <2>4, <2>5, <2>6
  <2>8. Laid(l + 1, t + b)
    BY <1>1, <1>8, <2>7 DEF Laid
  <2> QED BY <2>8 DEF b
<1>9. MaxLevel < 3 \/ l + 1 <= MaxLevel - 3 \/ l + 1 = MaxLevel - 2 \/ l + 1 = MaxLevel - 1
      \/ l + 1 = MaxLevel
  BY <1>1
<1> QED BY <1>1, <1>4, <1>5, <1>6, <1>7, <1>8, <1>9

LEMMA AllLaid ==
  ASSUME Arena, NEW t, Laid(MaxLevel, t)
  PROVE  t <= size
<1>1. /\ MaxLevel \in Nat /\ MaxLevel >= 1 /\ End \in Nat /\ Power[MaxLevel - 1] \in Nat
      /\ End + Power[MaxLevel - 1] = size
  BY TreeIs
<1>2. CASE MaxLevel < 3
  <2>1. (MaxLevel = 1 /\ MaxLevel - 1 = 0) \/ (MaxLevel = 2 /\ MaxLevel - 1 = 1)
    BY <1>1, <1>2
  <2>2. Power[MaxLevel - 1] = MaxLevel
    BY <2>1, SmallPowers
  <2> QED BY <1>1, <1>2, <2>2 DEF Laid
<1>3. CASE MaxLevel >= 3
  BY <1>1, <1>3 DEF Laid
<1> QED BY <1>1, <1>2, <1>3

-----------------------------------------------------------------------------
(* What is kept out of the pool. *)

TablesInv ==
  /\ pc = "tables" => level <= MaxLevel /\ Laid(level, top)
  /\ pc \in {"up", "entry", "done"} => top <= size

EndInv ==
  pc \in {"up", "entry", "done"} =>
    \A s \in 0..(Leaves - 1) : (s + 1) * BlockSize > End => Blocked(s)

(* The part of an entry that lies in the arena is out of the pool. *)
Kept(e) ==
  \A a \in e.base..((e.base + e.length) - 1) :
    a \in low..((low + size) - 1) =>
      /\ (a - low) \div BlockSize \in 0..(Leaves - 1)
      /\ Blocked((a - low) \div BlockSize)

ReservedInv ==
  /\ pc # "scan" => low + size <= Word \div 2
  /\ pc \in {"up", "entry", "done"} =>
       \A k \in 1..Len(map) : (k < i /\ ~map[k].free) => Kept(map[k])
  /\ pc \in {"scan", "kset", "tables"} => i = 1
  /\ pc = "done" => i > Len(map)

KeptInv == TablesInv /\ EndInv /\ ReservedInv /\ StraysOnlyAtEnd

(* What is taken stays taken. *)
LEMMA BlockedStays ==
  ASSUME Arena, size' = size, NEW f, NEW l, NEW lev \in Nat,
         \/ tree' = tree
         \/ tree' = Taken(tree, f, l)
         \/ tree' = Levelled(tree, lev, f, l)
  PROVE  \A s \in 0..(Leaves - 1) : Blocked(s) => Blocked(s)'
<1> TAKE s \in 0..(Leaves - 1)
<1> HAVE Blocked(s)
<1>1. <<0, s>> \in Node /\ <<0, s>>[1] = 0 /\ 0 # lev + 1
  BY LeavesAreNodes
<1>2. CASE tree' = tree
  BY <1>2 DEF Blocked
<1>3. CASE tree' = Taken(tree, f, l)
  BY <1>1, <1>3 DEF Blocked, Taken
<1>4. CASE tree' = Levelled(tree, lev, f, l)
  BY <1>1, <1>4 DEF Blocked, Levelled
<1> QED BY <1>2, <1>3, <1>4

LEMMA KeptStays ==
  ASSUME size' = size, low' = low, map' = map,
         \A s \in 0..(Leaves - 1) : Blocked(s) => Blocked(s)',
         NEW k, Kept(map[k])
  PROVE  Kept(map[k])'
<1>1. Leaves' = Leaves
  BY SameArena
<1>2. ASSUME NEW a \in map[k].base..((map[k].base + map[k].length) - 1),
             a \in low..((low + size) - 1)
      PROVE  /\ (a - low) \div BlockSize \in 0..(Leaves - 1)
             /\ Blocked((a - low) \div BlockSize)'
  <2>1. /\ (a - low) \div BlockSize \in 0..(Leaves - 1)
        /\ Blocked((a - low) \div BlockSize)
    BY <1>2 DEF Kept
  <2> QED BY <2>1
<1> QED BY <1>1, <1>2 DEF Kept

LEMMA TakenAreBlocked ==
  ASSUME Arena, size' = size, NEW f, NEW l, Take(f, l)
  PROVE  \A s \in 0..(Leaves - 1) : s \in Span(f, l) => Blocked(s)'
<1> TAKE s \in 0..(Leaves - 1)
<1>1. <<0, s>> \in Node /\ <<0, s>>[1] = 0 /\ <<0, s>>[2] = s
  BY LeavesAreNodes
<1> QED BY <1>1 DEF Take, Blocked

(* clamp leaves no address outside of the arena, so that no segment lies   *)
(* past the arena's last byte.                                             *)
LEMMA SegmentAtMost ==
  ASSUME Arena, low + size <= Word \div 2, NEW a \in Int
  PROVE  Segment(a) \in Nat /\ Segment(a) <= (size - 1) \div BlockSize
<1> DEFINE n == a % Word
           hi == (low + size) - 1
           c == Clamp(n, low, hi)
<1>1. /\ Word \in Nat /\ Word >= 2 /\ BlockSize \in Nat /\ BlockSize >= 1
      /\ Word \div 2 \in Nat /\ Word \div 2 <= Word
  BY Sizes
<1>2. low \in Nat /\ size \in Nat /\ size >= 1
  BY DEF Arena
<1>3. n \in Nat /\ n < Word
  BY <1>1
<1>4. hi \in Nat /\ low <= hi /\ hi < Word \div 2 /\ hi - low = size - 1 /\ hi % Word = hi
  BY <1>1, <1>2
<1> HIDE DEF n, hi
<1>5. Signed(low) = low /\ Signed(hi) = hi
  BY <1>1, <1>2, <1>4 DEF Signed
<1>6. c \in Nat /\ low <= c /\ c <= hi
  <2>1. CASE n >= Word \div 2
    <3>1. Signed(n) < low
      BY <1>1, <1>2, <1>3, <2>1 DEF Signed
    <3> QED BY <1>2, <1>4, <1>5, <3>1 DEF Clamp
  <2>2. CASE ~(n >= Word \div 2)
    <3>1. Signed(n) = n
      BY <2>2 DEF Signed
    <3>2. CASE n < low
      BY <1>2, <1>4, <1>5, <3>1, <3>2 DEF Clamp
    <3>3. CASE ~(n < low) /\ n > hi
      <4>1. c = hi
        BY <1>2, <1>3, <1>4, <1>5, <3>1, <3>3 DEF Clamp
      <4> QED BY <1>4, <4>1
    <3>4. CASE ~(n < low) /\ ~(n > hi)
      <4>1. c = n
        BY <1>2, <1>3, <1>4, <1>5, <3>1, <3>4 DEF Clamp
      <4> QED BY <1>2, <1>3, <1>4, <3>4, <4>1
    <3> QED BY <3>2, <3>3, <3>4
  <2> QED BY <2>1, <2>2
<1> HIDE DEF c
<1>7. c - low \in Nat /\ c - low <= size - 1 /\ size - 1 \in Nat /\ (c - low) % Word = c - low
  <2>1. c - low \in Nat /\ c - low <= size - 1 /\ size - 1 \in Nat /\ c - low < Word
    BY <1>1, <1>2, <1>4, <1>6
  <2> QED BY <1>1, <2>1
<1>8. (c - low) \div BlockSize <= (size - 1) \div BlockSize
  BY <1>1, <1>7, QuotientMonotone
<1>9. (c - low) \div BlockSize \in Nat
  <2>1. \A m \in Nat : m \div BlockSize \in Nat
    BY <1>1
  <2> QED BY <1>7, <2>1, Zenon
<1>10. Segment(a) = (c - low) \div BlockSize
  <2>1. low + size - 1 = hi
    BY <1>2 DEF hi
  <2>2. Segment(a) = ((c - low) % Word) \div BlockSize
    BY <1>4, <2>1, Zenon DEF Segment, c, n
  <2> QED BY <1>7, <2>2
<1> QED BY <1>8, <1>9, <1>10

LEMMA StrayAtEnd ==
  ASSUME Arena, low + size <= Word \div 2, NEW a \in Int, ~(Segment(a) < Leaves)
  PROVE  Blocks = Leaves /\ size % BlockSize # 0
<1>1. /\ size \in Nat /\ size >= 1 /\ BlockSize \in Nat /\ BlockSize >= 1
      /\ Leaves \in Nat /\ Blocks \in Nat /\ Blocks <= Leaves /\ Blocks = size \div BlockSize
  BY Sizes, TreeIs, MaxLevelIs DEF Arena, Blocks
<1> DEFINE p == (size - 1) \div BlockSize
<1>2. size - 1 \in Nat /\ size - 1 <= size
  BY <1>1
<1>3. p \in Nat /\ p * BlockSize <= size - 1
  BY <1>1, <1>2
<1>4. p <= Blocks
  BY <1>1, <1>2, QuotientMonotone
<1>5. Segment(a) \in Nat /\ Segment(a) <= p
  BY SegmentAtMost
<1> HIDE DEF p
<1>6. Blocks = Leaves /\ p = Blocks
  BY <1>1, <1>3, <1>4, <1>5
<1>7. ASSUME size % BlockSize = 0 PROVE FALSE
  <2>1. size = Blocks * BlockSize
    <3>1. size = (size \div BlockSize) * BlockSize + (size % BlockSize)
      BY <1>1
    <3>2. (size \div BlockSize) * BlockSize \in Nat
      BY <1>1
    <3> QED BY <1>1, <1>7, <3>1, <3>2
  <2>2. Blocks * BlockSize <= size - 1
    BY <1>3, <1>6
  <2> QED BY <1>1, <2>1, <2>2
<1> QED BY <1>6, <1>7

(* In the lower half of the address space kmres finds the segments from    *)
(* the entry's first byte in the arena to its last.                        *)
LEMMA SegmentsBracket ==
  ASSUME Arena, LowMemory, low + size <= Word \div 2, map \in Maps,
         NEW k \in 1..Len(map), ~map[k].free,
         NEW a \in map[k].base..((map[k].base + map[k].length) - 1),
         a \in low..((low + size) - 1)
  PROVE  /\ (a - low) \div BlockSize \in Nat
         /\ FirstOf(map[k]) <= (a - low) \div BlockSize
         /\ (a - low) \div BlockSize <= LastOf(map[k])
<1> DEFINE b == map[k].base
           z == (map[k].base + map[k].length) - 1
           hi == (low + size) - 1
<1>1. /\ b \in Nat /\ z \in Int /\ a \in Nat /\ b <= a /\ a <= z /\ low <= a /\ a <= hi
      /\ low \in Nat /\ hi \in Nat
  <2>1. map[k].base \in Nat /\ map[k].length \in Nat
    BY EntryType
  <2> QED BY <2>1 DEF Arena
<1>2. /\ Word \in Nat /\ Word >= 1 /\ BlockSize \in Nat /\ BlockSize >= 1
      /\ Word \div 2 \in Nat /\ Word \div 2 <= Word /\ Word >= 2
  BY Sizes
<1>3. hi < Word \div 2
  BY <1>1, <1>2 DEF Arena
<1>4. z < Word \div 2
  <2>1. \/ map[k].base + map[k].length <= Word \div 2
        \/ map[k].base >= Word \div 2
    BY DEF LowMemory
  <2>2. map[k].base \in Nat /\ map[k].length \in Nat
    BY EntryType
  <2> QED BY <1>1, <1>2, <1>3, <2>1, <2>2
<1> HIDE DEF b, z, hi
<1>5. /\ b % Word = b /\ z % Word = z /\ hi % Word = hi
      /\ b \in Nat /\ z \in Nat /\ b < Word \div 2
  BY <1>1, <1>2, <1>3, <1>4
<1>6. ASSUME NEW n \in Nat, n < Word \div 2 PROVE Signed(n) = n
  BY <1>2, <1>6 DEF Signed
<1>7. Signed(b) = b /\ Signed(z) = z /\ Signed(hi) = hi /\ Signed(low) = low
  BY <1>1, <1>2, <1>3, <1>4, <1>5, <1>6
<1>8. ASSUME NEW n \in Nat, n <= hi PROVE n % Word = n
  BY <1>1, <1>2, <1>3, <1>8
<1> DEFINE cb == Clamp(b, low, hi)
           cz == Clamp(z, low, hi)
<1>9. cb \in Nat /\ low <= cb /\ cb <= a
  <2>1. CASE b < low
    BY <1>1, <1>7, <2>1 DEF Clamp
  <2>2. CASE ~(b < low)
    <3>1. ~(b > hi)
      BY <1>1, <1>5
    <3>2. cb = b
      BY <1>1, <1>5, <1>7, <2>2, <3>1 DEF Clamp
    <3> QED BY <1>1, <1>5, <2>2, <3>2
  <2> QED BY <2>1, <2>2
<1>10. cz \in Nat /\ a <= cz /\ cz <= hi
  <2>1. ~(z < low)
    BY <1>1, <1>5
  <2>2. CASE z > hi
    <3>1. cz = hi
      BY <1>1, <1>5, <1>7, <2>1, <2>2 DEF Clamp
    <3> QED BY <1>1, <3>1
  <2>3. CASE ~(z > hi)
    <3>1. cz = z
      BY <1>1, <1>5, <1>7, <2>1, <2>3 DEF Clamp
    <3> QED BY <1>1, <1>5, <2>3, <3>1
  <2> QED BY <2>2, <2>3
<1> HIDE DEF cb, cz
<1>11. /\ cb - low \in Nat /\ a - low \in Nat /\ cz - low \in Nat
       /\ cb - low <= a - low /\ a - low <= cz - low
       /\ (cb - low) % Word = cb - low /\ (cz - low) % Word = cz - low
  <2>1. /\ cb - low \in Nat /\ a - low \in Nat /\ cz - low \in Nat
        /\ cb - low <= a - low /\ a - low <= cz - low /\ cb - low <= hi /\ cz - low <= hi
    BY <1>1, <1>9, <1>10
  <2> QED BY <1>8, <2>1
<1>12. /\ (cb - low) \div BlockSize <= (a - low) \div BlockSize
       /\ (a - low) \div BlockSize <= (cz - low) \div BlockSize
  BY <1>2, <1>11, QuotientMonotone
<1>13. (a - low) \div BlockSize \in Nat
  <2>1. \A n \in Nat : n \div BlockSize \in Nat
    BY <1>2
  <2> QED BY <1>11, <2>1, Zenon
<1>14. FirstOf(map[k]) = (cb - low) \div BlockSize
  <2>1. FirstOf(map[k]) = ((Clamp(b % Word, low, hi % Word) - low) % Word) \div BlockSize
    <3>1. low + size - 1 = hi
      BY <1>1 DEF hi, Arena
    <3> QED BY <3>1, Zenon DEF FirstOf, Segment, b
  <2> QED BY <1>5, <1>11, <2>1 DEF cb
<1>15. LastOf(map[k]) = (cz - low) \div BlockSize
  <2>1. LastOf(map[k]) = ((Clamp(z % Word, low, hi % Word) - low) % Word) \div BlockSize
    <3>1. low + size - 1 = hi
      BY <1>1 DEF hi, Arena
    <3>2. map[k].base + map[k].length - 1 = z
      BY EntryType DEF z
    <3> QED BY <3>1, <3>2, Zenon DEF LastOf, Segment
  <2> QED BY <1>5, <1>11, <2>1 DEF cz
<1> QED BY <1>12, <1>13, <1>14, <1>15

LEMMA KeptInit ==
  ASSUME BInit
  PROVE  KeptInv
<1>1. pc = "scan" /\ i = 1
  BY DEF BInit
<1> QED BY <1>1 DEF KeptInv, TablesInv, EndInv, ReservedInv, StraysOnlyAtEnd

(* A step that leaves the arena and the tables alone and takes nothing     *)
(* back only has to account for the entry it passes.                       *)
LEMMA KeptQuiet ==
  ASSUME LowMemory, TypeInv, KeptInv, pc \in {"up", "entry"},
         pc' \in {"up", "entry", "done", "astray"},
         low' = low, size' = size, top' = top, map' = map,
         \A s \in 0..(Leaves - 1) : Blocked(s) => Blocked(s)',
         \A k \in 1..Len(map) : (k < i' /\ ~(k < i) /\ ~map[k].free) => Kept(map[k])',
         pc' = "done" => i' > Len(map),
         pc' = "astray" => Blocks = Leaves /\ size % BlockSize # 0
  PROVE  KeptInv'
<1>1. Leaves' = Leaves /\ End' = End /\ Blocks' = Blocks
  BY SameArena
<1>2. TablesInv'
  BY DEF KeptInv, TablesInv
<1>3. EndInv'
  BY <1>1 DEF KeptInv, EndInv
<1>4. ReservedInv'
  <2>1. low + size <= Word \div 2
    BY DEF KeptInv, ReservedInv
  <2>2. ASSUME NEW k \in 1..Len(map), k < i', ~map[k].free PROVE Kept(map[k])'
    <3>1. CASE k < i
      <4>1. Kept(map[k])
        BY <2>2, <3>1 DEF KeptInv, ReservedInv
      <4> QED BY <4>1, KeptStays
    <3>2. CASE ~(k < i)
      BY <2>2, <3>2
    <3> QED BY <3>1, <3>2
  <2> QED BY <2>1, <2>2 DEF ReservedInv
<1>5. StraysOnlyAtEnd'
  BY <1>1 DEF StraysOnlyAtEnd
<1> QED BY <1>2, <1>3, <1>4, <1>5 DEF KeptInv

LEMMA EndKept ==
  ASSUME LowMemory, TypeInv, KeptInv, TakeEnd
  PROVE  KeptInv'
<1>1. /\ pc = "tables" /\ level = MaxLevel
      /\ map' = map /\ i' = i /\ low' = low /\ size' = size /\ top' = top
  BY DEF TakeEnd
<1>2. Leaves' = Leaves /\ End' = End
  BY <1>1, SameArena
<1>3. Arena
  BY <1>1 DEF TypeInv
<1>4. /\ End \in Nat /\ Leaves \in Nat /\ Leaves >= 2 /\ BlockSize \in Nat /\ BlockSize >= 1
  BY <1>3, TreeIs, Sizes
<1>5. top <= size
  BY <1>1, <1>3, AllLaid DEF KeptInv, TablesInv
<1>6. ASSUME NEW s \in 0..(Leaves - 1), (s + 1) * BlockSize > End
      PROVE  End \div BlockSize <= s
  <2>1. (s + 1) * BlockSize \in Nat
    BY <1>4
  <2> DEFINE q == End \div BlockSize
  <2>2. q \in Nat /\ q * BlockSize <= End
    BY <1>4
  <2> HIDE DEF q
  <2>3. ASSUME s < q PROVE FALSE
    <3>1. PICK d \in Nat : q = s + 1 + d
      <4>1. q - (s + 1) \in Nat /\ q = s + 1 + (q - (s + 1))
        BY <2>2, <2>3
      <4> QED BY <4>1
    <3>2. q * BlockSize = (s + 1) * BlockSize + d * BlockSize /\ d * BlockSize >= 0
      BY <1>4, <3>1
    <3> QED BY <1>4, <1>6, <2>1, <2>2, <3>2
  <2>4. q <= s
    BY <2>2, <2>3
  <2> QED BY <2>4 DEF q
<1>7. pc' \in {"up", "entry"}
  BY DEF TakeEnd, Take
<1>8. ASSUME NEW s \in 0..(Leaves - 1), (s + 1) * BlockSize > End
      PROVE  Blocked(s)'
  <2>1. End \div BlockSize <= s /\ End \div BlockSize <= Leaves - 1
    BY <1>4, <1>6, <1>8
  <2>2. Take(End \div BlockSize, Leaves - 1)
    BY <2>1 DEF TakeEnd
  <2>3. s \in Span(End \div BlockSize, Leaves - 1)
    BY <1>4, <2>1 DEF Span
  <2> QED BY <1>1, <1>3, <2>2, <2>3, TakenAreBlocked
<1>9. TablesInv'
  BY <1>1, <1>5, <1>7 DEF TablesInv
<1>10. EndInv'
  BY <1>2, <1>8 DEF EndInv
<1>11. ReservedInv'
  <2>1. low + size <= Word \div 2 /\ i = 1
    BY <1>1 DEF KeptInv, ReservedInv
  <2>2. \A k \in 1..Len(map) : ~(k < 1)
    OBVIOUS
  <2> QED BY <1>1, <1>7, <2>1, <2>2 DEF ReservedInv
<1>12. StraysOnlyAtEnd'
  BY <1>7 DEF StraysOnlyAtEnd
<1> QED BY <1>9, <1>10, <1>11, <1>12 DEF KeptInv

LEMMA KeptStep ==
  ASSUME LowMemory, TypeInv, KeptInv, BNext
  PROVE  KeptInv'
<1>1. CASE Scan
  <2>1. low' + size' <= Word \div 2 /\ pc' = "kset" /\ i' = i /\ i = 1
    BY <1>1, ScanMakesArena DEF TypeInv, Scan, KeptInv, ReservedInv
  <2> QED BY <2>1 DEF KeptInv, TablesInv, EndInv, ReservedInv, StraysOnlyAtEnd
<1>2. CASE Kset
  <2>1. /\ pc = "kset" /\ pc' = "tables" /\ level' = 0 /\ top' = End + TableBytes(0)
        /\ low' = low /\ size' = size /\ i' = i
    BY <1>2 DEF Kset
  <2>2. Arena
    BY <2>1 DEF TypeInv
  <2>3. Laid(0, End + TableBytes(0)) /\ MaxLevel \in Nat
    BY <2>2, LeavesLaid, TreeIs
  <2>4. MaxLevel' = MaxLevel /\ Laid(level, top)' <=> Laid(level', top')
    BY <2>1, SameArena DEF Laid
  <2>5. TablesInv'
    BY <2>1, <2>3, <2>4 DEF TablesInv
  <2>6. low + size <= Word \div 2 /\ i = 1
    BY <2>1 DEF KeptInv, ReservedInv
  <2> QED BY <2>1, <2>5, <2>6 DEF KeptInv, EndInv, ReservedInv, StraysOnlyAtEnd
<1>3. CASE LayTable
  <2>1. /\ pc = "tables" /\ pc' = "tables" /\ level < MaxLevel /\ level' = level + 1
        /\ top' = top + TableBytes(level + 1)
        /\ low' = low /\ size' = size /\ i' = i
    <3>1. TableBytes(level') = TableBytes(level + 1)
      BY <1>3 DEF LayTable
    <3> QED BY <1>3, <3>1 DEF LayTable
  <2>2. Arena /\ level \in Nat /\ Laid(level, top)
    BY <2>1 DEF TypeInv, KeptInv, TablesInv
  <2>3. Laid(level + 1, top + TableBytes(level + 1)) /\ level + 1 <= MaxLevel
    BY <2>1, <2>2, TableLaid, TreeIs
  <2>4. MaxLevel' = MaxLevel /\ Laid(level, top)' <=> Laid(level', top')
    BY <2>1, SameArena DEF Laid
  <2>5. TablesInv'
    BY <2>1, <2>3, <2>4 DEF TablesInv
  <2>6. low + size <= Word \div 2 /\ i = 1
    BY <2>1 DEF KeptInv, ReservedInv
  <2> QED BY <2>1, <2>5, <2>6 DEF KeptInv, EndInv, ReservedInv, StraysOnlyAtEnd
<1>4. CASE TakeEnd
  BY <1>4, EndKept
<1>10. CASE StrayTables
  <2>1. /\ pc = "tables" /\ pc' = "astray" /\ Leaves < 8 /\ i' = i
        /\ low' = low /\ size' = size
    BY <1>10 DEF StrayTables
  <2>2. low + size <= Word \div 2 /\ i = 1
    BY <2>1 DEF KeptInv, ReservedInv
  <2>3. Leaves' < 8 /\ Leaves' \in Nat
    BY <2>1, SameArena, TreeIs DEF TypeInv
  <2>4. StraysOnlyAtEnd'
    BY <2>1, <2>3 DEF StraysOnlyAtEnd
  <2>5. TablesInv' /\ EndInv' /\ ReservedInv'
    BY <2>1, <2>2 DEF TablesInv, EndInv, ReservedInv
  <2> QED BY <2>4, <2>5 DEF KeptInv
<1>5. CASE LevelUp
  <2>1. /\ pc = "up" /\ pc' \in {"up", "entry"}
        /\ map' = map /\ i' = i /\ low' = low /\ size' = size /\ top' = top
    BY <1>5 DEF LevelUp
  <2>2. Arena /\ level \in Nat
    BY <2>1 DEF TypeInv
  <2>3. tree' = tree \/ tree' = Levelled(tree, level, first, last)
    BY <1>5 DEF LevelUp, Levelled
  <2>4. \A s \in 0..(Leaves - 1) : Blocked(s) => Blocked(s)'
    BY <2>1, <2>2, <2>3, BlockedStays
  <2> QED BY <2>1, <2>4, KeptQuiet
<1>6. CASE TakeEntry
  <2>1. /\ pc = "entry" /\ i <= Len(map) /\ InTree(map[i]) /\ pc' = "up" /\ ~map[i].free
        /\ Take(FirstOf(map[i]), LastOf(map[i]))
        /\ map' = map /\ i' = i + 1 /\ low' = low /\ size' = size /\ top' = top
    BY <1>6 DEF TakeEntry, Take
  <2>2. Arena /\ i \in Nat /\ i >= 1 /\ map \in Maps /\ low + size <= Word \div 2
    BY <2>1 DEF TypeInv, KeptInv, ReservedInv
  <2>3. \A s \in 0..(Leaves - 1) : Blocked(s) => Blocked(s)'
    <3>1. tree' = Taken(tree, FirstOf(map[i]), LastOf(map[i]))
      BY <2>1 DEF Take, Taken
    <3>2. 0 \in Nat
      OBVIOUS
    <3> QED BY <2>1, <2>2, <3>1, <3>2, BlockedStays, Zenon
  <2>4. i \in 1..Len(map) /\ Leaves' = Leaves /\ Leaves \in Nat
    BY <2>1, <2>2, EntryType, SameArena, TreeIs
  <2>5. ASSUME NEW k \in 1..Len(map), k = i,
               NEW a \in map[k].base..((map[k].base + map[k].length) - 1),
               a \in low..((low + size) - 1)
        PROVE  /\ (a - low) \div BlockSize \in 0..(Leaves - 1)
               /\ Blocked((a - low) \div BlockSize)'
    <3> DEFINE f == FirstOf(map[k])
               l == LastOf(map[k])
    <3>1. PICK n \in Nat : n = (a - low) \div BlockSize /\ f <= n /\ n <= l
      BY <2>1, <2>2, <2>5, SegmentsBracket
    <3>2. f < Leaves /\ l < Leaves
      BY <2>1, <2>5 DEF InTree
    <3>3. f \in Nat /\ l \in Nat
      <4>1. map[k].base \in Int /\ map[k].base + map[k].length - 1 \in Int
        BY <2>2, EntryType
      <4> QED BY <2>2, <4>1, SegmentType DEF FirstOf, LastOf
    <3>4. \A m \in 0..(Leaves - 1) : m \in Span(f, l) => Blocked(m)'
      BY <2>1, <2>2, <2>5, TakenAreBlocked
    <3> HIDE DEF f, l
    <3>5. n \in 0..(Leaves - 1) /\ n \in Span(f, l)
      BY <2>4, <3>1, <3>2, <3>3 DEF Span
    <3>6. Blocked(n)'
      BY <3>4, <3>5
    <3>7. ((a - low) \div BlockSize)' = n
      BY <2>1, <3>1
    <3> QED BY <3>1, <3>5, <3>6, <3>7 DEF Blocked
  <2>6. \A k \in 1..Len(map) : k = i => Kept(map[k])'
    BY <2>1, <2>4, <2>5 DEF Kept
  <2>7. \A k \in 1..Len(map) : (k < i' /\ ~(k < i) /\ ~map[k].free) => Kept(map[k])'
    <3> TAKE k \in 1..Len(map)
    <3> HAVE k < i' /\ ~(k < i) /\ ~map[k].free
    <3>1. k = i
      BY <2>1, <2>2
    <3> QED BY <2>6, <3>1
  <2> QED BY <2>1, <2>3, <2>7, KeptQuiet
<1>7. CASE StrayEntry
  <2>1. /\ pc = "entry" /\ pc' = "astray"
        /\ map' = map /\ i' = i /\ low' = low /\ size' = size /\ top' = top /\ tree' = tree
    BY <1>7 DEF StrayEntry
  <2>2. \A s \in 0..(Leaves - 1) : Blocked(s) => Blocked(s)'
    BY <2>1 DEF Blocked
  <2>3. Arena /\ low + size <= Word \div 2 /\ i \in 1..Len(map) /\ map \in Maps
    BY <1>7, EntryType DEF TypeInv, KeptInv, ReservedInv, StrayEntry
  <2>4. map[i].base \in Int /\ map[i].base + map[i].length - 1 \in Int
    BY <2>3, EntryType
  <2>5. ~(Segment(map[i].base) < Leaves) \/ ~(Segment(map[i].base + map[i].length - 1) < Leaves)
    BY <1>7 DEF StrayEntry, InTree, FirstOf, LastOf
  <2>6. Blocks = Leaves /\ size % BlockSize # 0
    BY <2>3, <2>4, <2>5, StrayAtEnd
  <2> QED BY <2>1, <2>2, <2>6, KeptQuiet
<1>8. CASE SkipEntry
  <2>1. /\ pc = "entry" /\ pc' = "entry" /\ map[i].free
        /\ map' = map /\ i' = i + 1 /\ low' = low /\ size' = size /\ top' = top /\ tree' = tree
    BY <1>8 DEF SkipEntry
  <2>2. \A s \in 0..(Leaves - 1) : Blocked(s) => Blocked(s)'
    BY <2>1 DEF Blocked
  <2>3. \A k \in 1..Len(map) : (k < i' /\ ~(k < i)) => map[k].free
    <3> TAKE k \in 1..Len(map)
    <3> HAVE k < i' /\ ~(k < i)
    <3>1. k = i
      BY <2>1 DEF TypeInv
    <3> QED BY <2>1, <3>1
  <2> QED BY <2>1, <2>2, <2>3, KeptQuiet
<1>9. CASE Finish
  <2>1. /\ pc = "entry" /\ pc' = "done" /\ i > Len(map)
        /\ map' = map /\ i' = i /\ low' = low /\ size' = size /\ top' = top /\ tree' = tree
    BY <1>9 DEF Finish
  <2>2. \A s \in 0..(Leaves - 1) : Blocked(s) => Blocked(s)'
    BY <2>1 DEF Blocked
  <2> QED BY <2>1, <2>2, KeptQuiet
<1> QED BY <1>1, <1>2, <1>3, <1>4, <1>5, <1>6, <1>7, <1>8, <1>9, <1>10 DEF BNext

(* Theorem: what boot leaves to kmalloc is memory nobody else uses.  With  *)
(* memory in the lower half of the address space no segment is handed out  *)
(* that holds a byte of a reserved region, of the tree's tables or past    *)
(* the arena's end, the tables fit in four bits per leaf, and, if there    *)
(* are eight leaves at least, kmres writes past them only where StrayEntry *)
(* says.                                                                   *)
THEOREM RegionsKeptOut ==
  ASSUME LowMemory
  PROVE  BSpec => []KeptOut
<1> DEFINE Inv == TypeInv /\ KeptInv
<1>1. BInit => Inv
  <2> SUFFICES ASSUME BInit PROVE Inv
    OBVIOUS
  <2>1. /\ map \in Maps /\ pc = "scan" /\ i = 1 /\ level = 0 /\ first = 0 /\ last = 0
    BY DEF BInit
  <2> QED BY <2>1, KeptInit DEF TypeInv
<1>2. Inv /\ [BNext]_bvars => Inv'
  <2> SUFFICES ASSUME Inv, [BNext]_bvars PROVE Inv'
    OBVIOUS
  <2>1. CASE BNext
    BY <2>1, TypeStep, KeptStep
  <2>2. CASE UNCHANGED bvars
    <3>1. /\ map' = map /\ pc' = pc /\ i' = i /\ low' = low /\ size' = size /\ tree' = tree
          /\ top' = top /\ level' = level /\ first' = first /\ last' = last
      BY <2>2 DEF bvars
    <3>2. /\ Leaves' = Leaves /\ End' = End /\ MaxLevel' = MaxLevel /\ Blocks' = Blocks
          /\ \A s : Blocked(s)' = Blocked(s)
      BY <3>1, SameArena DEF Blocked
    <3>3. TypeInv'
      BY <3>1 DEF TypeInv, Arena
    <3>4. TablesInv'
      BY <3>1, <3>2 DEF KeptInv, TablesInv, Laid
    <3>5. EndInv'
      BY <3>1, <3>2 DEF KeptInv, EndInv
    <3>6. ReservedInv'
      <4>1. \A k : Kept(map[k]) => Kept(map[k])'
        BY <3>1, <3>2, KeptStays
      <4> QED BY <3>1, <4>1 DEF KeptInv, ReservedInv
    <3>7. StraysOnlyAtEnd'
      BY <3>1, <3>2 DEF KeptInv, StraysOnlyAtEnd
    <3> QED BY <3>3, <3>4, <3>5, <3>6, <3>7 DEF KeptInv
  <2> QED BY <2>1, <2>2
<1>3. Inv => KeptOut
  <2> SUFFICES ASSUME Inv PROVE KeptOut
    OBVIOUS
  <2>1. ReservedKeptOut
    <3> SUFFICES ASSUME pc = "done", NEW k \in 1..Len(map), ~map[k].free,
                        NEW a \in map[k].base..(map[k].base + map[k].length - 1),
                        a \in low..(low + size - 1)
                 PROVE  Blocked((a - low) \div BlockSize)
      BY DEF ReservedKeptOut
    <3>1. i \in Nat /\ i > Len(map) /\ map \in Maps /\ Arena
      BY DEF KeptInv, ReservedInv, TypeInv
    <3>2. k < i
      BY <3>1, EntryType
    <3>3. Kept(map[k])
      BY <3>2 DEF KeptInv, ReservedInv
    <3>4. /\ a \in map[k].base..((map[k].base + map[k].length) - 1)
          /\ a \in low..((low + size) - 1)
      BY <3>1, EntryType DEF Arena
    <3> QED BY <3>3, <3>4 DEF Kept
  <2>2. ControlKeptOut
    BY DEF ControlKeptOut, KeptInv, TablesInv, EndInv
  <2>3. StraysOnlyAtEnd
    BY DEF KeptInv
  <2> QED BY <2>1, <2>2, <2>3 DEF KeptOut
<1> QED BY <1>1, <1>2, <1>3, PTL DEF BSpec

=============================================================================
