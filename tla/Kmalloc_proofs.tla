--------------------------- MODULE Kmalloc_proofs ---------------------------
(***************************************************************************)
(* The allocator's safety, for every height of the tree, every set of      *)
(* segments taken out at boot and every sequence of calls.                 *)
(***************************************************************************)
EXTENDS KmallocInv, WellFoundedInduction, TLAPS

(* The least-number principle for a set of naturals, from the fact that <  *)
(* is well founded: the inductions of the proofs rest on it.               *)
LEMMA LeastNatural ==
  ASSUME NEW S, S \subseteq Nat, S # {}
  PROVE  \E n \in S : \A k \in S : n <= k
<1> DEFINE R == OpToRel(<, Nat)
<1>1. IsWellFoundedOn(R, Nat)
  BY NatLessThanWellFounded, Zenon
<1>2. \A j, k \in Nat : <<j, k>> \in R <=> j < k
  BY DEF OpToRel
<1> HIDE DEF R
<1>3. PICK n \in S : \A k \in S : ~(<<k, n>> \in R)
  BY <1>1, WFMin, Zenon
<1>4. ASSUME NEW k \in S PROVE n <= k
  <2>1. k \in Nat /\ n \in Nat
    BY <1>3
  <2>2. ~(<<k, n>> \in R)
    BY <1>3
  <2>3. ~(k < n)
    BY <1>2, <2>1, <2>2, Zenon
  <2> QED BY <2>1, <2>3
<1> QED BY <1>3, <1>4

-----------------------------------------------------------------------------
(* The geometry of the tree: powers of two, and which nodes lie in which.  *)
(* Nothing here depends on the state.                                      *)

(* 2^0 = 1, and one level more doubles it (shl EDX, 1). *)
LEMMA PowStep ==
  /\ \A d \in 0..MaxLevel : Pow(d) \in Nat \ {0}
  /\ Pow(0) = 1
  /\ \A d \in 0..(MaxLevel - 1) : Pow(d + 1) = 2 * Pow(d)
<1>1. ASSUME NEW d \in 0..MaxLevel PROVE Pow(d) \in Nat \ {0}
  BY MaxLevelAssumption, WidthAssumption DEF Pow
<1>2. Pow(0) = 1
  BY MaxLevelAssumption, WidthAssumption DEF Pow
<1>3. ASSUME NEW d \in 0..(MaxLevel - 1) PROVE Pow(d + 1) = 2 * Pow(d)
  <2>1. MaxLevel - (d + 1) \in 0..(MaxLevel - 1)
    BY MaxLevelAssumption
  <2>2. (MaxLevel - (d + 1)) + 1 = MaxLevel - d
    BY MaxLevelAssumption
  <2> QED BY <2>1, <2>2, WidthAssumption DEF Pow
<1> QED BY <1>1, <1>2, <1>3

(* 2^(m + n) = 2^m * 2^n, by the least n that breaks it. *)
LEMMA PowProduct ==
  \A m, n \in 0..MaxLevel : m + n <= MaxLevel => Pow(m + n) = Pow(m) * Pow(n)
<1> SUFFICES ASSUME NEW m \in 0..MaxLevel
             PROVE  \A n \in 0..MaxLevel :
                      m + n <= MaxLevel => Pow(m + n) = Pow(m) * Pow(n)
  OBVIOUS
<1> DEFINE Bad == {n \in Nat : /\ n \in 0..MaxLevel /\ m + n <= MaxLevel
                               /\ Pow(m + n) # Pow(m) * Pow(n)}
<1> SUFFICES ASSUME Bad # {} PROVE FALSE
  BY MaxLevelAssumption
<1>1. PICK n \in Bad : \A k \in Bad : n <= k
  BY LeastNatural
<1>2. n # 0
  BY PowStep, MaxLevelAssumption
<1>3. n - 1 \in 0..(MaxLevel - 1) /\ m + (n - 1) \in 0..(MaxLevel - 1)
  BY <1>2, MaxLevelAssumption
<1>4. Pow(m + (n - 1)) = Pow(m) * Pow(n - 1)
  BY <1>1, <1>3, MaxLevelAssumption
<1>5. Pow(n) = 2 * Pow(n - 1)
  <2>1. (n - 1) + 1 = n
    OBVIOUS
  <2> QED BY <1>3, <2>1, PowStep
<1>6. Pow(m + n) = 2 * Pow(m + (n - 1))
  <2>1. (m + (n - 1)) + 1 = m + n
    OBVIOUS
  <2> QED BY <1>3, <2>1, PowStep
<1>7. Pow(m) \in Nat /\ Pow(n - 1) \in Nat
  BY <1>3, PowStep, MaxLevelAssumption
<1>8. Pow(m + n) = Pow(m) * Pow(n)
  BY <1>4, <1>5, <1>6, <1>7
<1> QED BY <1>1, <1>8

(* What a node is: a level and an index below the width of that level.     *)
LEMMA NodeType ==
  /\ \A x \in Node : /\ Lev(x) \in 0..MaxLevel /\ Idx(x) \in Nat
                     /\ Idx(x) < Width[Lev(x)]
                     /\ x = <<Lev(x), Idx(x)>>
  /\ \A l \in 0..MaxLevel, i \in Nat :
       i < Width[l] => <<l, i>> \in Node /\ Lev(<<l, i>>) = l /\ Idx(<<l, i>>) = i
<1>1. ASSUME NEW x \in Node
      PROVE  /\ Lev(x) \in 0..MaxLevel /\ Idx(x) \in Nat
             /\ Idx(x) < Width[Lev(x)]
             /\ x = <<Lev(x), Idx(x)>>
  BY WidthAssumption, MaxLevelAssumption DEF Node, Lev, Idx
<1>2. \A l \in 0..MaxLevel : Width[l] \in Nat /\ Width[l] <= Width[0]
  <2> DEFINE Bad == {l \in Nat : l <= MaxLevel /\ ~(Width[l] <= Width[0])}
  <2>1. \A l \in 0..MaxLevel : Width[l] \in Nat
    BY WidthAssumption
  <2> SUFFICES ASSUME Bad # {} PROVE FALSE
    BY <2>1
  <2>2. PICK l \in Bad : \A k \in Bad : l <= k
    BY LeastNatural
  <2>3. l # 0
    BY <2>1, <2>2, MaxLevelAssumption
  <2>4. l - 1 \in 0..(MaxLevel - 1) /\ (l - 1) + 1 = l
    BY <2>2, <2>3, MaxLevelAssumption
  <2>5. Width[l - 1] = 2 * Width[l]
    BY <2>4, WidthAssumption
  <2>6. Width[l - 1] <= Width[0]
    BY <2>2, <2>4, MaxLevelAssumption
  <2>7. Width[l] \in Nat /\ Width[l - 1] \in Nat /\ Width[0] \in Nat
    BY <2>1, <2>4, MaxLevelAssumption
  <2> QED BY <2>2, <2>5, <2>6, <2>7
<1>3. ASSUME NEW l \in 0..MaxLevel, NEW i \in Nat, i < Width[l]
      PROVE  <<l, i>> \in Node /\ Lev(<<l, i>>) = l /\ Idx(<<l, i>>) = i
  <2>1. i \in 0..(Width[0] - 1)
    BY <1>2, <1>3, MaxLevelAssumption
  <2> QED BY <1>3, <2>1 DEF Node, Lev, Idx
<1> QED BY <1>1, <1>3

(* The width of a level is the width of a higher one times a power of two. *)
LEMMA WidthPow ==
  \A l, k \in 0..MaxLevel : k <= l => Width[k] = Width[l] * Pow(l - k)
<1> SUFFICES ASSUME NEW l \in 0..MaxLevel, NEW k \in 0..MaxLevel, k <= l
             PROVE  Width[k] = Width[l] * Pow(l - k)
  OBVIOUS
<1>1. MaxLevel - l \in 0..MaxLevel /\ l - k \in 0..MaxLevel
  BY MaxLevelAssumption
<1>2. (MaxLevel - l) + (l - k) = MaxLevel - k /\ MaxLevel - k <= MaxLevel
  BY MaxLevelAssumption
<1>3. Pow(MaxLevel - k) = Pow(MaxLevel - l) * Pow(l - k)
  BY <1>1, <1>2, PowProduct
<1>4. Pow(MaxLevel - k) = Width[k] /\ Pow(MaxLevel - l) = Width[l]
  BY MaxLevelAssumption DEF Pow
<1> QED BY <1>3, <1>4

LEMMA InRefl == \A x \in Node : In(x, x)
<1> SUFFICES ASSUME NEW x \in Node PROVE In(x, x)
  OBVIOUS
<1>1. Lev(x) - Lev(x) = 0 /\ Lev(x) <= Lev(x) /\ Idx(x) \in Nat
  BY NodeType, MaxLevelAssumption
<1> QED BY <1>1, PowStep DEF In

(* Multiplication by a natural preserves <=. *)
LEMMA TimesMonotone ==
  \A a, b, c \in Nat : a <= b => a * c <= b * c
<1> SUFFICES ASSUME NEW a \in Nat, NEW b \in Nat, NEW c \in Nat, a <= b
             PROVE  a * c <= b * c
  OBVIOUS
<1>1. PICK d \in Nat : b = a + d
  <2>1. b - a \in Nat /\ b = a + (b - a)
    OBVIOUS
  <2> QED BY <2>1
<1>2. b * c = a * c + d * c
  BY <1>1
<1>3. d * c \in Nat /\ a * c \in Nat
  OBVIOUS
<1> QED BY <1>2, <1>3

LEMMA TimesCancels ==
  \A a, b, c \in Nat : a * c < b * c => a < b
<1> SUFFICES ASSUME NEW a \in Nat, NEW b \in Nat, NEW c \in Nat, b <= a
             PROVE  b * c <= a * c /\ b * c \in Nat /\ a * c \in Nat
  OBVIOUS
<1> QED BY TimesMonotone

(* A subtree of a subtree. *)
LEMMA InTrans ==
  \A x, y, z \in Node : In(x, y) /\ In(y, z) => In(x, z)
<1> SUFFICES ASSUME NEW x \in Node, NEW y \in Node, NEW z \in Node,
                    In(x, y), In(y, z)
             PROVE  In(x, z)
  OBVIOUS
<1> DEFINE P == Pow(Lev(y) - Lev(x))
           Q == Pow(Lev(z) - Lev(y))
<1>1. /\ Lev(x) \in 0..MaxLevel /\ Lev(y) \in 0..MaxLevel /\ Lev(z) \in 0..MaxLevel
      /\ Idx(x) \in Nat /\ Idx(y) \in Nat /\ Idx(z) \in Nat
  BY NodeType
<1>2. Lev(x) <= Lev(y) /\ Lev(y) <= Lev(z)
  BY DEF In
<1>3. P \in Nat /\ Q \in Nat /\ Pow(Lev(z) - Lev(x)) = Q * P
  <2>1. /\ Lev(y) - Lev(x) \in 0..MaxLevel /\ Lev(z) - Lev(y) \in 0..MaxLevel
        /\ (Lev(z) - Lev(y)) + (Lev(y) - Lev(x)) = Lev(z) - Lev(x)
        /\ Lev(z) - Lev(x) <= MaxLevel
    BY <1>1, <1>2, MaxLevelAssumption
  <2> QED BY <2>1, PowStep, PowProduct
<1>4. /\ Idx(y) * P <= Idx(x) /\ Idx(x) < (Idx(y) + 1) * P
      /\ Idx(z) * Q <= Idx(y) /\ Idx(y) < (Idx(z) + 1) * Q
  BY DEF In
<1> HIDE DEF P, Q
<1>5. (Idx(z) * Q) * P <= Idx(y) * P
  BY <1>1, <1>3, <1>4, TimesMonotone
<1>6. (Idx(y) + 1) * P <= ((Idx(z) + 1) * Q) * P
  <2>1. Idx(y) + 1 \in Nat /\ (Idx(z) + 1) * Q \in Nat
    BY <1>1, <1>3
  <2>2. Idx(y) + 1 <= (Idx(z) + 1) * Q
    BY <1>1, <1>4, <2>1
  <2> QED BY <1>3, <2>1, <2>2, TimesMonotone
<1>7. /\ Idx(z) * (Q * P) = (Idx(z) * Q) * P
      /\ (Idx(z) + 1) * (Q * P) = ((Idx(z) + 1) * Q) * P
  BY <1>1, <1>3
<1>8. /\ (Idx(z) * Q) * P \in Nat /\ Idx(y) * P \in Nat
      /\ (Idx(y) + 1) * P \in Nat /\ ((Idx(z) + 1) * Q) * P \in Nat
  BY <1>1, <1>3
<1>9. Idx(z) * (Q * P) <= Idx(x) /\ Idx(x) < (Idx(z) + 1) * (Q * P)
  BY <1>1, <1>4, <1>5, <1>6, <1>7, <1>8
<1> QED BY <1>1, <1>2, <1>3, <1>9 DEF In

(* Two subtrees with a node in common are nested. *)
LEMMA InNested ==
  \A x, y, z \in Node : In(z, x) /\ In(z, y) => In(x, y) \/ In(y, x)
<1>1. ASSUME NEW x \in Node, NEW y \in Node, NEW z \in Node,
             In(z, x), In(z, y), Lev(x) <= Lev(y)
      PROVE  In(x, y)
  <2> DEFINE P == Pow(Lev(x) - Lev(z))
             Q == Pow(Lev(y) - Lev(x))
  <2>1. /\ Lev(x) \in 0..MaxLevel /\ Lev(y) \in 0..MaxLevel /\ Lev(z) \in 0..MaxLevel
        /\ Idx(x) \in Nat /\ Idx(y) \in Nat /\ Idx(z) \in Nat
    BY NodeType
  <2>2. Lev(z) <= Lev(x) /\ Lev(z) <= Lev(y)
    BY <1>1 DEF In
  <2>3. P \in Nat /\ Q \in Nat /\ Pow(Lev(y) - Lev(z)) = Q * P
    <3>1. /\ Lev(y) - Lev(x) \in 0..MaxLevel /\ Lev(x) - Lev(z) \in 0..MaxLevel
          /\ (Lev(y) - Lev(x)) + (Lev(x) - Lev(z)) = Lev(y) - Lev(z)
          /\ Lev(y) - Lev(z) <= MaxLevel
      BY <1>1, <2>1, <2>2, MaxLevelAssumption
    <3> QED BY <3>1, PowStep, PowProduct
  <2>4. /\ Idx(x) * P <= Idx(z) /\ Idx(z) < (Idx(x) + 1) * P
        /\ Idx(y) * (Q * P) <= Idx(z) /\ Idx(z) < (Idx(y) + 1) * (Q * P)
    BY <1>1, <2>3 DEF In
  <2> HIDE DEF P, Q
  <2>5. /\ Idx(y) * (Q * P) = (Idx(y) * Q) * P
        /\ (Idx(y) + 1) * (Q * P) = ((Idx(y) + 1) * Q) * P
    BY <2>1, <2>3
  <2>6. /\ Idx(y) * Q \in Nat /\ (Idx(y) + 1) * Q \in Nat /\ Idx(x) + 1 \in Nat
    BY <2>1, <2>3
  <2>7. /\ (Idx(y) * Q) * P \in Nat /\ ((Idx(y) + 1) * Q) * P \in Nat
        /\ Idx(x) * P \in Nat /\ (Idx(x) + 1) * P \in Nat
    BY <2>1, <2>3, <2>6
  <2>8. /\ (Idx(y) * Q) * P < (Idx(x) + 1) * P
        /\ Idx(x) * P < ((Idx(y) + 1) * Q) * P
    BY <2>1, <2>4, <2>5, <2>7
  <2>9. Idx(y) * Q < Idx(x) + 1 /\ Idx(x) < (Idx(y) + 1) * Q
    BY <2>1, <2>3, <2>6, <2>8, TimesCancels
  <2>10. Idx(y) * Q <= Idx(x)
    BY <2>1, <2>6, <2>9
  <2> QED BY <1>1, <2>9, <2>10 DEF In, Q
<1>2. \A x, y \in Node : Lev(x) <= Lev(y) \/ Lev(y) <= Lev(x)
  BY NodeType, MaxLevelAssumption
<1> QED BY <1>1, <1>2

(* Nodes of one level do not nest, and nesting both ways is equality.      *)
LEMMA InSameLevel ==
  \A x, y \in Node : In(x, y) /\ Lev(x) >= Lev(y) => x = y
<1> SUFFICES ASSUME NEW x \in Node, NEW y \in Node, In(x, y), Lev(x) >= Lev(y)
             PROVE  x = y
  OBVIOUS
<1>1. /\ Lev(x) \in 0..MaxLevel /\ Lev(y) \in 0..MaxLevel
      /\ Idx(x) \in Nat /\ Idx(y) \in Nat
      /\ x = <<Lev(x), Idx(x)>> /\ y = <<Lev(y), Idx(y)>>
  BY NodeType
<1>2. Lev(x) = Lev(y)
  BY <1>1, MaxLevelAssumption DEF In
<1>3. Lev(y) - Lev(x) = 0
  BY <1>1, <1>2, MaxLevelAssumption
<1>4. Idx(y) * 1 <= Idx(x) /\ Idx(x) < (Idx(y) + 1) * 1
  BY <1>3, PowStep DEF In
<1>5. Idx(x) = Idx(y)
  BY <1>1, <1>4
<1> QED BY <1>1, <1>2, <1>5

(* The children of a node lie in it, one level down, and share what else   *)
(* lies in it (the two reads of buddify, the choice of allocate).          *)
LEMMA Children ==
  ASSUME NEW x \in Node, Lev(x) > 0
  PROVE  /\ LeftChild(x) \in Node /\ RightChild(x) \in Node
         /\ Lev(LeftChild(x)) = Lev(x) - 1 /\ Lev(RightChild(x)) = Lev(x) - 1
         /\ In(LeftChild(x), x) /\ In(RightChild(x), x)
         /\ \A y \in Node : In(y, x) /\ y # x
                             => In(y, LeftChild(x)) \/ In(y, RightChild(x))
<1>1. /\ Lev(x) \in 0..MaxLevel /\ Idx(x) \in Nat /\ Idx(x) < Width[Lev(x)]
  BY NodeType
<1>2. Lev(x) - 1 \in 0..(MaxLevel - 1) /\ (Lev(x) - 1) + 1 = Lev(x)
  BY <1>1, MaxLevelAssumption
<1>3. Width[Lev(x) - 1] = 2 * Width[Lev(x)] /\ Width[Lev(x)] \in Nat
  BY <1>1, <1>2, WidthAssumption
<1>4. /\ LeftChild(x) \in Node /\ RightChild(x) \in Node
      /\ Lev(LeftChild(x)) = Lev(x) - 1 /\ Lev(RightChild(x)) = Lev(x) - 1
      /\ Idx(LeftChild(x)) = 2 * Idx(x) /\ Idx(RightChild(x)) = 2 * Idx(x) + 1
  <2>1. /\ 2 * Idx(x) \in Nat /\ 2 * Idx(x) + 1 \in Nat
        /\ 2 * Idx(x) < Width[Lev(x) - 1] /\ 2 * Idx(x) + 1 < Width[Lev(x) - 1]
    BY <1>1, <1>3
  <2>2. Lev(x) - 1 \in 0..MaxLevel
    BY <1>2, MaxLevelAssumption
  <2> QED BY <2>1, <2>2, NodeType DEF LeftChild, RightChild
<1>5. Pow(1) = 2
  BY PowStep, MaxLevelAssumption
<1>6. In(LeftChild(x), x) /\ In(RightChild(x), x)
  <2>1. Lev(x) - (Lev(x) - 1) = 1 /\ Lev(x) - 1 <= Lev(x)
    BY <1>1, MaxLevelAssumption
  <2>2. /\ Idx(x) * 2 <= 2 * Idx(x) /\ 2 * Idx(x) < (Idx(x) + 1) * 2
        /\ Idx(x) * 2 <= 2 * Idx(x) + 1 /\ 2 * Idx(x) + 1 < (Idx(x) + 1) * 2
    BY <1>1
  <2> QED BY <1>4, <1>5, <2>1, <2>2 DEF In
<1>7. ASSUME NEW y \in Node, In(y, x), y # x
      PROVE  In(y, LeftChild(x)) \/ In(y, RightChild(x))
  <2>1. Lev(y) \in 0..MaxLevel /\ Idx(y) \in Nat
    BY NodeType
  <2>2. Lev(y) < Lev(x)
    BY <1>1, <1>7, <2>1, InSameLevel, MaxLevelAssumption
  <2> DEFINE d == Lev(x) - 1 - Lev(y)
             P == Pow(d)
  <2>3. d \in 0..(MaxLevel - 1) /\ Lev(x) - Lev(y) = d + 1
    BY <1>1, <2>1, <2>2, MaxLevelAssumption
  <2>4. P \in Nat /\ Pow(Lev(x) - Lev(y)) = 2 * P
    BY <2>3, PowStep, MaxLevelAssumption
  <2>5. Idx(x) * (2 * P) <= Idx(y) /\ Idx(y) < (Idx(x) + 1) * (2 * P)
    BY <1>7, <2>4 DEF In
  <2>6. Lev(y) <= Lev(x) - 1
    BY <1>1, <2>1, <2>2, MaxLevelAssumption
  <2> HIDE DEF P
  <2>7. \/ (2 * Idx(x)) * P <= Idx(y) /\ Idx(y) < (2 * Idx(x) + 1) * P
        \/ (2 * Idx(x) + 1) * P <= Idx(y) /\ Idx(y) < (2 * Idx(x) + 1 + 1) * P
    BY <1>1, <2>1, <2>4, <2>5
  <2> QED BY <1>4, <2>6, <2>7 DEF In, P
<1> QED BY <1>4, <1>6, <1>7

(* A node below the root is a child of its parent, and what holds it       *)
(* strictly holds its parent (the step of full_buddify and of the climbs). *)
LEMMA ParentFacts ==
  ASSUME NEW x \in Node, Lev(x) < MaxLevel
  PROVE  /\ Parent(x) \in Node /\ Lev(Parent(x)) = Lev(x) + 1
         /\ x = LeftChild(Parent(x)) \/ x = RightChild(Parent(x))
         /\ In(x, Parent(x))
         /\ \A y \in Node : In(x, y) /\ x # y => In(Parent(x), y)
<1>1. /\ Lev(x) \in 0..MaxLevel /\ Idx(x) \in Nat /\ Idx(x) < Width[Lev(x)]
      /\ x = <<Lev(x), Idx(x)>>
  BY NodeType
<1>2. Lev(x) \in 0..(MaxLevel - 1) /\ Lev(x) + 1 \in 0..MaxLevel
  BY <1>1, MaxLevelAssumption
<1>3. Width[Lev(x)] = 2 * Width[Lev(x) + 1] /\ Width[Lev(x) + 1] \in Nat
  BY <1>2, WidthAssumption
<1>4. /\ Idx(x) \div 2 \in Nat
      /\ Idx(x) = 2 * (Idx(x) \div 2) \/ Idx(x) = 2 * (Idx(x) \div 2) + 1
      /\ Idx(x) \div 2 < Width[Lev(x) + 1]
  BY <1>1, <1>3
<1>5. /\ Parent(x) \in Node /\ Lev(Parent(x)) = Lev(x) + 1
      /\ Idx(Parent(x)) = Idx(x) \div 2
  BY <1>2, <1>4, NodeType DEF Parent
<1>6. x = LeftChild(Parent(x)) \/ x = RightChild(Parent(x))
  <2>1. Lev(Parent(x)) - 1 = Lev(x)
    BY <1>1, <1>5, MaxLevelAssumption
  <2> QED BY <1>1, <1>4, <1>5, <2>1 DEF LeftChild, RightChild
<1>7. Lev(Parent(x)) > 0
  BY <1>1, <1>5, MaxLevelAssumption
<1>8. In(x, Parent(x))
  BY <1>5, <1>6, <1>7, Children
<1>9. ASSUME NEW y \in Node, In(x, y), x # y
      PROVE  In(Parent(x), y)
  <2>1. In(Parent(x), y) \/ In(y, Parent(x))
    BY <1>5, <1>8, <1>9, InNested
  <2>2. Lev(x) < Lev(y)
    <3>1. Lev(y) \in 0..MaxLevel
      BY NodeType
    <3> QED BY <1>1, <1>9, <3>1, InSameLevel, MaxLevelAssumption
  <2>3. CASE In(y, Parent(x))
    <3>1. Lev(y) >= Lev(Parent(x)) /\ Lev(y) \in 0..MaxLevel
      BY <1>1, <1>5, <2>2, NodeType, MaxLevelAssumption
    <3>2. y = Parent(x)
      BY <1>5, <2>3, <3>1, InSameLevel
    <3> QED BY <1>5, <3>2, InRefl
  <2> QED BY <2>1, <2>3
<1> QED BY <1>5, <1>6, <1>8, <1>9

(* Every node lies in the root. *)
LEMMA RootFacts ==
  /\ Root \in Node /\ Lev(Root) = MaxLevel
  /\ \A x \in Node : In(x, Root)
  /\ \A x \in Node : Lev(x) = MaxLevel => x = Root
<1>1. /\ Root \in Node /\ Lev(Root) = MaxLevel /\ Idx(Root) = 0
  BY MaxLevelAssumption, WidthAssumption, NodeType DEF Root
<1>2. ASSUME NEW x \in Node PROVE In(x, Root)
  <2>1. Lev(x) \in 0..MaxLevel /\ Idx(x) \in Nat /\ Idx(x) < Width[Lev(x)]
    BY NodeType
  <2>2. Pow(MaxLevel - Lev(x)) = Width[Lev(x)] /\ Width[Lev(x)] \in Nat
    BY <2>1, WidthAssumption, MaxLevelAssumption DEF Pow
  <2>3. 0 * Width[Lev(x)] = 0 /\ (0 + 1) * Width[Lev(x)] = Width[Lev(x)]
    BY <2>2
  <2> QED BY <1>1, <2>1, <2>2, <2>3, MaxLevelAssumption DEF In
<1>3. ASSUME NEW x \in Node, Lev(x) = MaxLevel PROVE x = Root
  <2>1. Lev(x) >= Lev(Root)
    BY <1>1, <1>3, MaxLevelAssumption
  <2> QED BY <1>1, <1>2, <2>1, InSameLevel
<1> QED BY <1>1, <1>2, <1>3

(* A node has a descendant on every level below it. *)
LEMMA Descendant ==
  ASSUME NEW x \in Node, NEW k \in 0..Lev(x)
  PROVE  \E y \in Node : Lev(y) = k /\ In(y, x)
<1> DEFINE P == Pow(Lev(x) - k)
           y == <<k, Idx(x) * P>>
<1>1. /\ Lev(x) \in 0..MaxLevel /\ Idx(x) \in Nat /\ Idx(x) < Width[Lev(x)]
  BY NodeType
<1>2. k \in 0..MaxLevel /\ k <= Lev(x) /\ Lev(x) - k \in 0..MaxLevel
  BY <1>1, MaxLevelAssumption
<1>3. P \in Nat \ {0} /\ Width[k] = Width[Lev(x)] * P /\ Width[Lev(x)] \in Nat
  BY <1>1, <1>2, PowStep, WidthPow, WidthAssumption
<1> HIDE DEF P
<1>4. (Idx(x) + 1) * P = Idx(x) * P + P /\ Idx(x) * P \in Nat
  BY <1>1, <1>3
<1>5. (Idx(x) + 1) * P <= Width[Lev(x)] * P
  BY <1>1, <1>3, TimesMonotone
<1>6. Idx(x) * P < Width[k]
  <2>1. Width[Lev(x)] * P \in Nat
    BY <1>3
  <2> QED BY <1>3, <1>4, <1>5, <2>1
<1>7. y \in Node /\ Lev(y) = k /\ Idx(y) = Idx(x) * P
  BY <1>2, <1>4, <1>6, NodeType
<1>8. Idx(x) * P < (Idx(x) + 1) * P
  BY <1>3, <1>4
<1>9. In(y, x)
  BY <1>2, <1>4, <1>7, <1>8 DEF In, P
<1> QED BY <1>7, <1>9

(* The leaf of a segment, its ancestors (shr EAX, CL) and the first        *)
(* segment of a node (shl EAX, CL).                                        *)
LEMMA LeafFacts ==
  \A s \in Segment : Leaf(s) \in Node /\ Lev(Leaf(s)) = 0 /\ Idx(Leaf(s)) = s
<1> SUFFICES ASSUME NEW s \in Segment
             PROVE  Leaf(s) \in Node /\ Lev(Leaf(s)) = 0 /\ Idx(Leaf(s)) = s
  OBVIOUS
<1>1. s \in Nat /\ s < Width[0] /\ 0 \in 0..MaxLevel
  BY WidthAssumption, MaxLevelAssumption DEF Segment
<1> QED BY <1>1, NodeType DEF Leaf

LEMMA LeafOfNode ==
  \A x \in Node : Lev(x) = 0 => Idx(x) \in Segment /\ x = Leaf(Idx(x))
BY NodeType, WidthAssumption, MaxLevelAssumption DEF Leaf, Segment

LEMMA FirstSegmentFacts ==
  ASSUME NEW x \in Node
  PROVE  FirstSegment(x) \in Segments(x) /\ FirstSegment(x) \in Segment
<1>1. Lev(x) \in 0..MaxLevel /\ Idx(x) \in Nat /\ Idx(x) < Width[Lev(x)]
  BY NodeType
<1>2. /\ Pow(Lev(x)) \in Nat \ {0} /\ Width[Lev(x)] \in Nat
      /\ Width[0] = Width[Lev(x)] * Pow(Lev(x))
  <2>1. 0 \in 0..MaxLevel /\ 0 <= Lev(x) /\ Lev(x) - 0 = Lev(x)
    BY <1>1, MaxLevelAssumption
  <2> QED BY <1>1, <2>1, PowStep, WidthPow, WidthAssumption
<1> DEFINE P == Pow(Lev(x))
<1> HIDE DEF P
<1>3. /\ (Idx(x) + 1) * P = Idx(x) * P + P /\ Idx(x) * P \in Nat
      /\ Width[Lev(x)] * P \in Nat
  BY <1>1, <1>2 DEF P
<1>4. (Idx(x) + 1) * P <= Width[Lev(x)] * P
  BY <1>1, <1>2, TimesMonotone DEF P
<1>5. FirstSegment(x) = Idx(x) * P
  BY DEF FirstSegment, P
<1>6. FirstSegment(x) \in Segment
  BY <1>2, <1>3, <1>4, <1>5 DEF Segment, P
<1>7. Lev(x) - 0 = Lev(x) /\ 0 <= Lev(x)
  BY <1>1, MaxLevelAssumption
<1>8. In(Leaf(FirstSegment(x)), x)
  BY <1>2, <1>3, <1>5, <1>6, <1>7, LeafFacts DEF In, P
<1> QED BY <1>6, <1>8 DEF Segments

LEMMA AncestorFacts ==
  ASSUME NEW s \in Segment, NEW l \in 0..MaxLevel
  PROVE  /\ Ancestor(s, l) \in Node /\ Lev(Ancestor(s, l)) = l
         /\ In(Leaf(s), Ancestor(s, l))
<1> DEFINE P == Pow(l)
           q == s \div P
<1>1. /\ P \in Nat \ {0} /\ Width[l] \in Nat /\ Width[0] = Width[l] * P
  <2>1. 0 \in 0..MaxLevel /\ 0 <= l /\ l - 0 = l
    BY MaxLevelAssumption
  <2> QED BY <2>1, PowStep, WidthPow, WidthAssumption
<1>2. s \in Nat /\ s < Width[0]
  BY WidthAssumption, MaxLevelAssumption DEF Segment
<1> HIDE DEF P
<1>3. q \in Nat /\ q * P <= s /\ s < (q + 1) * P
  BY <1>1, <1>2
<1> HIDE DEF q
<1>4. q < Width[l]
  <2>1. q * P < Width[l] * P
    <3>1. q * P \in Nat
      BY <1>1, <1>3
    <3> QED BY <1>1, <1>2, <1>3, <3>1
  <2> QED BY <1>1, <1>3, <2>1, TimesCancels
<1>5. Ancestor(s, l) \in Node /\ Lev(Ancestor(s, l)) = l /\ Idx(Ancestor(s, l)) = q
  BY <1>3, <1>4, NodeType DEF Ancestor, P, q
<1>6. l - 0 = l /\ 0 <= l
  BY MaxLevelAssumption
<1>7. In(Leaf(s), Ancestor(s, l))
  BY <1>3, <1>5, <1>6, LeafFacts DEF In, P
<1> QED BY <1>5, <1>7

(* An area's segments are 2^level in a row. *)
LEMMA SegmentsAre ==
  ASSUME NEW x \in Node
  PROVE  /\ Segments(x) = FirstSegment(x) .. (FirstSegment(x) + Pow(Lev(x)) - 1)
         /\ Pow(Lev(x)) \in Nat
<1>1. Lev(x) \in 0..MaxLevel /\ Idx(x) \in Nat /\ Idx(x) < Width[Lev(x)]
  BY NodeType
<1>2. /\ Pow(Lev(x)) \in Nat \ {0} /\ Width[Lev(x)] \in Nat /\ Width[0] \in Nat
      /\ Width[0] = Width[Lev(x)] * Pow(Lev(x))
  <2>1. 0 \in 0..MaxLevel /\ 0 <= Lev(x) /\ Lev(x) - 0 = Lev(x)
    BY <1>1, MaxLevelAssumption
  <2> QED BY <1>1, <2>1, PowStep, WidthPow, WidthAssumption
<1> DEFINE P == Pow(Lev(x))
           f == FirstSegment(x)
<1>3. f = Idx(x) * P
  BY DEF FirstSegment
<1> HIDE DEF P, f
<1>4. (Idx(x) + 1) * P = Idx(x) * P + P /\ f \in Nat
  BY <1>1, <1>2, <1>3 DEF P
<1>5. (Idx(x) + 1) * P <= Width[0]
  BY <1>1, <1>2, TimesMonotone DEF P
<1>6. Lev(x) - 0 = Lev(x) /\ 0 <= Lev(x)
  BY <1>1, MaxLevelAssumption
<1>7. \A s \in Segment : In(Leaf(s), x) <=> f <= s /\ s < f + P
  BY <1>2, <1>3, <1>4, <1>6, LeafFacts DEF In, P
<1>8. \A s : s \in f .. (f + P - 1) => s \in Segment
  BY <1>2, <1>3, <1>4, <1>5 DEF P, Segment
<1>9. \A s \in Segment : s \in f .. (f + P - 1) <=> f <= s /\ s < f + P
  BY <1>2, <1>4 DEF P, Segment
<1>10. Segments(x) = f .. (f + P - 1)
  BY <1>7, <1>8, <1>9 DEF Segments
<1> QED BY <1>2, <1>10 DEF f, P

(* Wider levels have wider areas. *)
LEMMA PowMonotone ==
  \A m, n \in 0..MaxLevel : m <= n => Pow(m) <= Pow(n)
<1> SUFFICES ASSUME NEW m \in 0..MaxLevel, NEW n \in 0..MaxLevel, m <= n
             PROVE  Pow(m) <= Pow(n)
  OBVIOUS
<1>1. n - m \in 0..MaxLevel /\ m + (n - m) = n
  BY MaxLevelAssumption
<1>2. Pow(n) = Pow(m) * Pow(n - m)
  BY <1>1, PowProduct, MaxLevelAssumption
<1>3. Pow(m) \in Nat /\ Pow(n - m) \in Nat /\ 1 <= Pow(n - m)
  BY <1>1, PowStep
<1>4. 1 * Pow(m) <= Pow(n - m) * Pow(m)
  BY <1>3, TimesMonotone
<1> HIDE DEF Pow
<1> QED BY <1>2, <1>3, <1>4

-----------------------------------------------------------------------------
(* Types. *)

(* buddify's value has the bits of the node's own level at most. *)
LEMMA CombineType ==
  ASSUME NEW x \in Node, Lev(x) > 0,
         NEW l, l \subseteq 0..(Lev(x) - 1), NEW r
  PROVE  Combine(x, l, r) \subseteq 0..Lev(x)
<1>1. Lev(x) \in 0..MaxLevel
  BY NodeType
<1>2. ASSUME NEW k \in Combine(x, l, r) PROVE k \in 0..Lev(x)
  <2>1. k \in 0..(Lev(x) - 1) \/ k = Lev(x)
    BY <1>2 DEF Combine
  <2> QED BY <1>1, <2>1, MaxLevelAssumption
<1> QED BY <1>2

(* The registers and the tree keep their types through every step of       *)
(* kmalloc, kfree, krealloc and kmsz.                                      *)
THEOREM TypeCorrect == Spec => []TypeOK
<1>1. Init => TypeOK
  <2> SUFFICES ASSUME Init PROVE TypeOK
    OBVIOUS
  <2>1. ASSUME NEW x \in Node PROVE Lev(x) \in Nat
    BY NodeType, MaxLevelAssumption
  <2>2. tree \in [Node -> SUBSET Nat] /\ \A x \in Node : tree[x] \subseteq 0..Lev(x)
    BY <2>1, MaxLevelAssumption DEF Init, TreeOver
  <2>3. 0 \in Segment
    BY WidthAssumption, MaxLevelAssumption DEF Segment
  <2> QED BY <2>2, <2>3, RootFacts, MaxLevelAssumption DEF Init, TypeOK, Points
<1>2. TypeOK /\ [Next]_vars => TypeOK'
  <2> SUFFICES ASSUME TypeOK, [Next]_vars PROVE TypeOK'
    OBVIOUS
  <2> USE DEF TypeOK, args
  <2>0. /\ Root \in Node /\ 0 \in Segment /\ 0 \in 0..MaxLevel
        /\ \A s \in Segment : Leaf(s) \in Node
        /\ \A x \in Node : Lev(x) \in 0..MaxLevel
    BY RootFacts, LeafFacts, NodeType, WidthAssumption, MaxLevelAssumption
       DEF Segment
  <2>1. CASE UNCHANGED vars
    BY <2>1 DEF vars
  <2>2. ASSUME NEW n \in Requests, Kmalloc(n) PROVE TypeOK'
    BY <2>0, <2>2, RequestsAssumption DEF Kmalloc, Enter, Points
  <2>3. ASSUME NEW b \in blocks, NEW s \in Segment, Kfree(b, s) PROVE TypeOK'
    BY <2>0, <2>3 DEF Kfree, Enter, Points
  <2>4. ASSUME NEW b \in blocks, NEW s \in Segment, Kmsz(b, s) PROVE TypeOK'
    BY <2>0, <2>4 DEF Kmsz, Enter, Points
  <2>5. ASSUME NEW b \in blocks, NEW n \in Requests, Krealloc(b, n) PROVE TypeOK'
    <3>1. FirstSegment(b) \in Segment
      BY FirstSegmentFacts
    <3> QED BY <2>0, <2>5, <3>1, RequestsAssumption DEF Krealloc, Enter, Points
  <2>6. CASE ReadRoot
    BY <2>0, <2>6 DEF ReadRoot, Points
  <2>7. CASE Descend
    <3>1. Lev(cur) # 0 => LeftChild(cur) \in Node /\ RightChild(cur) \in Node
      BY <2>0, Children, MaxLevelAssumption
    <3> QED BY <2>7, <3>1 DEF Descend, Points
  <2>8. CASE Mark
    <3>1. FirstSegment(cur) \in Segment
      BY FirstSegmentFacts
    <3>2. Ones(cur) \in SUBSET Nat /\ Ones(cur) \subseteq 0..Lev(cur)
      BY <2>0, MaxLevelAssumption DEF Ones
    <3> QED BY <2>8, <3>1, <3>2 DEF Mark, Points
  <2>9. CASE ClearLeaf
    BY <2>0, <2>9 DEF ClearLeaf, Points
  <2>10. CASE Buddify
    <3>1. CASE Lev(cur) = MaxLevel
      BY <2>10, <3>1 DEF Buddify, Points
    <3>2. CASE Lev(cur) # MaxLevel
      <4> DEFINE p == Parent(cur)
                 v == Combine(p, tree[LeftChild(p)], tree[RightChild(p)])
      <4>1. Lev(cur) < MaxLevel
        BY <2>0, <3>2, MaxLevelAssumption
      <4>2. p \in Node /\ Lev(p) > 0
        BY <2>0, <4>1, ParentFacts, MaxLevelAssumption
      <4>3. LeftChild(p) \in Node /\ Lev(LeftChild(p)) = Lev(p) - 1
        BY <4>2, Children
      <4>4. tree[LeftChild(p)] \subseteq 0..(Lev(p) - 1)
        BY <4>3
      <4>5. v \subseteq 0..Lev(p)
        BY <4>2, <4>4, CombineType
      <4>6. v \in SUBSET Nat
        BY <2>0, <4>2, <4>5, MaxLevelAssumption
      <4>7. /\ tree' = [tree EXCEPT ![p] = v]
            /\ cur' = p /\ pc' \in {back, "up"}
            /\ UNCHANGED <<reserved, blocks, args, lvl, ret, back>>
        BY <2>10, <3>2 DEF Buddify
      <4> HIDE DEF p, v
      <4> QED BY <4>2, <4>5, <4>6, <4>7 DEF Points
    <3> QED BY <3>1, <3>2
  <2>11. CASE Climb
    <3>1. Lev(cur) # MaxLevel => Parent(cur) \in Node
      BY <2>0, ParentFacts, MaxLevelAssumption
    <3> QED BY <2>11, <3>1 DEF Climb, Points
  <2>12. CASE ClimbEnds
    BY <2>0, <2>12 DEF ClimbEnds, Points
  <2>13. CASE Probe
    <3>1. ~(need > MaxLevel) => Ancestor(seg, need) \in Node
      BY AncestorFacts, MaxLevelAssumption
    <3> QED BY <2>13, <3>1 DEF Probe, Points
  <2>14. CASE Move
    BY <2>14 DEF Move, Points
  <2>15. CASE Return
    BY <2>0, <2>15 DEF Return, Points
  <2> QED BY <2>1, <2>2, <2>3, <2>4, <2>5, <2>6, <2>7, <2>8, <2>9, <2>10,
             <2>11, <2>12, <2>13, <2>14, <2>15 DEF Next, Call, Step
<1> QED BY <1>1, <1>2, PTL DEF Spec

-----------------------------------------------------------------------------
(* Areas in use. *)

LEMMA TakenNodes == TypeOK => Taken \subseteq Node
<1> SUFFICES ASSUME TypeOK PROVE Taken \subseteq Node
  OBVIOUS
<1>1. blocks \subseteq Node /\ reserved \subseteq Segment
  BY ReservedAssumption DEF TypeOK
<1> QED BY <1>1, LeafFacts DEF Taken

LEMMA SegmentOfLeaf ==
  \A s \in Segment : Segments(Leaf(s)) = {s}
<1> SUFFICES ASSUME NEW s \in Segment PROVE Segments(Leaf(s)) = {s}
  OBVIOUS
<1>1. s \in Segments(Leaf(s))
  BY LeafFacts, InRefl DEF Segments
<1>2. ASSUME NEW t \in Segments(Leaf(s)) PROVE t = s
  <2>1. t \in Segment /\ In(Leaf(t), Leaf(s))
    BY DEF Segments
  <2>2. Leaf(t) = Leaf(s)
    BY <2>1, LeafFacts, InSameLevel
  <2> QED BY <2>2 DEF Leaf
<1> QED BY <1>1, <1>2

(* No segment lies in two of them, callers' areas and boot's alike. *)
LEMMA TakenDisjoint ==
  TypeOK /\ NoOverlap
    => \A b, c \in Taken : \A s \in Segments(b) \cap Segments(c) : b = c
<1> SUFFICES ASSUME TypeOK, NoOverlap, NEW b \in Taken, NEW c \in Taken,
                    NEW s \in Segments(b) \cap Segments(c)
             PROVE  b = c
  OBVIOUS
<1>1. reserved \subseteq Segment
  BY ReservedAssumption DEF TypeOK
<1>2. CASE b \in blocks /\ c \in blocks
  BY <1>2 DEF NoOverlap
<1>3. ASSUME NEW t \in reserved, b = Leaf(t), c \in blocks PROVE FALSE
  BY <1>1, <1>3, SegmentOfLeaf DEF NoOverlap
<1>4. ASSUME NEW t \in reserved, c = Leaf(t), b \in blocks PROVE FALSE
  BY <1>1, <1>4, SegmentOfLeaf DEF NoOverlap
<1>5. ASSUME NEW t \in reserved, NEW u \in reserved, b = Leaf(t), c = Leaf(u)
      PROVE  b = c
  BY <1>1, <1>5, SegmentOfLeaf
<1> QED BY <1>2, <1>3, <1>4, <1>5 DEF Taken

(* Boot's segments keep the root from ever reading as empty. *)
LEMMA RootNotEmpty ==
  TypeOK /\ TreeInv /\ pc # "up" => tree[Root] # {}
<1> SUFFICES ASSUME TypeOK, TreeInv, pc # "up" PROVE tree[Root] # {}
  OBVIOUS
<1>1. PICK s \in reserved : s \in Segment
  BY ReservedAssumption DEF TypeOK
<1>2. Leaf(s) \in Taken /\ Leaf(s) \in Node /\ In(Leaf(s), Root) /\ Root \in Node
  BY <1>1, LeafFacts, RootFacts DEF Taken
<1>3. ~Stale(Root)
  BY DEF Stale
<1> QED BY <1>2, <1>3 DEF TreeInv, TakenIsSeen

-----------------------------------------------------------------------------
(* The tree kset and kmres leave behind. *)

LEMMA InitTreeInv == Init => TreeInv
<1> SUFFICES ASSUME Init PROVE TreeInv
  OBVIOUS
<1> DEFINE Hit(y) == \E s \in reserved : In(Leaf(s), y)
<1>0. /\ reserved \subseteq Segment /\ blocks = {} /\ pc = "idle"
      /\ Taken = {Leaf(s) : s \in reserved}
  BY ReservedAssumption DEF Init, Taken
<1>1. ASSUME NEW x \in Node
      PROVE  tree[x] = {k \in 0..Lev(x) :
                          \A y \in Node : Lev(y) = k /\ In(y, x) => Hit(y)}
  BY DEF Init, TreeOver
<1>2. \A x \in Node : ~Stale(x)
  BY <1>0 DEF Stale
<1>3. \A x \in Node : Lev(x) \in Nat
  BY NodeType, MaxLevelAssumption
<1>4. \A x, y \in Node : Hit(y) /\ In(y, x) => Hit(x)
  BY <1>0, LeafFacts, InTrans
<1>5. \A x \in Node : Hit(x) <=> Lev(x) \in tree[x]
  <2> SUFFICES ASSUME NEW x \in Node PROVE Hit(x) <=> Lev(x) \in tree[x]
    OBVIOUS
  <2>1. \A y \in Node : Lev(y) = Lev(x) /\ In(y, x) => y = x
    BY <1>3, InSameLevel
  <2>2. Lev(x) \in 0..Lev(x) /\ In(x, x)
    BY <1>3, InRefl
  <2> HIDE DEF Hit
  <2> QED BY <1>1, <2>1, <2>2
<1> HIDE DEF Hit
<1>6. \A x \in Node : tree[x] # {} => Hit(x)
  <2> SUFFICES ASSUME NEW x \in Node, NEW k \in tree[x] PROVE Hit(x)
    OBVIOUS
  <2>1. k \in 0..Lev(x) /\ \A y \in Node : Lev(y) = k /\ In(y, x) => Hit(y)
    BY <1>1
  <2>2. \E y \in Node : Lev(y) = k /\ In(y, x)
    BY <2>1, Descendant
  <2> QED BY <1>4, <2>1, <2>2
<1>7. NoOverlap
  BY <1>0 DEF NoOverlap
<1>8. TakenIsFull
  <2> SUFFICES ASSUME NEW s \in reserved PROVE tree[Leaf(s)] = Ones(Leaf(s))
    BY <1>0 DEF TakenIsFull
  <2>1. Leaf(s) \in Node /\ Lev(Leaf(s)) = 0 /\ In(Leaf(s), Leaf(s))
    BY <1>0, LeafFacts, InRefl
  <2>2. Lev(Leaf(s)) \in tree[Leaf(s)]
    BY <1>5, <2>1 DEF Hit
  <2>3. tree[Leaf(s)] \subseteq 0..0
    BY <1>1, <2>1
  <2> QED BY <2>1, <2>2, <2>3 DEF Ones
<1>9. TakenIsHollow
  <2> SUFFICES ASSUME NEW s \in reserved, NEW y \in Node, In(y, Leaf(s))
               PROVE  y = Leaf(s)
    BY <1>0 DEF TakenIsHollow
  <2> QED BY <1>0, <1>3, LeafFacts, InSameLevel
<1>10. TakenIsSeen
  BY <1>0, <1>5 DEF TakenIsSeen, Hit
<1>11. EmptyBelow
  BY <1>4, <1>5, <1>6 DEF EmptyBelow
<1>12. TopBit
  BY <1>5, <1>6 DEF TopBit
<1>13. Combined
  <2> SUFFICES ASSUME NEW x \in Node, Lev(x) > 0
               PROVE  tree[x] = Combine(x, tree[LeftChild(x)], tree[RightChild(x)])
    BY DEF Combined
  <2> DEFINE l == LeftChild(x)
             r == RightChild(x)
  <2>1. /\ l \in Node /\ r \in Node /\ Lev(l) = Lev(x) - 1 /\ Lev(r) = Lev(x) - 1
        /\ In(l, x) /\ In(r, x)
        /\ \A y \in Node : In(y, x) /\ y # x => In(y, l) \/ In(y, r)
    BY Children
  <2> HIDE DEF l, r
  <2>2. ASSUME NEW k \in 0..(Lev(x) - 1)
        PROVE  k \in tree[x] <=> k \in tree[l] \cap tree[r]
    <3>1. k \in 0..Lev(x) /\ k \in 0..Lev(l) /\ k \in 0..Lev(r) /\ k # Lev(x)
      BY <1>3, <2>1
    <3>2. \A y \in Node : Lev(y) = k
                => (In(y, x) <=> In(y, l) \/ In(y, r))
      BY <2>1, <3>1, InTrans
    <3> QED BY <1>1, <2>1, <3>1, <3>2
  <2>3. Lev(x) \in tree[x] <=> Lev(x) - 1 \in tree[l] \cup tree[r]
    <3>1. Hit(x) <=> Hit(l) \/ Hit(r)
      <4>1. ASSUME NEW s \in reserved, In(Leaf(s), x) PROVE Hit(l) \/ Hit(r)
        <5>1. Leaf(s) \in Node /\ Leaf(s) # x
          BY <1>0, LeafFacts
        <5> QED BY <2>1, <4>1, <5>1 DEF Hit
      <4> QED BY <1>4, <2>1, <4>1 DEF Hit
    <3> QED BY <1>5, <2>1, <3>1
  <2>4. tree[x] \subseteq 0..Lev(x) /\ tree[l] \subseteq 0..(Lev(x) - 1)
    BY <1>1, <2>1
  <2>5. \A k \in 0..Lev(x) : k \in 0..(Lev(x) - 1) \/ k = Lev(x)
    BY <1>3
  <2>6. Lev(x) \notin tree[l]
    BY <1>3, <2>4
  <2>7. \A k : k \in tree[x] <=> k \in Combine(x, tree[l], tree[r])
    BY <2>2, <2>3, <2>4, <2>5, <2>6 DEF Combine
  <2> QED BY <2>7 DEF l, r
<1>14. BitsAreDue
  <2> SUFFICES ASSUME NEW x \in Node, NEW y \in Node,
                      Lev(y) \in tree[x], In(y, x)
               PROVE  \E b \in Taken : Overlap(y, b)
    BY DEF BitsAreDue
  <2>1. Hit(y)
    BY <1>1
  <2> QED BY <1>0, <2>1 DEF Hit, Overlap
<1> QED BY <1>7, <1>8, <1>9, <1>10, <1>11, <1>12, <1>13, <1>14 DEF TreeInv

-----------------------------------------------------------------------------
(* The three steps that write the tree, and the rest. *)

(* What allocate finds is free: it neither holds nor lies in an area in    *)
(* use.                                                                    *)
LEMMA MarkedIsFree ==
  ASSUME TypeOK, TreeInv, PointInv, pc = "mark", NEW b \in Taken
  PROVE  ~In(b, cur) /\ ~In(cur, b) /\ Segments(b) \cap Segments(cur) = {}
<1>1. cur \in Node /\ b \in Node /\ tree[cur] = {} /\ ~In(cur, b)
  BY TakenNodes DEF PointInv, AtMark, TypeOK
<1>2. ~In(b, cur)
  <2>1. ~Stale(cur)
    BY DEF Stale
  <2> QED BY <1>1, <2>1 DEF TreeInv, TakenIsSeen
<1>3. ASSUME NEW s \in Segments(b) \cap Segments(cur) PROVE FALSE
  <2>1. Leaf(s) \in Node /\ In(Leaf(s), b) /\ In(Leaf(s), cur)
    BY LeafFacts DEF Segments
  <2> QED BY <1>1, <1>2, <2>1, InNested
<1> QED BY <1>1, <1>2, <1>3

LEMMA MarkTreeInv ==
  TypeOK /\ TreeInv /\ PointInv /\ Mark => TreeInv'
<1> SUFFICES ASSUME TypeOK, TreeInv, PointInv, Mark PROVE TreeInv'
  OBVIOUS
<1> DEFINE c == cur
<1>0. /\ pc = "mark" /\ tree[c] = {} /\ c \in Node /\ Lev(c) \in 0..MaxLevel
      /\ \A b \in Taken : ~In(c, b)
      /\ Taken \subseteq Node
  BY TakenNodes, NodeType DEF PointInv, AtMark, Mark, TypeOK
<1>1. /\ tree' = [tree EXCEPT ![c] = Ones(c)] /\ tree'[c] = Ones(c)
      /\ \A x \in Node : x # c => tree'[x] = tree[x]
      /\ blocks' = blocks \cup {c} /\ Taken' = Taken \cup {c}
      /\ reserved' = reserved /\ pc' = "up" /\ cur' = c
  BY <1>0 DEF Mark, TypeOK, Taken
<1> HIDE DEF c
<1>2. \A x : ~Stale(x)
  BY <1>0 DEF Stale
<1>3. \A x : Stale(x)' <=> x # c /\ In(c, x)
  BY <1>1 DEF Stale
<1>4. \A b \in Taken : ~In(b, c) /\ Segments(b) \cap Segments(c) = {}
  BY <1>0, MarkedIsFree DEF c
<1>5. Lev(c) \in Ones(c) /\ Ones(c) # {}
  BY <1>0, MaxLevelAssumption DEF Ones
<1>6. NoOverlap'
  <2>2. blocks \subseteq Taken /\ \A s \in reserved : Leaf(s) \in Taken
    BY DEF Taken
  <2>3. \A s \in reserved : s \in Segment /\ s \in Segments(Leaf(s))
    BY ReservedAssumption, SegmentOfLeaf DEF TypeOK
  <2>4. \A b \in blocks : Segments(b) \cap Segments(c) = {}
    BY <1>4, <2>2
  <2>5. Segments(c) \cap reserved = {}
    BY <1>4, <2>2, <2>3
  <2> QED BY <1>1, <2>4, <2>5 DEF TreeInv, NoOverlap
<1>7. TakenIsFull'
  <2>1. \A b \in Taken : b # c
    BY <1>0, InRefl
  <2> QED BY <1>0, <1>1, <2>1 DEF TreeInv, TakenIsFull
<1>8. TakenIsHollow'
  <2>1. ASSUME NEW y \in Node, In(y, c), y # c PROVE tree[y] = {}
    BY <1>0, <1>2, <2>1 DEF TreeInv, EmptyBelow
  <2> QED BY <1>0, <1>1, <2>1 DEF TreeInv, TakenIsHollow
<1>9. TakenIsSeen'
  BY <1>0, <1>1, <1>2, <1>3, <1>4, <1>5 DEF TreeInv, TakenIsSeen
<1>10. EmptyBelow'
  BY <1>1, <1>2, <1>3, <1>5 DEF TreeInv, EmptyBelow
<1>11. TopBit'
  BY <1>1, <1>5 DEF TreeInv, TopBit
<1>12. Combined'
  <2> SUFFICES ASSUME NEW x \in Node, Lev(x) > 0, x \notin Taken', ~Stale(x)'
               PROVE  tree'[x] = Combine(x, tree'[LeftChild(x)], tree'[RightChild(x)])
    BY DEF Combined
  <2>1. /\ LeftChild(x) \in Node /\ RightChild(x) \in Node
        /\ In(LeftChild(x), x) /\ In(RightChild(x), x)
    BY Children
  <2>2. x # c /\ x \notin Taken
    BY <1>1
  <2>3. LeftChild(x) # c /\ RightChild(x) # c
    BY <1>3, <2>1, <2>2
  <2> QED BY <1>1, <1>2, <2>1, <2>2, <2>3 DEF TreeInv, Combined
<1>13. BitsAreDue'
  BY <1>1, <1>2, <1>3 DEF TreeInv, BitsAreDue, Overlap
<1> QED BY <1>6, <1>7, <1>8, <1>9, <1>10, <1>11, <1>12, <1>13 DEF TreeInv

(* kfree clears the leaf under the pointer; the area it lay in is no       *)
(* longer in use, and every node over the leaf is about to be recomputed.  *)
LEMMA ClearTreeInv ==
  TypeOK /\ TreeInv /\ PointInv /\ ClearLeaf
    => /\ TreeInv'
       /\ \A b \in Taken' : seg \notin Segments(b) /\ ~In(Leaf(seg), b)
<1> SUFFICES ASSUME TypeOK, TreeInv, PointInv, ClearLeaf
             PROVE  /\ TreeInv'
                    /\ \A b \in Taken' : seg \notin Segments(b) /\ ~In(Leaf(seg), b)
  OBVIOUS
<1> DEFINE z == Leaf(seg)
<1>0. /\ pc = "clear" /\ z \in Node /\ Lev(z) = 0 /\ seg \in Segment
      /\ Taken \subseteq Node
  BY TakenNodes, LeafFacts DEF TypeOK, ClearLeaf
<1>1. PICK o \in blocks : seg \in Segments(o)
  BY <1>0 DEF PointInv, AtClear
<1>2. o \in Taken /\ o \in Node /\ In(z, o)
  BY <1>0, <1>1 DEF Taken, Segments
<1>3. \A b \in Taken : In(z, b) => b = o
  BY <1>0, <1>1, <1>2, TakenDisjoint DEF TreeInv, Segments
<1>4. o \notin {Leaf(s) : s \in reserved}
  <2> SUFFICES ASSUME NEW s \in reserved, o = Leaf(s) PROVE FALSE
    OBVIOUS
  <2>1. s \in Segment
    BY ReservedAssumption DEF TypeOK
  <2> QED BY <1>1, <2>1, SegmentOfLeaf DEF TreeInv, NoOverlap
<1>5. /\ tree' = [tree EXCEPT ![z] = {}] /\ tree'[z] = {}
      /\ \A x \in Node : x # z => tree'[x] = tree[x]
      /\ blocks' = blocks \ {o} /\ Taken' = Taken \ {o}
      /\ reserved' = reserved /\ pc' = "up" /\ cur' = z
  <2>1. blocks' = {b \in blocks : seg \notin Segments(b)}
    BY DEF ClearLeaf
  <2>2. \A b \in blocks : seg \in Segments(b) <=> b = o
    BY <1>1, <1>3 DEF Segments, Taken
  <2>3. blocks' = blocks \ {o}
    BY <2>1, <2>2
  <2> QED BY <1>0, <1>4, <2>3 DEF ClearLeaf, TypeOK, Taken
<1> HIDE DEF z
<1>6. \A b \in Taken' : ~In(z, b)
  BY <1>3, <1>5
<1>7. \A x : ~Stale(x)
  BY <1>0 DEF Stale
<1>8. \A x : Stale(x)' <=> x # z /\ In(z, x)
  BY <1>5 DEF Stale
<1>9. NoOverlap'
  BY <1>5 DEF TreeInv, NoOverlap
<1>10. TakenIsFull'
  BY <1>0, <1>5, <1>6, InRefl DEF TreeInv, TakenIsFull
<1>11. TakenIsHollow'
  BY <1>5 DEF TreeInv, TakenIsHollow
<1>12. TakenIsSeen'
  <2> SUFFICES ASSUME NEW b \in Taken', NEW x \in Node, In(b, x), ~Stale(x)'
               PROVE  tree'[x] # {}
    BY DEF TakenIsSeen
  <2>1. x # z
    <3> SUFFICES ASSUME x = z PROVE FALSE
      OBVIOUS
    <3>1. b \in Node /\ Lev(b) \in 0..MaxLevel
      BY <1>0, <1>5, NodeType
    <3>2. b = z
      BY <1>0, <3>1, InSameLevel, MaxLevelAssumption
    <3> QED BY <1>0, <1>6, <3>2, InRefl
  <2> QED BY <1>5, <1>7, <2>1 DEF TreeInv, TakenIsSeen
<1>13. EmptyBelow'
  <2> SUFFICES ASSUME NEW x \in Node, NEW y \in Node,
                      ~Stale(x)', tree'[x] = {}, In(y, x), y # z
               PROVE  tree[y] = {}
    BY <1>5 DEF EmptyBelow
  <2>1. x # z
    BY <1>0, InSameLevel, NodeType, MaxLevelAssumption
  <2> QED BY <1>5, <1>7, <2>1 DEF TreeInv, EmptyBelow
<1>14. TopBit'
  BY <1>5 DEF TreeInv, TopBit
<1>15. Combined'
  <2> SUFFICES ASSUME NEW x \in Node, Lev(x) > 0, x \notin Taken', ~Stale(x)'
               PROVE  tree'[x] = Combine(x, tree'[LeftChild(x)], tree'[RightChild(x)])
    BY DEF Combined
  <2>1. /\ LeftChild(x) \in Node /\ RightChild(x) \in Node
        /\ In(LeftChild(x), x) /\ In(RightChild(x), x)
    BY Children
  <2>2. x # z /\ x \notin Taken
    BY <1>0, <1>2, <1>5, <1>8
  <2>3. LeftChild(x) # z /\ RightChild(x) # z
    BY <1>8, <2>1, <2>2
  <2> QED BY <1>5, <1>7, <2>1, <2>2, <2>3 DEF TreeInv, Combined
<1>16. BitsAreDue'
  <2> SUFFICES ASSUME NEW x \in Node, NEW y \in Node,
                      ~Stale(x)', Lev(y) \in tree'[x], In(y, x)
               PROVE  \E b \in Taken' : Overlap(y, b)
    BY DEF BitsAreDue
  <2>1. x # z /\ tree'[x] = tree[x] /\ ~In(z, x)
    BY <1>5, <1>8
  <2>2. PICK b \in Taken : Overlap(y, b)
    BY <1>7, <2>1 DEF TreeInv, BitsAreDue
  <2>3. ASSUME b = o PROVE FALSE
    <3>1. CASE In(o, y)
      BY <1>0, <1>2, <2>1, <3>1, InTrans
    <3>2. CASE In(y, o)
      <4>1. CASE In(o, x)
        BY <1>0, <1>2, <2>1, <4>1, InTrans
      <4>2. CASE In(x, o)
        <5>1. tree[x] = {}
          BY <1>2, <2>1, <4>2 DEF TreeInv, TakenIsHollow
        <5> QED BY <2>1, <5>1
      <4> QED BY <1>2, <3>2, <4>1, <4>2, InNested
    <3> QED BY <2>2, <2>3, <3>1, <3>2 DEF Overlap
  <2> QED BY <1>5, <2>2, <2>3
<1>17. TreeInv'
  BY <1>9, <1>10, <1>11, <1>12, <1>13, <1>14, <1>15, <1>16 DEF TreeInv
<1> QED BY <1>6, <1>17 DEF Segments, z

(* One round of full_buddify: the parent is recomputed and stops being     *)
(* stale.  It is no area in use, nor inside one.                           *)
LEMMA BuddifyTreeInv ==
  TypeOK /\ TreeInv /\ PointInv /\ Buddify
    => /\ TreeInv'
       /\ \A b \in Taken' : ~In(cur', b)
       /\ UNCHANGED <<blocks, reserved, args, lvl, ret, back>>
       /\ cur' \in Node /\ pc' = IF Lev(cur') = MaxLevel THEN back ELSE "up"
<1> SUFFICES ASSUME TypeOK, TreeInv, PointInv, Buddify
             PROVE  /\ TreeInv'
                    /\ \A b \in Taken' : ~In(cur', b)
                    /\ UNCHANGED <<blocks, reserved, args, lvl, ret, back>>
                    /\ cur' \in Node /\ pc' = IF Lev(cur') = MaxLevel THEN back ELSE "up"
  OBVIOUS
<1> DEFINE c == cur
           p == Parent(c)
           l == LeftChild(p)
           r == RightChild(p)
           v == Combine(p, tree[l], tree[r])
<1>0. /\ pc = "up" /\ c \in Node /\ Lev(c) \in 0..MaxLevel /\ Lev(c) < MaxLevel
      /\ \A b \in Taken : In(c, b) => b = c
      /\ Taken \subseteq Node
  BY TakenNodes, NodeType DEF PointInv, AtUp, Buddify, TypeOK
<1>1. /\ p \in Node /\ Lev(p) = Lev(c) + 1 /\ In(c, p) /\ Lev(p) > 0
      /\ c = l \/ c = r
      /\ \A y \in Node : In(c, y) /\ c # y => In(p, y)
  BY <1>0, ParentFacts, MaxLevelAssumption
<1>2. /\ l \in Node /\ r \in Node /\ In(l, p) /\ In(r, p)
      /\ Lev(l) = Lev(p) - 1 /\ Lev(r) = Lev(p) - 1
      /\ \A y \in Node : In(y, p) /\ y # p => In(y, l) \/ In(y, r)
  BY <1>1, Children
<1>3. /\ Lev(p) \in 0..MaxLevel /\ l # p /\ r # p /\ c # p
  <2>1. Lev(p) \in 0..MaxLevel
    BY <1>1, NodeType
  <2>2. Lev(p) - 1 # Lev(p)
    BY <2>1, MaxLevelAssumption
  <2> QED BY <1>1, <1>2, <2>1, <2>2
<1>4. /\ tree' = [tree EXCEPT ![p] = v] /\ tree'[p] = v
      /\ \A x \in Node : x # p => tree'[x] = tree[x]
      /\ Taken' = Taken /\ cur' = p
      /\ pc' = IF Lev(p) = MaxLevel THEN back ELSE "up"
      /\ UNCHANGED <<blocks, reserved, args, lvl, ret, back>>
  <2>1. Lev(c) # MaxLevel
    BY <1>0, MaxLevelAssumption
  <2>2. /\ tree' = [tree EXCEPT ![p] = v] /\ cur' = p
        /\ pc' = IF Lev(p) = MaxLevel THEN back ELSE "up"
        /\ UNCHANGED <<blocks, reserved, args, lvl, ret, back>>
    BY <2>1 DEF Buddify, args
  <2> HIDE DEF v
  <2> QED BY <1>1, <2>2 DEF TypeOK, Taken
<1>5. \A k : k \in v <=> \/ k \in tree[l] /\ k \in tree[r]
                         \/ k = Lev(p) /\ (Lev(p) - 1 \in tree[l] \/ Lev(p) - 1 \in tree[r])
  BY DEF Combine
<1>6. \A k : k \in tree[l] => k # Lev(p)
  <2>1. tree[l] \subseteq 0..(Lev(p) - 1)
    BY <1>2 DEF TypeOK
  <2> QED BY <1>3, <2>1, MaxLevelAssumption
<1> HIDE DEF v
<1>7. \A b \in Taken : ~In(p, b)
  <2> SUFFICES ASSUME NEW b \in Taken, In(p, b) PROVE FALSE
    OBVIOUS
  <2>1. b = c
    BY <1>0, <1>1, InTrans
  <2>2. Lev(p) <= Lev(c)
    BY <2>1 DEF In
  <2> QED BY <1>0, <1>1, <2>2, MaxLevelAssumption
<1>8. p \notin Taken
  BY <1>1, <1>7, InRefl
<1>9. \A x \in Node : Stale(x) <=> In(p, x)
  <2>1. ASSUME NEW x \in Node, In(p, x) PROVE x # c
    BY <1>0, <1>1, <2>1, MaxLevelAssumption DEF In
  <2> QED BY <1>0, <1>1, <2>1, InTrans DEF Stale
<1>10. \A x \in Node : Stale(x)' <=> x # p /\ In(p, x)
  <2>1. CASE Lev(p) = MaxLevel
    <3>1. p = Root /\ pc' = back /\ back # "up"
      BY <1>1, <1>4, <2>1, RootFacts DEF TypeOK
    <3>2. \A x \in Node : In(Root, x) => x = Root
      BY RootFacts, InSameLevel, NodeType, MaxLevelAssumption DEF In
    <3> QED BY <1>4, <3>1, <3>2 DEF Stale
  <2>2. CASE Lev(p) # MaxLevel
    BY <1>4, <2>2 DEF Stale
  <2> QED BY <2>1, <2>2
<1>11. \A x \in {l, r} : x \in Node /\ ~Stale(x) /\ Lev(x) = Lev(p) - 1
  <2>1. \A x \in {l, r} : ~In(p, x)
    BY <1>2, <1>3, MaxLevelAssumption DEF In
  <2> QED BY <1>2, <1>9, <2>1
<1>12. \A x \in {l, r} : tree[x] # {} => Lev(p) \in v
  BY <1>5, <1>11 DEF TreeInv, TopBit
<1> HIDE DEF p, l, r
<1>13. NoOverlap'
  BY <1>4 DEF TreeInv, NoOverlap
<1>14. TakenIsFull'
  BY <1>0, <1>4, <1>8 DEF TreeInv, TakenIsFull
<1>15. TakenIsHollow'
  BY <1>4, <1>7 DEF TreeInv, TakenIsHollow
<1>16. TakenIsSeen'
  <2> SUFFICES ASSUME NEW b \in Taken, NEW x \in Node, In(b, x), ~Stale(x)'
               PROVE  tree'[x] # {}
    BY <1>4 DEF TakenIsSeen
  <2>1. CASE x = p
    <3>1. PICK y \in {l, r} : In(b, y)
      BY <1>0, <1>2, <1>8, <2>1
    <3>2. tree[y] # {}
      BY <1>11, <3>1 DEF TreeInv, TakenIsSeen
    <3> QED BY <1>4, <1>12, <2>1, <3>2
  <2>2. CASE x # p
    BY <1>4, <1>9, <1>10, <2>2 DEF TreeInv, TakenIsSeen
  <2> QED BY <2>1, <2>2
<1>17. EmptyBelow'
  <2> SUFFICES ASSUME NEW x \in Node, NEW y \in Node,
                      ~Stale(x)', tree'[x] = {}, In(y, x)
               PROVE  tree'[y] = {}
    BY DEF EmptyBelow
  <2>1. CASE x = p
    <3>1. tree[l] = {} /\ tree[r] = {}
      BY <1>4, <1>12, <2>1
    <3>2. y # p => tree[y] = {}
      BY <1>2, <1>11, <2>1, <3>1 DEF TreeInv, EmptyBelow
    <3> QED BY <1>4, <2>1, <3>2
  <2>2. CASE x # p
    <3>1. y # p
      BY <1>10, <2>2
    <3> QED BY <1>4, <1>9, <1>10, <2>2, <3>1 DEF TreeInv, EmptyBelow
  <2> QED BY <2>1, <2>2
<1>18. TopBit'
  <2>1. v # {} => Lev(p) \in v
    BY <1>5, <1>12
  <2> QED BY <1>4, <2>1 DEF TreeInv, TopBit
<1>19. Combined'
  <2> SUFFICES ASSUME NEW x \in Node, Lev(x) > 0, x \notin Taken, ~Stale(x)'
               PROVE  tree'[x] = Combine(x, tree'[LeftChild(x)], tree'[RightChild(x)])
    BY <1>4 DEF Combined
  <2>1. CASE x = p
    BY <1>2, <1>3, <1>4, <2>1 DEF v, l, r
  <2>2. CASE x # p
    <3>1. /\ LeftChild(x) \in Node /\ RightChild(x) \in Node
          /\ In(LeftChild(x), x) /\ In(RightChild(x), x)
      BY Children
    <3>2. LeftChild(x) # p /\ RightChild(x) # p
      BY <1>10, <2>2, <3>1
    <3> QED BY <1>4, <1>9, <1>10, <2>2, <3>1, <3>2 DEF TreeInv, Combined
  <2> QED BY <2>1, <2>2
<1>20. BitsAreDue'
  <2> SUFFICES ASSUME NEW x \in Node, NEW y \in Node,
                      ~Stale(x)', Lev(y) \in tree'[x], In(y, x)
               PROVE  \E b \in Taken : Overlap(y, b)
    BY <1>4 DEF BitsAreDue
  <2>1. CASE x # p
    BY <1>4, <1>9, <1>10, <2>1 DEF TreeInv, BitsAreDue
  <2>2. CASE x = p /\ y = p
    <3>1. PICK w \in {l, r} : Lev(w) \in tree[w]
      BY <1>4, <1>5, <1>6, <1>11, <2>2
    <3>2. In(w, w) /\ In(w, p) /\ w \in Node /\ ~Stale(w)
      BY <1>2, <1>11, InRefl
    <3>3. PICK b \in Taken : Overlap(w, b)
      BY <3>1, <3>2 DEF TreeInv, BitsAreDue
    <3>4. Overlap(p, b)
      BY <1>0, <1>1, <3>2, <3>3, InTrans, InNested DEF Overlap
    <3> QED BY <2>2, <3>4
  <2>3. CASE x = p /\ y # p
    <3>1. PICK w \in {l, r} : In(y, w)
      BY <1>2, <2>3
    <3>2. Lev(y) # Lev(p)
      <4>1. Lev(y) \in 0..MaxLevel
        BY NodeType
      <4> QED BY <1>1, <1>3, <2>3, <4>1, InSameLevel, MaxLevelAssumption
    <3>3. Lev(y) \in tree[w]
      BY <1>4, <1>5, <2>3, <3>2
    <3> QED BY <1>11, <3>1, <3>3 DEF TreeInv, BitsAreDue
  <2> QED BY <2>1, <2>2, <2>3
<1>21. TreeInv'
  BY <1>13, <1>14, <1>15, <1>16, <1>17, <1>18, <1>19, <1>20 DEF TreeInv
<1> QED BY <1>1, <1>4, <1>7, <1>21

(* The other steps leave the tree and the areas alone. *)
LEMMA QuietTreeInv ==
  TreeInv /\ UNCHANGED <<tree, reserved, blocks>> /\ pc # "up" /\ pc' # "up"
    => TreeInv' /\ Taken' = Taken
<1> SUFFICES ASSUME TreeInv, UNCHANGED <<tree, reserved, blocks>>,
                    pc # "up", pc' # "up"
             PROVE  TreeInv' /\ Taken' = Taken
  OBVIOUS
<1>1. Taken' = Taken
  BY DEF Taken
<1>2. \A x : ~Stale(x) /\ ~Stale(x)'
  BY DEF Stale
<1>3. NoOverlap' /\ TakenIsFull' /\ TakenIsHollow' /\ TopBit'
  BY <1>1 DEF TreeInv, NoOverlap, TakenIsFull, TakenIsHollow, TopBit
<1>4. TakenIsSeen'
  BY <1>1, <1>2 DEF TreeInv, TakenIsSeen
<1>5. EmptyBelow' /\ Combined' /\ BitsAreDue'
  BY <1>1, <1>2 DEF TreeInv, EmptyBelow, Combined, BitsAreDue
<1> QED BY <1>1, <1>3, <1>4, <1>5 DEF TreeInv

-----------------------------------------------------------------------------
(* What each point knows is established by the step before it. *)

LEMMA AllSteps ==
  [Next]_vars =>
    \/ UNCHANGED vars
    \/ \E n \in Requests : Kmalloc(n)
    \/ \E b \in blocks : \E s \in Segment : Kfree(b, s) \/ Kmsz(b, s)
    \/ \E b \in blocks : \E n \in Requests : Krealloc(b, n)
    \/ ReadRoot \/ Descend \/ Mark \/ ClearLeaf \/ Buddify
    \/ Climb \/ ClimbEnds \/ Probe \/ Move \/ Return
BY DEF Next, Call, Step

LEMMA CallInv ==
  ASSUME TypeOK, TreeInv, PointInv,
         \/ \E n \in Requests : Kmalloc(n)
         \/ \E b \in blocks : \E s \in Segment : Kfree(b, s) \/ Kmsz(b, s)
         \/ \E b \in blocks : \E n \in Requests : Krealloc(b, n)
  PROVE  TreeInv' /\ PointInv'
<1>1. /\ UNCHANGED <<tree, reserved, blocks>> /\ pc = "idle"
      /\ pc' \in {"root", "clear", "climb"}
  BY DEF Kmalloc, Kfree, Kmsz, Krealloc, Enter
<1>2. TreeInv'
  BY <1>1, QuietTreeInv
<1>3. CASE \E n \in Requests : Kmalloc(n)
  BY <1>2, <1>3 DEF Kmalloc, Enter, PointInv, AtDescend, AtMark, AtUp, AtClear,
              AtClimb, AfterFree, Routes
<1>4. ASSUME NEW b \in blocks, NEW s \in Segment, Kfree(b, s) PROVE PointInv'
  BY <1>4 DEF Kfree, Enter, PointInv, AtDescend, AtMark, AtUp, AtClear,
              AtClimb, AfterFree, Routes
<1>5. ASSUME NEW b \in blocks, NEW s \in Segments(b),
             pc' = "climb", fn' \in {"kmsz", "krealloc"},
             seg' = s, cur' = Leaf(s), blocks' = blocks
      PROVE  PointInv'
  BY <1>5 DEF PointInv, AtDescend, AtMark, AtUp, AtClear, AtClimb, AfterFree,
              Routes, Segments
<1>6. ASSUME NEW b \in blocks, NEW s \in Segment, Kmsz(b, s) PROVE PointInv'
  BY <1>5, <1>6 DEF Kmsz, Enter
<1>7. ASSUME NEW b \in blocks, NEW n \in Requests, Krealloc(b, n) PROVE PointInv'
  <2>1. FirstSegment(b) \in Segments(b)
    BY FirstSegmentFacts DEF TypeOK
  <2> QED BY <1>5, <1>7, <2>1 DEF Krealloc, Enter
<1> QED BY <1>2, <1>3, <1>4, <1>6, <1>7

(* kmalloc's test of the root, and allocate: a node whose bit is clear is  *)
(* not in use, and neither is anything over it; the last one is empty.     *)
LEMMA ReadRootInv ==
  TypeOK /\ TreeInv /\ PointInv /\ ReadRoot => TreeInv' /\ PointInv'
<1> SUFFICES ASSUME TypeOK, TreeInv, PointInv, ReadRoot PROVE TreeInv' /\ PointInv'
  OBVIOUS
<1>1. TreeInv' /\ Taken' = Taken
  BY QuietTreeInv DEF ReadRoot
<1>2. CASE need \in tree[Root]
  BY <1>1, <1>2 DEF ReadRoot, PointInv, AtDescend, AtMark, AtUp, AtClear, AtClimb,
              AfterFree, Routes, args
<1>3. CASE need \notin tree[Root]
  <2>1. /\ pc' = "descend" /\ cur' = Root /\ tree' = tree /\ need' = need
        /\ fn' = fn /\ fn \in {"kmalloc", "krealloc"} /\ ret' = ret
    BY <1>3 DEF ReadRoot, args, PointInv, Routes
  <2>2. ASSUME need <= MaxLevel, NEW b \in Taken, In(Root, b) PROVE FALSE
    <3>1. b \in Node /\ Lev(b) \in 0..MaxLevel
      BY TakenNodes, NodeType
    <3>2. b = Root
      BY <2>2, <3>1, RootFacts, InSameLevel, MaxLevelAssumption
    <3>3. tree[Root] = 0..MaxLevel
      BY <3>2, RootFacts DEF TreeInv, TakenIsFull, Ones
    <3> QED BY <1>3, <2>2, <3>3, MaxLevelAssumption DEF TypeOK
  <2>3. AtDescend'
    BY <1>1, <1>3, <2>1, <2>2, RootFacts DEF AtDescend
  <2> QED BY <1>1, <2>1, <2>3 DEF PointInv, AtMark, AtUp, AtClear, AtClimb,
                                  AfterFree, Routes
<1> QED BY <1>2, <1>3, <1>1

LEMMA DescendInv ==
  TypeOK /\ TreeInv /\ PointInv /\ Descend => TreeInv' /\ PointInv'
<1> SUFFICES ASSUME TypeOK, TreeInv, PointInv, Descend PROVE TreeInv' /\ PointInv'
  OBVIOUS
<1>0. /\ pc = "descend" /\ cur \in Node /\ Lev(cur) \in 0..MaxLevel /\ need \in Nat
      /\ fn \in {"kmalloc", "krealloc"} /\ Taken \subseteq Node
      /\ UNCHANGED <<tree, reserved, blocks, fn, need, seg, ret, back>>
  BY TakenNodes, NodeType DEF Descend, args, TypeOK, PointInv, Routes
<1>1. pc' \in {"mark", "descend", "wild"}
  BY DEF Descend
<1>2. TreeInv' /\ Taken' = Taken
  BY <1>0, <1>1, QuietTreeInv
<1>3. AtDescend /\ ~Stale(cur) /\ \A x : ~Stale(x)
  BY <1>0 DEF PointInv, Stale
<1>4. CASE Lev(cur) = need
  <2>1. need <= MaxLevel
    BY <1>0, <1>4, MaxLevelAssumption
  <2>2. need \notin tree[cur] /\ \A b \in Taken : ~In(cur, b)
    BY <1>0, <1>3, <2>1 DEF AtDescend
  <2>3. tree[cur] = {}
    BY <1>0, <1>4, <2>2 DEF TreeInv, TopBit
  <2>4. AtMark'
    BY <1>0, <1>2, <1>4, <2>2, <2>3 DEF Descend, AtMark
  <2> QED BY <1>0, <1>2, <1>4, <2>4
          DEF Descend, PointInv, AtDescend, AtUp, AtClear, AtClimb, AfterFree, Routes
<1>5. CASE Lev(cur) # need /\ Lev(cur) = 0
  BY <1>0, <1>2, <1>5
     DEF Descend, PointInv, AtDescend, AtMark, AtUp, AtClear, AtClimb, AfterFree, Routes
<1>6. CASE Lev(cur) # need /\ Lev(cur) # 0
  <2> DEFINE l == LeftChild(cur)
             r == RightChild(cur)
  <2>1. /\ l \in Node /\ r \in Node /\ In(l, cur) /\ In(r, cur) /\ Lev(cur) > 0
        /\ Lev(l) = Lev(cur) - 1 /\ Lev(r) = Lev(cur) - 1
    BY <1>0, <1>6, Children, MaxLevelAssumption
  <2>2. cur' = (IF need \notin tree[l] THEN l ELSE r) /\ pc' = "descend"
    BY <1>0, <1>6 DEF Descend
  <2> HIDE DEF l, r
  <2>3. ASSUME need <= MaxLevel PROVE AtDescend'
    <3>1. /\ need <= Lev(cur) - 1 /\ need \notin tree[cur]
          /\ \A b \in Taken : ~In(cur, b)
      BY <1>0, <1>3, <1>6, <2>3, MaxLevelAssumption DEF AtDescend
    <3>2. cur \notin Taken
      BY <1>0, <3>1, InRefl
    <3>3. tree[cur] = Combine(cur, tree[l], tree[r])
      BY <1>0, <1>3, <2>1, <3>2 DEF TreeInv, Combined, l, r
    <3>4. need \notin tree[cur']
      BY <2>2, <3>1, <3>3 DEF Combine
    <3>5. cur' \in Node /\ In(cur', cur) /\ Lev(cur') = Lev(cur) - 1
      BY <2>1, <2>2
    <3>6. ASSUME NEW b \in Taken, In(cur', b) PROVE FALSE
      <4>1. b \in Node /\ Lev(b) \in 0..MaxLevel
        BY <1>0, NodeType
      <4>2. In(b, cur)
        BY <1>0, <3>1, <3>5, <3>6, <4>1, InNested
      <4>3. CASE b = cur'
        <5>1. tree[cur'] = 0..Lev(cur')
          BY <4>3 DEF TreeInv, TakenIsFull, Ones
        <5> QED BY <1>0, <3>1, <3>4, <3>5, <5>1, MaxLevelAssumption
      <4>4. CASE b # cur'
        <5>1. Lev(b) > Lev(cur')
          BY <1>0, <3>5, <3>6, <4>1, <4>4, InSameLevel, MaxLevelAssumption
        <5>2. Lev(b) >= Lev(cur)
          BY <1>0, <3>5, <4>1, <5>1, MaxLevelAssumption
        <5> QED BY <1>0, <3>2, <4>1, <4>2, <5>2, InSameLevel
      <4> QED BY <4>3, <4>4
    <3> QED BY <1>0, <1>2, <3>1, <3>4, <3>5, <3>6 DEF AtDescend
  <2>4. AtDescend'
    <3>1. CASE need <= MaxLevel
      BY <2>3, <3>1
    <3>2. CASE ~(need <= MaxLevel)
      BY <1>0, <3>2 DEF AtDescend
    <3> QED BY <3>1, <3>2
  <2> QED BY <1>0, <1>2, <2>2, <2>4
          DEF PointInv, AtMark, AtUp, AtClear, AtClimb, AfterFree, Routes
<1> QED BY <1>4, <1>5, <1>6

(* The climb stays inside the area the pointer lies in and ends on it. *)
LEMMA ClimbInv ==
  TypeOK /\ TreeInv /\ PointInv /\ Climb
    => TreeInv' /\ PointInv' /\ pc' # "wild"
<1> SUFFICES ASSUME TypeOK, TreeInv, PointInv, Climb
             PROVE  TreeInv' /\ PointInv' /\ pc' # "wild"
  OBVIOUS
<1>0. /\ pc = "climb" /\ tree[cur] = {} /\ cur \in Node /\ Lev(cur) \in 0..MaxLevel
      /\ fn \in {"krealloc", "kmsz"}
      /\ UNCHANGED <<tree, reserved, blocks, fn, need, seg, ret, back>>
  BY NodeType DEF Climb, args, TypeOK, PointInv, Routes
<1>1. PICK b \in blocks : seg \in Segments(b) /\ In(cur, b)
  BY <1>0 DEF PointInv, AtClimb
<1>2. b \in Taken /\ b \in Node /\ Lev(b) \in 0..MaxLevel
  BY NodeType DEF Taken, TypeOK
<1>3. cur # b
  <2>1. tree[b] = 0..Lev(b)
    BY <1>2 DEF TreeInv, TakenIsFull, Ones
  <2>2. 0 \in 0..Lev(b)
    BY <1>2, MaxLevelAssumption
  <2> QED BY <1>0, <2>1, <2>2
<1>4. Lev(cur) # MaxLevel
  <2> SUFFICES ASSUME Lev(cur) = MaxLevel PROVE FALSE
    OBVIOUS
  <2> QED BY <1>0, <1>1, <1>2, <1>3, InSameLevel, MaxLevelAssumption
<1>5. cur' = Parent(cur) /\ pc' = "climb"
  BY <1>0, <1>4 DEF Climb
<1>6. In(Parent(cur), b)
  BY <1>0, <1>1, <1>2, <1>3, <1>4, ParentFacts, MaxLevelAssumption
<1>7. TreeInv'
  BY <1>0, <1>5, QuietTreeInv
<1>8. AtClimb'
  BY <1>0, <1>1, <1>5, <1>6 DEF AtClimb, Segments
<1> QED BY <1>0, <1>5, <1>7, <1>8
        DEF PointInv, AtDescend, AtMark, AtUp, AtClear, AfterFree, Routes

LEMMA ClimbEndsInv ==
  TypeOK /\ TreeInv /\ PointInv /\ ClimbEnds
    => /\ TreeInv' /\ PointInv' /\ pc' # "wild"
       /\ \E b \in blocks : seg \in Segments(b) /\ lvl' = Lev(b)
<1> SUFFICES ASSUME TypeOK, TreeInv, PointInv, ClimbEnds
             PROVE  /\ TreeInv' /\ PointInv' /\ pc' # "wild"
                    /\ \E b \in blocks : seg \in Segments(b) /\ lvl' = Lev(b)
  OBVIOUS
<1>0. /\ pc = "climb" /\ tree[cur] # {} /\ cur \in Node /\ lvl' = Lev(cur)
      /\ UNCHANGED <<tree, reserved, blocks, fn, need, seg, back, cur>>
  BY DEF ClimbEnds, args, TypeOK
<1>1. PICK b \in blocks : seg \in Segments(b) /\ In(cur, b)
  BY <1>0 DEF PointInv, AtClimb
<1>2. cur = b
  BY <1>0, <1>1 DEF TreeInv, TakenIsHollow, Taken
<1>3. /\ pc' \in {"ret", "move", "clear"}
      /\ pc' = "ret" => fn = "kmsz"
      /\ pc' = "clear" => fn = "krealloc"
      /\ pc' = "move" => ret' = seg
  BY DEF ClimbEnds
<1>4. TreeInv'
  BY <1>0, <1>3, QuietTreeInv
<1>5. AtClear'
  BY <1>0, <1>1 DEF AtClear, Segments
<1>6. seg # NULL
  BY NullAssumption DEF TypeOK
<1>7. Routes'
  BY <1>0, <1>3, <1>6 DEF Routes
<1> QED BY <1>0, <1>1, <1>2, <1>3, <1>4, <1>5, <1>7
        DEF PointInv, AtDescend, AtMark, AtUp, AtClimb, AfterFree

(* krealloc takes the wider area only where nothing in use is met.         *)
LEMMA ProbeInv ==
  TypeOK /\ TreeInv /\ PointInv /\ Probe => TreeInv' /\ PointInv'
<1> SUFFICES ASSUME TypeOK, TreeInv, PointInv, Probe PROVE TreeInv' /\ PointInv'
  OBVIOUS
<1>0. /\ pc = "probe" /\ seg \in Segment /\ need \in Nat /\ fn = "krealloc"
      /\ Taken \subseteq Node /\ \A b \in Taken : seg \notin Segments(b)
      /\ UNCHANGED <<tree, reserved, blocks, fn, need, seg, ret, back>>
      /\ pc' \in {"wild", "mark", "root"}
  BY TakenNodes DEF Probe, args, TypeOK, PointInv, AfterFree, Routes
<1>1. TreeInv' /\ Taken' = Taken
  BY <1>0, QuietTreeInv
<1>2. AtMark'
  <2> SUFFICES ASSUME pc' = "mark" PROVE AtMark'
    BY DEF AtMark
  <2>1. need \in 0..MaxLevel /\ cur' = Ancestor(seg, need) /\ tree[cur'] = {}
    BY <1>0, MaxLevelAssumption DEF Probe
  <2>2. cur' \in Node /\ Lev(cur') = need /\ In(Leaf(seg), cur')
    BY <1>0, <2>1, AncestorFacts
  <2>3. ASSUME NEW b \in Taken, In(cur', b) PROVE FALSE
    <3>1. In(Leaf(seg), b)
      BY <1>0, <2>2, <2>3, LeafFacts, InTrans
    <3> QED BY <1>0, <3>1 DEF Segments
  <2> QED BY <1>0, <1>1, <2>1, <2>2, <2>3 DEF AtMark
<1> QED BY <1>0, <1>1, <1>2
        DEF PointInv, AtDescend, AtUp, AtClear, AtClimb, AfterFree, Routes

LEMMA MarkInv ==
  TypeOK /\ TreeInv /\ PointInv /\ Mark => TreeInv' /\ PointInv'
<1> SUFFICES ASSUME TypeOK, TreeInv, PointInv, Mark PROVE TreeInv' /\ PointInv'
  OBVIOUS
<1>0. /\ pc = "mark" /\ pc' = "up" /\ tree[cur] = {} /\ cur \in Node
      /\ fn \in {"kmalloc", "krealloc"}
      /\ \A b \in Taken : ~In(cur, b)
      /\ blocks' = blocks \cup {cur} /\ ret' = FirstSegment(cur)
      /\ back' = IF fn = "krealloc" THEN "move" ELSE "ret"
      /\ UNCHANGED <<reserved, fn, need, seg, cur>>
  BY DEF Mark, args, TypeOK, PointInv, AtMark, Routes
<1>1. TreeInv'
  BY MarkTreeInv
<1>2. Lev(cur) < MaxLevel
  <2>1. tree[Root] # {}
    BY <1>0, RootNotEmpty
  <2>2. Lev(cur) \in 0..MaxLevel /\ Lev(cur) # MaxLevel
    BY <1>0, <2>1, RootFacts, NodeType
  <2> QED BY <2>2, MaxLevelAssumption
<1>3. AtUp'
  <2>1. Taken' = Taken \cup {cur}
    BY <1>0 DEF Taken
  <2> QED BY <1>0, <1>2, <2>1 DEF AtUp
<1>4. ret' # NULL
  BY <1>0, FirstSegmentFacts, NullAssumption
<1> QED BY <1>0, <1>1, <1>3, <1>4
        DEF PointInv, AtDescend, AtMark, AtClear, AtClimb, AfterFree, Routes

LEMMA ClearLeafInv ==
  TypeOK /\ TreeInv /\ PointInv /\ ClearLeaf => TreeInv' /\ PointInv'
<1> SUFFICES ASSUME TypeOK, TreeInv, PointInv, ClearLeaf PROVE TreeInv' /\ PointInv'
  OBVIOUS
<1>0. /\ pc' = "up" /\ cur' = Leaf(seg) /\ seg \in Segment
      /\ fn \in {"kfree", "krealloc"}
      /\ back' = IF fn = "krealloc" THEN "probe" ELSE "ret"
      /\ UNCHANGED <<reserved, fn, need, seg, ret>>
  BY DEF ClearLeaf, args, TypeOK, PointInv, Routes
<1>1. /\ TreeInv'
      /\ \A b \in Taken' : seg \notin Segments(b) /\ ~In(Leaf(seg), b)
  BY ClearTreeInv
<1>2. AtUp' /\ AfterFree'
  BY <1>0, <1>1, LeafFacts, MaxLevelAssumption DEF AtUp, AfterFree
<1> QED BY <1>0, <1>1, <1>2
        DEF PointInv, AtDescend, AtMark, AtClear, AtClimb, Routes

LEMMA BuddifyInv ==
  TypeOK /\ TreeInv /\ PointInv /\ Buddify
    => TreeInv' /\ PointInv' /\ pc' # "wild"
<1> SUFFICES ASSUME TypeOK, TreeInv, PointInv, Buddify
             PROVE  TreeInv' /\ PointInv' /\ pc' # "wild"
  OBVIOUS
<1>0. /\ TreeInv'
      /\ \A b \in Taken' : ~In(cur', b)
      /\ UNCHANGED <<blocks, reserved, fn, need, seg, lvl, ret, back>>
      /\ cur' \in Node /\ pc' = IF Lev(cur') = MaxLevel THEN back ELSE "up"
  BY BuddifyTreeInv DEF args
<1>1. pc = "up"
  BY DEF Buddify
<1>2. AtUp'
  <2> SUFFICES ASSUME pc' = "up"
               PROVE  Lev(cur') < MaxLevel
    BY <1>0 DEF AtUp
  <2>1. Lev(cur') # MaxLevel /\ Lev(cur') \in 0..MaxLevel
    BY <1>0, NodeType DEF TypeOK
  <2> QED BY <2>1, MaxLevelAssumption
<1>3. Taken' = Taken
  BY <1>0 DEF Taken
<1>4. /\ back = "probe" => fn = "krealloc" /\ \A b \in Taken : seg \notin Segments(b)
      /\ \/ back = "probe" /\ fn = "krealloc"
         \/ back = "move" /\ fn = "krealloc" /\ ret # NULL
         \/ back = "ret" /\ fn = "kmalloc" /\ ret # NULL
         \/ back = "ret" /\ fn = "kfree"
  BY <1>1 DEF PointInv, AfterFree, Routes
<1>5. pc' \in {"up", "probe", "move", "ret"}
  BY <1>0, <1>4
<1>6. AfterFree'
  BY <1>0, <1>3, <1>4 DEF AfterFree, Segments
<1>7. Routes'
  BY <1>0, <1>4, <1>5 DEF Routes
<1> QED BY <1>0, <1>2, <1>5, <1>6, <1>7
        DEF PointInv, AtDescend, AtMark, AtClear, AtClimb

LEMMA EndInv ==
  TypeOK /\ TreeInv /\ PointInv /\ (Move \/ Return) => TreeInv' /\ PointInv'
<1> SUFFICES ASSUME TypeOK, TreeInv, PointInv, Move \/ Return
             PROVE  TreeInv' /\ PointInv'
  OBVIOUS
<1>1. /\ UNCHANGED <<tree, reserved, blocks>> /\ pc \in {"move", "ret"}
      /\ pc' \in {"ret", "idle"}
      /\ pc' = "ret" => ret' = ret /\ ret # NULL
  BY DEF Move, Return, PointInv, Routes
<1>2. TreeInv'
  BY <1>1, QuietTreeInv
<1> QED BY <1>1, <1>2 DEF PointInv, AtDescend, AtMark, AtUp, AtClear, AtClimb,
                          AfterFree, Routes

LEMMA StutterInv ==
  TreeInv /\ PointInv /\ UNCHANGED vars => TreeInv' /\ PointInv'
<1> SUFFICES ASSUME TreeInv, PointInv, UNCHANGED vars PROVE TreeInv' /\ PointInv'
  OBVIOUS
<1>1. Taken' = Taken /\ \A x : Stale(x)' <=> Stale(x)
  BY DEF vars, Taken, Stale
<1>2. TreeInv'
  BY <1>1 DEF vars, TreeInv, NoOverlap, TakenIsFull, TakenIsHollow, TakenIsSeen,
              EmptyBelow, TopBit, Combined, BitsAreDue
<1>3. PointInv'
  BY <1>1 DEF vars, PointInv, AtDescend, AtMark, AtUp, AtClear, AtClimb,
              AfterFree, Routes
<1> QED BY <1>2, <1>3

-----------------------------------------------------------------------------
(* Results, and krealloc's copy. *)

(* The area a pointer lies in is one. *)
LEMMA OneBlock ==
  ASSUME TypeOK, TreeInv, NEW b \in blocks, NEW c \in blocks, NEW s,
         s \in Segments(b), s \in Segments(c)
  PROVE  b = c
BY TakenDisjoint DEF TreeInv, Taken

LEMMA ResultInit == Init => ResultInv
BY DEF Init, ResultInv, AtGrow, AtGiveUp, GivenUp, AtMove, Unanswered, Wanting

LEMMA CallResult ==
  ASSUME TypeOK, ResultInv,
         \/ \E n \in Requests : Kmalloc(n)
         \/ \E b \in blocks : \E s \in Segment : Kfree(b, s) \/ Kmsz(b, s)
         \/ \E b \in blocks : \E n \in Requests : Krealloc(b, n)
  PROVE  ResultInv'
<1> USE DEF ResultInv, AtGrow, AtGiveUp, GivenUp, AtMove, Unanswered, Wanting
<1>1. CASE \E n \in Requests : Kmalloc(n)
  BY <1>1 DEF Kmalloc, Enter
<1>2. CASE \E b \in blocks : \E s \in Segment : Kfree(b, s) \/ Kmsz(b, s)
  BY <1>2 DEF Kfree, Kmsz, Enter
<1>3. ASSUME NEW b \in blocks, NEW n \in Requests, Krealloc(b, n) PROVE ResultInv'
  BY <1>3 DEF Krealloc, Enter
<1> QED BY <1>1, <1>2, <1>3

(* The steps that leave the areas in use alone. *)
LEMMA QuietResult ==
  ASSUME TypeOK, PointInv, ResultInv,
         ReadRoot \/ Descend \/ Buddify \/ Climb \/ Probe \/ Move \/ UNCHANGED vars
  PROVE  ResultInv'
<1>1. UNCHANGED <<reserved, blocks, fn, need, seg, lvl, ret, back>>
  <2>1. pc = "root" => ret = NULL
    BY DEF ResultInv, Unanswered, Wanting
  <2> QED BY <2>1 DEF ReadRoot, Descend, Buddify, Climb, Probe, Move, vars, args
<1>2. /\ Taken' = Taken /\ \A x : Vacant(x)' <=> Vacant(x)
      /\ \A x : Old(x)' <=> Old(x)
  BY <1>1 DEF Taken, Vacant, Old, FirstSegment, Segments
<1>3. /\ Wanting' => Wanting
      /\ pc' \in {"idle", "climb", "clear"} => pc' = pc
      /\ pc' = "move" \/ (pc' = "up" /\ back' = "move")
           => pc = "move" \/ (pc = "up" /\ back = "move")
  <2>1. pc = "up" => back \in {"probe", "move", "ret"}
    BY DEF PointInv, Routes
  <2> QED BY <1>1, <2>1 DEF ReadRoot, Descend, Buddify, Climb, Probe, Move, vars, Wanting
<1>4. AtGrow' /\ AtGiveUp'
  BY <1>1, <1>2, <1>3 DEF ResultInv, AtGrow, AtGiveUp
<1>5. GivenUp'
  BY <1>1, <1>2, <1>3 DEF ResultInv, GivenUp
<1>6. AtMove'
  <2>1. Copied(ret)' = Copied(ret) /\ Copied(seg)' = Copied(seg)
    BY <1>1 DEF Copied
  <2> QED BY <1>1, <1>2, <1>3, <2>1 DEF ResultInv, AtMove
<1>7. Unanswered'
  BY <1>1, <1>3 DEF ResultInv, Unanswered
<1> QED BY <1>4, <1>5, <1>6, <1>7 DEF ResultInv

LEMMA ReturnResult == Return => ResultInv'
BY DEF Return, ResultInv, AtGrow, AtGiveUp, GivenUp, AtMove, Unanswered, Wanting

(* krealloc gives its area up: from then on nothing in use meets it. *)
LEMMA ClearLeafResult ==
  ASSUME TypeOK, TreeInv, PointInv, ResultInv, ClearLeaf
  PROVE  ResultInv'
<1>1. /\ pc = "clear" /\ pc' = "up" /\ fn \in {"kfree", "krealloc"}
      /\ blocks' = {b \in blocks : seg \notin Segments(b)}
      /\ back' = IF fn = "krealloc" THEN "probe" ELSE "ret"
      /\ UNCHANGED <<reserved, fn, need, seg, lvl, ret>>
  BY DEF ClearLeaf, args, PointInv, Routes
<1>2. ret = NULL
  BY <1>1 DEF ResultInv, Unanswered
<1>3. ASSUME fn = "krealloc" PROVE \E o \in Node : Old(o)' /\ Vacant(o)'
  <2>1. PICK o \in blocks : Old(o)
    BY <1>1, <1>3 DEF ResultInv, AtGiveUp
  <2>2. o \in Node /\ seg \in Segments(o) /\ o \in Taken
    BY <2>1, FirstSegmentFacts DEF TypeOK, Old, Taken
  <2>3. Taken' \subseteq Taken
    BY <1>1 DEF Taken
  <2>4. ASSUME NEW c \in Taken' PROVE Segments(c) \cap Segments(o) = {}
    <3>1. c # o
      BY <2>2, <2>4, ClearTreeInv
    <3> QED BY <2>2, <2>3, <2>4, <3>1, TakenDisjoint DEF TreeInv
  <2>5. Vacant(o)'
    BY <2>4 DEF Vacant, Segments
  <2>6. Old(o)'
    BY <1>1, <2>1 DEF Old, FirstSegment
  <2> QED BY <2>2, <2>5, <2>6
<1> QED BY <1>1, <1>2, <1>3
        DEF ResultInv, AtGrow, AtGiveUp, GivenUp, AtMove, Unanswered

(* The climb over, the area begins at the pointer and has the level found. *)
LEMMA ClimbEndsResult ==
  ASSUME TypeOK, TreeInv, PointInv, ResultInv, ClimbEnds
  PROVE  ResultInv'
<1>1. /\ pc = "climb" /\ UNCHANGED <<reserved, blocks, fn, need, seg, back>>
      /\ \/ fn = "kmsz" /\ pc' = "ret" /\ UNCHANGED ret
         \/ fn = "krealloc" /\ lvl' >= need /\ pc' = "move" /\ ret' = seg
         \/ fn = "krealloc" /\ lvl' < need /\ pc' = "clear" /\ UNCHANGED ret
  BY DEF ClimbEnds, args
<1>2. PICK b \in blocks : seg \in Segments(b) /\ lvl' = Lev(b)
  BY ClimbEndsInv
<1>3. b \in Node /\ b \in Taken
  BY DEF TypeOK, Taken
<1>4. fn = "krealloc" => FirstSegment(b) = seg
  <2> SUFFICES ASSUME fn = "krealloc" PROVE FirstSegment(b) = seg
    OBVIOUS
  <2>1. PICK o \in blocks : FirstSegment(o) = seg
    BY <1>1 DEF ResultInv, AtGrow
  <2>2. seg \in Segments(o)
    BY <2>1, FirstSegmentFacts DEF TypeOK
  <2> QED BY <1>2, <2>1, <2>2, OneBlock
<1>5. AtGiveUp'
  BY <1>1, <1>2, <1>4 DEF AtGiveUp, Old, FirstSegment
<1>6. AtMove'
  <2> SUFFICES ASSUME pc' = "move" PROVE AtMove'
    BY <1>1 DEF AtMove
  <2>1. Segments(b) = seg .. (seg + Pow(lvl') - 1) /\ ret' = seg
    BY <1>1, <1>2, <1>3, <1>4, SegmentsAre
  <2>2. \A c \in Taken \ {b} : Segments(c) \cap Segments(b) = {}
    BY <1>3, TakenDisjoint DEF TreeInv
  <2>3. /\ Taken' = Taken
        /\ Copied(ret)' = Segments(b) /\ Copied(seg)' = Segments(b)
    BY <1>1, <2>1 DEF Taken, Copied
  <2> QED BY <1>1, <1>4, <2>1, <2>2, <2>3 DEF AtMove
<1>7. Unanswered'
  BY <1>1 DEF ResultInv, Unanswered, Wanting
<1> QED BY <1>1, <1>5, <1>6, <1>7 DEF ResultInv, AtGrow, GivenUp, Wanting

(* The wider area: it has room for what the old one held, and nobody else  *)
(* has been given the old one meanwhile.                                   *)
LEMMA MarkResult ==
  ASSUME TypeOK, TreeInv, PointInv, ResultInv, Mark
  PROVE  ResultInv'
<1>1. /\ pc = "mark" /\ pc' = "up" /\ cur \in Node /\ Lev(cur) = need
      /\ fn \in {"kmalloc", "krealloc"}
      /\ blocks' = blocks \cup {cur} /\ ret' = FirstSegment(cur)
      /\ back' = IF fn = "krealloc" THEN "move" ELSE "ret"
      /\ UNCHANGED <<reserved, fn, need, seg, lvl>>
  BY DEF Mark, args, TypeOK, PointInv, AtMark, Routes
<1>2. ASSUME fn = "krealloc"
      PROVE  /\ Copied(ret)' \subseteq Segments(cur)
             /\ \A c \in Taken' \ {cur} :
                  Segments(c) \cap (Copied(ret)' \cup Copied(seg)') = {}
  <2>1. PICK o \in Node : Old(o) /\ Vacant(o)
    BY <1>1, <1>2 DEF ResultInv, GivenUp, Wanting
  <2>2. Copied(seg)' = Segments(o)
    BY <1>1, <2>1, SegmentsAre DEF Copied, Old
  <2>3. Copied(ret)' \subseteq Segments(cur)
    <3>1. lvl \in 0..MaxLevel /\ need \in 0..MaxLevel /\ lvl <= need
      BY <1>1, <2>1, NodeType, MaxLevelAssumption DEF Old, TypeOK
    <3>2. Pow(lvl) <= Pow(need) /\ Pow(lvl) \in Nat /\ Pow(need) \in Nat
      BY <3>1, PowMonotone, PowStep
    <3>3. FirstSegment(cur) \in Nat
      BY <1>1, FirstSegmentFacts, WidthAssumption, MaxLevelAssumption DEF Segment
    <3>4. Segments(cur) = FirstSegment(cur) .. (FirstSegment(cur) + Pow(need) - 1)
      BY <1>1, SegmentsAre
    <3>5. Copied(ret)' = FirstSegment(cur) .. (FirstSegment(cur) + Pow(lvl) - 1)
      BY <1>1 DEF Copied
    <3> QED BY <3>2, <3>3, <3>4, <3>5
  <2>4. Taken' = Taken \cup {cur}
    BY <1>1 DEF Taken
  <2>5. \A c \in Taken' \ {cur} : Segments(c) \cap Segments(cur) = {}
    BY <1>1, <2>4, MarkedIsFree
  <2> QED BY <2>1, <2>2, <2>3, <2>4, <2>5 DEF Vacant
<1>3. AtMove'
  <2>1. cur \in blocks'
    BY <1>1
  <2> QED BY <1>1, <1>2, <2>1 DEF AtMove, Segments, FirstSegment
<1> QED BY <1>1, <1>3 DEF ResultInv, AtGrow, AtGiveUp, GivenUp, Unanswered, Wanting

(* The inductive invariant holds throughout: the tree tells the truth      *)
(* about every node but those over the cursor of a running call.           *)
THEOREM Inductive == Spec => []IInv
<1>1. Init => TreeInv /\ PointInv
  <2>1. Init => PointInv
    BY DEF Init, PointInv, AtDescend, AtMark, AtUp, AtClear, AtClimb,
           AfterFree, Routes
  <2> QED BY <2>1, InitTreeInv
<1>2. TypeOK /\ TreeInv /\ PointInv /\ [Next]_vars => TreeInv' /\ PointInv'
  BY AllSteps, CallInv, ReadRootInv, DescendInv, MarkInv, ClearLeafInv,
     BuddifyInv, ClimbInv, ClimbEndsInv, ProbeInv, EndInv, StutterInv, Zenon
<1>3. Spec => [](TreeInv /\ PointInv)
  BY <1>1, <1>2, TypeCorrect, PTL DEF Spec
<1>4. TypeOK /\ TreeInv /\ PointInv /\ ResultInv /\ [Next]_vars => ResultInv'
  BY AllSteps, CallResult, QuietResult, ReturnResult, ClearLeafResult,
     ClimbEndsResult, MarkResult, Zenon
<1> QED BY <1>3, <1>4, ResultInit, TypeCorrect, PTL DEF Spec, IInv

-----------------------------------------------------------------------------
(* What follows. *)

(* kmalloc and krealloc never hand out a segment in use, nor one that kset *)
(* or kmres took out.                                                      *)
THEOREM NeverOverlaps == Spec => []NoOverlap
<1>1. IInv => NoOverlap
  BY DEF IInv, TreeInv
<1> QED BY <1>1, Inductive, PTL

(* kmalloc and krealloc return 0 only when no aligned area of that size is *)
(* free: merging loses nothing.                                            *)
THEOREM NoFalseFailure == Spec => []FailsOnlyWhenFull
<1>1. IInv => FailsOnlyWhenFull
  <2> SUFFICES ASSUME IInv, pc = "ret", fn \in {"kmalloc", "krealloc"}, ret = NULL,
                      NEW x \in Node, Lev(x) = need
               PROVE  \E b \in Taken : In(b, x) \/ In(x, b)
    BY DEF FailsOnlyWhenFull, FreeArea
  <2>1. need \in tree[Root] /\ In(x, Root) /\ Root \in Node
    BY RootFacts DEF IInv, PointInv, Routes
  <2>2. ~Stale(Root)
    BY DEF Stale
  <2> QED BY <2>1, <2>2 DEF IInv, TreeInv, BitsAreDue, Overlap
<1> QED BY <1>1, Inductive, PTL

(* kmsz and krealloc recognise exactly the area their pointer lies in. *)
THEOREM ClimbCorrect == Spec => ClimbFindsBlock
<1>1. IInv /\ [Next]_vars
        => [ClimbEnds => \E b \in blocks : seg \in Segments(b) /\ lvl' = Lev(b)]_vars
  BY ClimbEndsInv DEF IInv
<1> QED BY <1>1, Inductive, PTL DEF Spec, ClimbFindsBlock

(* krealloc's memmove writes nothing but the area it returns, and reads    *)
(* nothing that has been given to another caller since.                    *)
THEOREM MovesInBounds == Spec => []MoveInBounds
<1>1. IInv => MoveInBounds
  BY DEF IInv, ResultInv, AtMove, MoveInBounds, Copied
<1> QED BY <1>1, Inductive, PTL

(* As long as no caller asks for more than the arena, no call leaves the   *)
(* control structure.                                                      *)
THEOREM NeverWild ==
  Requests \subseteq 0..MaxLevel => (Spec => []StaysInTree)
<1> SUFFICES ASSUME Requests \subseteq 0..MaxLevel PROVE Spec => []StaysInTree
  OBVIOUS
<1> DEFINE J == pc # "wild" /\ need \in 0..MaxLevel
<1>1. Init => J
  BY MaxLevelAssumption DEF Init
<1>2. IInv /\ J /\ [Next]_vars => J'
  <2> SUFFICES ASSUME IInv, J, [Next]_vars PROVE J'
    OBVIOUS
  <2>0. TypeOK /\ TreeInv /\ PointInv /\ 0 \in 0..MaxLevel
    BY MaxLevelAssumption DEF IInv
  <2>1. CASE Descend
    <3>1. AtDescend /\ Lev(cur) \in 0..MaxLevel
      BY <2>0, NodeType DEF PointInv, TypeOK
    <3>2. pc = "descend" /\ need <= Lev(cur)
      BY <2>1, <3>1, MaxLevelAssumption DEF Descend, AtDescend
    <3>3. ~(Lev(cur) # need /\ Lev(cur) = 0)
      BY <3>1, <3>2, MaxLevelAssumption
    <3> QED BY <2>1, <3>3 DEF Descend, args
  <2>2. CASE Buddify
    BY <2>0, <2>2, BuddifyInv, BuddifyTreeInv DEF args
  <2>3. CASE Climb
    BY <2>0, <2>3, ClimbInv DEF Climb, args
  <2>4. CASE ClimbEnds
    BY <2>0, <2>4, ClimbEndsInv DEF ClimbEnds, args
  <2>5. CASE Probe
    <3>1. ~(need > MaxLevel)
      BY MaxLevelAssumption
    <3> QED BY <2>5, <3>1 DEF Probe, args
  <2>6. CASE \/ UNCHANGED vars
             \/ \E n \in Requests : Kmalloc(n)
             \/ \E b \in blocks : \E s \in Segment : Kfree(b, s) \/ Kmsz(b, s)
             \/ \E b \in blocks : \E n \in Requests : Krealloc(b, n)
    BY <2>0, <2>6 DEF vars, Kmalloc, Kfree, Kmsz, Krealloc, Enter
  <2>7. CASE ReadRoot \/ Mark \/ ClearLeaf \/ Move \/ Return
    BY <2>0, <2>7 DEF ReadRoot, Mark, ClearLeaf, Move, Return, args
  <2> QED BY <2>1, <2>2, <2>3, <2>4, <2>5, <2>6, <2>7, AllSteps
<1>3. J => StaysInTree
  BY DEF StaysInTree
<1> HIDE DEF J
<1> QED BY <1>1, <1>2, <1>3, Inductive, PTL DEF Spec

-----------------------------------------------------------------------------
(* The refinement. *)

LEMMA SameNodes ==
  /\ Heap!Node = Node
  /\ \A x : Heap!Lev(x) = Lev(x) /\ Heap!Leaf(x) = Leaf(x)
  /\ \A x, y : Heap!In(x, y) <=> In(x, y)
  /\ \A x : Heap!FirstSegment(x) = FirstSegment(x) /\ Heap!Segments(x) = Segments(x)
BY DEF Heap!Node, Node, Heap!Lev, Lev, Heap!Idx, Idx, Heap!Leaf, Leaf, Heap!Pow, Pow,
       Heap!In, In, Heap!FirstSegment, FirstSegment, Heap!Segments, Segments,
       Heap!Segment, Segment

(* The point of the code, as the job of the abstract heap. *)
JobAtPoint ==
  /\ pc = "idle" => Job = "none"
  /\ Wanting => Job = "want"
  /\ pc = "clear" /\ fn = "kfree" => Job = "drop"
  /\ pc \in {"climb", "clear"} /\ fn = "krealloc" => Job = "grow"
  /\ pc = "climb" /\ fn = "kmsz" => Job = "measure"
  /\ pc \in {"move", "ret"} \/ (pc = "up" /\ back # "probe") => Job = "done"

LEMMA JobIs == JobAtPoint /\ JobAtPoint'
BY DEF JobAtPoint, Job, Wanting

LEMMA StartsAsHeap == Init => Heap!HInit
BY JobIs DEF JobAtPoint, Init, Heap!HInit

LEMMA CallIsAsk ==
  ASSUME IInv,
         \/ \E n \in Requests : Kmalloc(n)
         \/ \E b \in blocks : \E s \in Segment : Kfree(b, s) \/ Kmsz(b, s)
         \/ \E b \in blocks : \E n \in Requests : Krealloc(b, n)
  PROVE  Heap!HCall
<1>1. Job = "none" /\ UNCHANGED <<blocks, reserved, ret>>
  BY JobIs DEF JobAtPoint, Kmalloc, Kfree, Kmsz, Krealloc, Enter
<1>2. /\ Wanting' => Job' = "want"
      /\ pc' = "clear" /\ fn' = "kfree" => Job' = "drop"
      /\ pc' = "climb" /\ fn' = "krealloc" => Job' = "grow"
      /\ pc' = "climb" /\ fn' = "kmsz" => Job' = "measure"
  BY JobIs DEF JobAtPoint
<1>3. ASSUME NEW n \in Requests, Kmalloc(n) PROVE Heap!Ask("want", n, 0)
  BY <1>1, <1>2, <1>3 DEF Kmalloc, Enter, Wanting, Heap!Ask
<1>4. ASSUME NEW b \in blocks, NEW s \in Segment, Kfree(b, s)
      PROVE  s \in Segments(b) /\ Heap!Ask("drop", 0, s)
  BY <1>1, <1>2, <1>4 DEF Kfree, Enter, Heap!Ask
<1>5. ASSUME NEW b \in blocks, NEW s \in Segment, Kmsz(b, s)
      PROVE  s \in Segments(b) /\ Heap!Ask("measure", 0, s)
  BY <1>1, <1>2, <1>5 DEF Kmsz, Enter, Heap!Ask
<1>6. ASSUME NEW b \in blocks, NEW n \in Requests, Krealloc(b, n)
      PROVE  Heap!Ask("grow", n, FirstSegment(b))
  BY <1>1, <1>2, <1>6 DEF Krealloc, Enter, Heap!Ask
<1> QED BY <1>3, <1>4, <1>5, <1>6, SameNodes DEF Heap!HCall

(* Out of memory: no area of the size is free.  A request for more than    *)
(* the arena finds none either.                                            *)
LEMMA NoneFree ==
  ASSUME IInv, need \in tree[Root] \/ need > MaxLevel, pc # "up"
  PROVE  \A x \in Node : Lev(x) = need => ~Heap!FreeNode(x)
<1> SUFFICES ASSUME NEW x \in Node, Lev(x) = need PROVE ~Heap!FreeNode(x)
  OBVIOUS
<1>1. Lev(x) \in 0..MaxLevel
  BY NodeType
<1>2. need \in tree[Root]
  BY <1>1, MaxLevelAssumption
<1>3. ~Stale(Root) /\ In(x, Root) /\ Root \in Node
  BY RootFacts DEF Stale
<1>4. PICK b \in Taken : Overlap(x, b)
  BY <1>2, <1>3 DEF IInv, TreeInv, BitsAreDue
<1>5. CASE b \in blocks
  BY <1>4, <1>5, SameNodes DEF Overlap, Heap!FreeNode
<1>6. ASSUME NEW s \in reserved, b = Leaf(s) PROVE ~Heap!FreeNode(x)
  <2>1. s \in Segment
    BY ReservedAssumption DEF IInv, TypeOK
  <2>2. b \in Node /\ Lev(b) = 0
    BY <1>6, <2>1, LeafFacts
  <2>3. In(x, b) => x = b
    BY <1>1, <2>2, InSameLevel, MaxLevelAssumption
  <2>4. In(b, x)
    BY <1>4, <2>2, <2>3, InRefl DEF Overlap
  <2> QED BY <1>6, <2>4, SameNodes DEF Heap!FreeNode
<1> QED BY <1>4, <1>5, <1>6 DEF Taken

LEMMA RefuseStep ==
  ASSUME IInv, Wanting, pc # "up", need \in tree[Root] \/ need > MaxLevel,
         pc' \in {"ret", "wild"}, UNCHANGED <<blocks, reserved, need, seg, ret>>
  PROVE  Heap!Refuse
<1>1. Job = "want"
  BY JobIs DEF JobAtPoint
<1>2. Job' = "done"
  BY DEF Job
<1>3. \A x \in Heap!Node : Heap!Lev(x) = need => ~Heap!FreeNode(x)
  BY NoneFree, SameNodes
<1> QED BY <1>1, <1>2, <1>3 DEF Heap!Refuse

LEMMA WantStep ==
  ASSUME IInv, ReadRoot \/ Descend \/ Probe
  PROVE  Heap!Refuse \/ UNCHANGED Heap!hvars
<1>1. Wanting /\ pc # "up" /\ need \in Nat
  BY DEF ReadRoot, Descend, Probe, Wanting, IInv, TypeOK
<1>2. UNCHANGED <<blocks, reserved, need, seg, ret>>
  <2>1. ret = NULL
    BY <1>1 DEF IInv, ResultInv, Unanswered
  <2> QED BY <2>1 DEF ReadRoot, Descend, Probe, args
<1>3. CASE Wanting'
  <2>1. Job = "want" /\ Job' = "want"
    BY <1>1, <1>3, JobIs DEF JobAtPoint
  <2> QED BY <1>2, <2>1 DEF Heap!hvars
<1>4. CASE ~Wanting'
  <2>1. pc' \in {"ret", "wild"}
    BY <1>4 DEF ReadRoot, Descend, Probe, Wanting
  <2>2. need \in tree[Root] \/ need > MaxLevel
    <3>1. CASE ReadRoot
      BY <1>4, <3>1 DEF ReadRoot, Wanting
    <3>2. CASE Probe
      BY <1>4, <3>2 DEF Probe, Wanting
    <3>3. CASE Descend
      <4>1. Lev(cur) # need /\ Lev(cur) = 0 /\ pc = "descend"
        BY <1>4, <3>3 DEF Descend, Wanting
      <4>2. ~(need <= MaxLevel)
        BY <1>1, <4>1 DEF IInv, PointInv, AtDescend
      <4> QED BY <1>1, <4>2, MaxLevelAssumption
    <3> QED BY <3>1, <3>2, <3>3
  <2> QED BY <1>1, <1>2, <2>1, <2>2, RefuseStep
<1> QED BY <1>3, <1>4

LEMMA MarkIsGrant ==
  ASSUME IInv, Mark
  PROVE  Heap!Grant(cur) /\ cur \in Node
<1>1. /\ pc = "mark" /\ pc' = "up" /\ back' \in {"move", "ret"}
      /\ blocks' = blocks \cup {cur} /\ ret' = FirstSegment(cur)
      /\ UNCHANGED <<reserved, need, seg>>
      /\ cur \in Node /\ Lev(cur) = need
  BY DEF Mark, args, IInv, TypeOK, PointInv, AtMark
<1>2. Job = "want" /\ Job' = "done"
  BY <1>1, JobIs DEF JobAtPoint, Wanting
<1>3. Heap!FreeNode(cur)
  <2>1. \A b \in Taken : ~In(b, cur) /\ ~In(cur, b)
    BY <1>1, MarkedIsFree DEF IInv
  <2> QED BY <2>1, SameNodes DEF Heap!FreeNode, Taken
<1> QED BY <1>1, <1>2, <1>3, SameNodes DEF Heap!Grant

LEMMA ClearIsRelease ==
  ASSUME IInv, ClearLeaf
  PROVE  \E b \in blocks : Heap!Release(b) \/ Heap!GiveUp(b)
<1>1. /\ pc = "clear" /\ pc' = "up" /\ fn \in {"kfree", "krealloc"}
      /\ blocks' = {b \in blocks : seg \notin Segments(b)}
      /\ back' = IF fn = "krealloc" THEN "probe" ELSE "ret"
      /\ UNCHANGED <<reserved, need, seg, ret>>
  BY DEF ClearLeaf, args, IInv, PointInv, Routes
<1>2. ASSUME NEW b \in blocks, seg \in Segments(b) PROVE blocks' = blocks \ {b}
  BY <1>1, <1>2, OneBlock DEF IInv
<1>3. CASE fn = "kfree"
  <2>1. PICK b \in blocks : seg \in Segments(b)
    BY <1>1 DEF IInv, PointInv, AtClear
  <2>2. Job = "drop" /\ Job' = "done"
    BY <1>1, <1>3, JobIs DEF JobAtPoint
  <2> QED BY <1>1, <1>2, <2>1, <2>2, SameNodes DEF Heap!Release
<1>4. CASE fn = "krealloc"
  <2>1. PICK b \in blocks : Old(b)
    BY <1>1, <1>4 DEF IInv, ResultInv, AtGiveUp
  <2>2. seg \in Segments(b) /\ Lev(b) < need
    BY <2>1, FirstSegmentFacts DEF Old, IInv, TypeOK
  <2>3. Job = "grow" /\ Job' = "want"
    BY <1>1, <1>4, JobIs DEF JobAtPoint, Wanting
  <2> QED BY <1>1, <1>2, <2>2, <2>3, SameNodes DEF Heap!GiveUp
<1> QED BY <1>1, <1>3, <1>4

LEMMA ClimbEndsIsMeasure ==
  ASSUME IInv, ClimbEnds
  PROVE  \/ Heap!Measure \/ UNCHANGED Heap!hvars
         \/ \E b \in blocks : Heap!Keep(b)
<1>1. /\ pc = "climb" /\ UNCHANGED <<reserved, blocks, fn, need, seg>>
      /\ \/ fn = "kmsz" /\ pc' = "ret" /\ UNCHANGED ret
         \/ fn = "krealloc" /\ lvl' >= need /\ pc' = "move" /\ ret' = seg
         \/ fn = "krealloc" /\ lvl' < need /\ pc' = "clear" /\ UNCHANGED ret
  BY DEF ClimbEnds, args
<1>2. PICK b \in blocks : seg \in Segments(b) /\ lvl' = Lev(b)
  BY ClimbEndsInv DEF IInv
<1>3. CASE fn = "kmsz" /\ pc' = "ret" /\ UNCHANGED ret
  <2>1. Job = "measure" /\ Job' = "done"
    BY <1>1, <1>3, JobIs DEF JobAtPoint
  <2> QED BY <1>1, <1>3, <2>1 DEF Heap!Measure
<1>4. CASE fn = "krealloc" /\ lvl' >= need /\ pc' = "move" /\ ret' = seg
  <2>1. Job = "grow" /\ Job' = "done"
    BY <1>1, <1>4, JobIs DEF JobAtPoint
  <2>2. Heap!Keep(b)
    BY <1>1, <1>2, <1>4, <2>1, SameNodes DEF Heap!Keep
  <2> QED BY <2>2
<1>5. CASE fn = "krealloc" /\ lvl' < need /\ pc' = "clear" /\ UNCHANGED ret
  <2>1. Job = "grow" /\ Job' = "grow"
    BY <1>1, <1>5, JobIs DEF JobAtPoint
  <2> QED BY <1>1, <1>5, <2>1 DEF Heap!hvars
<1> QED BY <1>1, <1>3, <1>4, <1>5

LEMMA OtherStepsStutter ==
  ASSUME IInv, Buddify \/ Climb \/ Move \/ UNCHANGED vars
  PROVE  UNCHANGED Heap!hvars
<1>1. UNCHANGED <<blocks, reserved, fn, need, seg, ret, back>>
  BY DEF Buddify, Climb, Move, vars, args
<1>2. Job' = Job
  <2>1. CASE Buddify
    <3>1. pc = "up" /\ pc' \in {"up", back} /\ back \in {"probe", "move", "ret"}
      BY <2>1, BuddifyInv DEF IInv, Buddify, PointInv, Routes
    <3>2. back' = back
      BY <1>1
    <3>3. (Wanting <=> back = "probe") /\ (Wanting' <=> back = "probe")
      BY <3>1, <3>2 DEF Wanting
    <3>4. Job = IF back = "probe" THEN "want" ELSE "done"
      BY <3>1, <3>3, JobIs DEF JobAtPoint
    <3>5. Job' = IF back = "probe" THEN "want" ELSE "done"
      BY <3>1, <3>2, <3>3, JobIs DEF JobAtPoint
    <3> QED BY <3>4, <3>5
  <2>2. CASE Climb
    <3>1. pc' = "climb" /\ pc = "climb"
      BY <2>2, ClimbInv DEF Climb, IInv
    <3> QED BY <1>1, <3>1 DEF Job
  <2>3. CASE Move
    BY <2>3 DEF Move, Job
  <2>4. CASE UNCHANGED vars
    BY <2>4 DEF vars, Job
  <2> QED BY <2>1, <2>2, <2>3, <2>4
<1> QED BY <1>1, <1>2 DEF Heap!hvars

LEMMA ReturnIsAnswer == Return => Heap!Answer
<1> SUFFICES ASSUME Return PROVE Heap!Answer
  OBVIOUS
<1>1. Job = "done" /\ Job' = "none"
  BY JobIs DEF JobAtPoint, Return
<1> QED BY <1>1 DEF Return, Heap!Answer

(* Every step of the tree walks is a step of the heap of kmalloc.h or      *)
(* leaves it as it is: each call takes effect at once, on a free area of   *)
(* the size asked for, or is refused when there is none.                   *)
THEOREM HeapRefined ==
  Spec => Heap!HInit /\ [][Heap!HCall \/ Heap!Serve]_(Heap!hvars)
<1>1. IInv /\ [Next]_vars => [Heap!HCall \/ Heap!Serve]_(Heap!hvars)
  <2> SUFFICES ASSUME IInv, [Next]_vars
               PROVE  Heap!HCall \/ Heap!Serve \/ UNCHANGED Heap!hvars
    OBVIOUS
  <2>1. CASE Mark
    BY <2>1, MarkIsGrant, SameNodes DEF Heap!Serve
  <2>2. CASE ClearLeaf
    BY <2>2, ClearIsRelease DEF Heap!Serve
  <2>3. CASE ClimbEnds
    BY <2>3, ClimbEndsIsMeasure DEF Heap!Serve
  <2>4. CASE Return
    BY <2>4, ReturnIsAnswer DEF Heap!Serve
  <2>5. CASE ReadRoot \/ Descend \/ Probe
    BY <2>5, WantStep DEF Heap!Serve
  <2> QED BY <2>1, <2>2, <2>3, <2>4, <2>5, AllSteps, CallIsAsk, OtherStepsStutter, Zenon
<1> QED BY <1>1, StartsAsHeap, Inductive, PTL DEF Spec
=============================================================================
