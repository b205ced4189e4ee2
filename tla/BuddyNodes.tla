----------------------------- MODULE BuddyNodes -----------------------------
(***************************************************************************)
(* The shape of the allocator's arena (src/src/kernel/kmalloc.asm): blocks *)
(* of 1024 bytes, "segments", under a binary tree.  A node of level l      *)
(* covers 2^l segments and is the pair <<level, index>>, the two arguments *)
(* of gettreeelement and settreeelement.                                   *)
(***************************************************************************)
EXTENDS Integers, FiniteSets

CONSTANTS
  MaxLevel,      \* max_tree_level: the level of the root
  Width,         \* Width[l] = tree_levels[l].size, the nodes of level l
  Requests,      \* sizes asked for, as exponents of two (the loops 429-437, 218-228)
  ReservedSets,  \* the sets of segments kset and kmres may have taken out
  NULL           \* the pointer 0

ASSUME MaxLevelAssumption == MaxLevel \in Nat \ {0}

(* it_ptl3 halves the number of nodes at each level until one is left. *)
ASSUME WidthAssumption ==
  /\ Width \in [0..MaxLevel -> Nat \ {0}]
  /\ Width[MaxLevel] = 1
  /\ \A l \in 0..(MaxLevel - 1) : Width[l] = 2 * Width[l + 1]

ASSUME RequestsAssumption == Requests \subseteq Nat

Segment == 0..(Width[0] - 1)

ASSUME ReservedAssumption ==
  ReservedSets \subseteq (SUBSET Segment) \ {{}}

ASSUME NullAssumption == NULL \notin Segment

-----------------------------------------------------------------------------
Node == {x \in (0..MaxLevel) \X (0..(Width[0] - 1)) : x[2] < Width[x[1]]}

Lev(x) == x[1]
Idx(x) == x[2]
Root == <<MaxLevel, 0>>
Leaf(s) == <<0, s>>

(* 2^d, read off the level sizes. *)
Pow(d) == Width[MaxLevel - d]

Parent(x) == <<Lev(x) + 1, Idx(x) \div 2>>
LeftChild(x) == <<Lev(x) - 1, 2 * Idx(x)>>
RightChild(x) == <<Lev(x) - 1, 2 * Idx(x) + 1>>

(* Node x lies in the subtree of node y (x = y included). *)
In(x, y) ==
  /\ Lev(x) <= Lev(y)
  /\ Idx(y) * Pow(Lev(y) - Lev(x)) <= Idx(x)
  /\ Idx(x) < (Idx(y) + 1) * Pow(Lev(y) - Lev(x))

Ancestor(s, l) == <<l, s \div Pow(l)>>
FirstSegment(x) == Idx(x) * Pow(Lev(x))
Segments(x) == {s \in Segment : In(Leaf(s), x)}

=============================================================================
