----------------------------- MODULE KmallocInv -----------------------------
(***************************************************************************)
(* The inductive invariant behind the allocator's safety.  A call marks or *)
(* clears one node and recomputes its ancestors one by one, so while pc is *)
(* "up" the ancestors still to come are stale and exempt.                  *)
(***************************************************************************)
EXTENDS KmallocProps

Stale(x) == pc = "up" /\ x # cur /\ In(cur, x)

Overlap(x, y) == In(x, y) \/ In(y, x)

(* An area in use has all its bits set, and nothing below it. *)
TakenIsFull == \A b \in Taken : tree[b] = Ones(b)
TakenIsHollow ==
  \A b \in Taken : \A y \in Node : In(y, b) /\ y # b => tree[y] = {}

(* No node over an area in use reads as empty, *)
TakenIsSeen ==
  \A b \in Taken : \A x \in Node : In(b, x) /\ ~Stale(x) => tree[x] # {}

(* a node that reads as empty is empty all the way down, *)
EmptyBelow ==
  \A x, y \in Node : ~Stale(x) /\ tree[x] = {} /\ In(y, x) => tree[y] = {}

(* a node that does not read as empty has its top bit set, *)
TopBit == \A x \in Node : tree[x] # {} => Lev(x) \in tree[x]

(* and the others are what buddify makes of their children. *)
Combined ==
  \A x \in Node :
    Lev(x) > 0 /\ x \notin Taken /\ ~Stale(x)
      => tree[x] = Combine(x, tree[LeftChild(x)], tree[RightChild(x)])

(* A bit is set only where every area of its size meets an area in use.    *)
BitsAreDue ==
  \A x, y \in Node :
    ~Stale(x) /\ Lev(y) \in tree[x] /\ In(y, x)
      => \E b \in Taken : Overlap(y, b)

(* What the points of the code know about the node at hand. *)
AtDescend ==
  pc = "descend" /\ need <= MaxLevel
    => /\ need <= Lev(cur)
       /\ need \notin tree[cur]
       /\ \A b \in Taken : ~In(cur, b)
AtMark ==
  pc = "mark" => /\ tree[cur] = {}
                 /\ \A b \in Taken : ~In(cur, b)
                 /\ Lev(cur) = need
AtUp ==
  pc = "up" => /\ Lev(cur) < MaxLevel
               /\ \A b \in Taken : In(cur, b) => b = cur
AtClear == pc = "clear" => \E b \in blocks : seg \in Segments(b)
AtClimb ==
  pc = "climb" => \E b \in blocks : seg \in Segments(b) /\ In(cur, b)
AfterFree ==
  pc = "probe" \/ (pc = "up" /\ back = "probe")
    => \A b \in Taken : seg \notin Segments(b)

(* The functions a point belongs to, and where a result comes from.        *)
Routes ==
  /\ pc \in {"root", "descend", "mark"} => fn \in {"kmalloc", "krealloc"}
  /\ pc = "clear" => fn \in {"kfree", "krealloc"}
  /\ pc = "climb" => fn \in {"krealloc", "kmsz"}
  /\ pc = "up" => \/ back = "probe" /\ fn = "krealloc"
                  \/ back = "move" /\ fn = "krealloc" /\ ret # NULL
                  \/ back = "ret" /\ fn = "kmalloc" /\ ret # NULL
                  \/ back = "ret" /\ fn = "kfree"
  /\ pc = "probe" => fn = "krealloc"
  /\ pc = "move" => ret # NULL
  /\ pc = "ret" /\ fn \in {"kmalloc", "krealloc"} /\ ret = NULL
       => need \in tree[Root]

TreeInv == /\ NoOverlap
           /\ TakenIsFull /\ TakenIsHollow /\ TakenIsSeen
           /\ EmptyBelow /\ TopBit /\ Combined /\ BitsAreDue

PointInv == /\ AtDescend /\ AtMark /\ AtUp /\ AtClear /\ AtClimb
            /\ AfterFree /\ Routes

-----------------------------------------------------------------------------
(* krealloc: the area the pointer begins, held or given up, has the level  *)
(* the climb found, and once given up nothing in use meets it.             *)
Old(x) == FirstSegment(x) = seg /\ Lev(x) = lvl /\ lvl < need

Vacant(x) == \A c \in Taken : Segments(c) \cap Segments(x) = {}

Wanting == pc \in {"probe", "root", "descend", "mark"} \/ (pc = "up" /\ back = "probe")

AtGrow == pc = "climb" /\ fn = "krealloc" => \E o \in blocks : FirstSegment(o) = seg
AtGiveUp == pc = "clear" /\ fn = "krealloc" => \E o \in blocks : Old(o)
GivenUp == Wanting /\ fn = "krealloc" => \E o \in Node : Old(o) /\ Vacant(o)

(* What memmove will write to and read from. *)
Copied(first) == first .. (first + Pow(lvl) - 1)

AtMove ==
  pc = "move" \/ (pc = "up" /\ back = "move")
    => \E b \in blocks :
         /\ FirstSegment(b) = ret
         /\ Copied(ret) \subseteq Segments(b)
         /\ \A c \in Taken \ {b} : Segments(c) \cap (Copied(ret) \cup Copied(seg)) = {}

(* No call has its result before the heap has changed for it. *)
Unanswered == Wanting \/ pc \in {"idle", "climb", "clear"} => ret = NULL

ResultInv == AtGrow /\ AtGiveUp /\ GivenUp /\ AtMove /\ Unanswered

IInv == TypeOK /\ TreeInv /\ PointInv /\ ResultInv
=============================================================================
