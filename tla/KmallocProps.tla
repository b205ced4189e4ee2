---------------------------- MODULE KmallocProps ----------------------------
(***************************************************************************)
(* What the allocator promises (src/src/kernel/kmalloc.h) and the          *)
(* inductive invariant its safety rests on.                                *)
(***************************************************************************)
EXTENDS Kmalloc

(* The state has the shape the registers and the tree give it: a node of   *)
(* level l holds bits 0..l, the cursor stays on a node, a result is NULL   *)
(* or a segment.                                                           *)
TypeOK ==
  /\ tree \in [Node -> SUBSET Nat]
  /\ \A x \in Node : tree[x] \subseteq 0..Lev(x)
  /\ reserved \in ReservedSets
  /\ blocks \subseteq Node
  /\ pc \in Points
  /\ fn \in {"none", "kmalloc", "kfree", "krealloc", "kmsz"}
  /\ need \in Nat
  /\ seg \in Segment
  /\ cur \in Node
  /\ lvl \in 0..MaxLevel
  /\ ret \in Segment \cup {NULL}
  /\ back \in {"ret", "move", "probe"}

-----------------------------------------------------------------------------
(* Safety. *)

(* No segment is handed out twice, and none that kset or kmres took out is *)
(* handed out: kmalloc and krealloc never return memory in use.            *)
NoOverlap ==
  /\ \A b, c \in blocks : b # c => Segments(b) \cap Segments(c) = {}
  /\ \A b \in blocks : Segments(b) \cap reserved = {}

(* A set of 2^n aligned segments that is wholly free. *)
FreeArea(n) ==
  \E x \in Node : /\ Lev(x) = n
                  /\ \A b \in Taken : ~In(b, x) /\ ~In(x, b)

(* kmalloc and krealloc return 0 only when no aligned area of the size     *)
(* asked for is free: freed buddies have merged back, whatever the order   *)
(* of the calls that split and freed them (kfree's full_buddify).          *)
FailsOnlyWhenFull ==
  pc = "ret" /\ fn \in {"kmalloc", "krealloc"} /\ ret = NULL => ~FreeArea(need)

(* No call leaves the control structure: neither allocate below a leaf nor *)
(* full_buddify above the root nor a climb past it.                        *)
StaysInTree == pc # "wild"

(* The climb of kmsz and krealloc finds the very area the pointer lies in: *)
(* neither an enclosing node nor one of its empty parts.                   *)
ClimbFindsBlock ==
  [][ClimbEnds => \E b \in blocks : seg \in Segments(b) /\ lvl' = Lev(b)]_vars

(* krealloc's memmove writes 2^lvl segments inside the area it returns: it *)
(* reaches no other caller's memory although the old area is freed first   *)
(* and the copy takes the old area's length.                               *)
MoveInBounds ==
  pc = "move" /\ ret # NULL
    => LET written == ret..(ret + Pow(lvl) - 1)
       IN  \E b \in blocks :
             /\ FirstSegment(b) = ret
             /\ written \subseteq Segments(b)
             /\ \A c \in Taken \ {b} :
                  Segments(c) \cap (written \cup seg..(seg + Pow(lvl) - 1)) = {}

(* Every call returns: the descent, the climbs and the recomputation end.  *)
CallsReturn == pc # "idle" ~> pc = "idle"

-----------------------------------------------------------------------------
(* The detailed allocator against the abstract heap. *)

(* What the running call still has to do, told from the point it reached.  *)
Job == CASE pc = "idle" -> "none"
         [] pc \in {"root", "descend", "mark", "probe"} -> "want"
         [] pc = "up" /\ back = "probe" -> "want"
         [] pc = "clear" /\ fn = "kfree" -> "drop"
         [] pc \in {"climb", "clear"} /\ fn = "krealloc" -> "grow"
         [] pc = "climb" /\ fn = "kmsz" -> "measure"
         [] OTHER -> "done"

Heap == INSTANCE BuddyHeap
          WITH live <- blocks, kept <- reserved, job <- Job, at <- seg,
               answer <- ret

(* The tree walks of kmalloc, kfree, krealloc and kmsz amount to the heap  *)
(* of kmalloc.h: each call takes effect in one step, on a free area of the *)
(* size asked for or not at all, and is answered.                          *)
ImplementsHeap == Heap!HSpec

=============================================================================
