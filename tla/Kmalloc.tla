------------------------------ MODULE Kmalloc ------------------------------
(***************************************************************************)
(* The buddy allocator of the kernel (src/src/kernel/kmalloc.asm).         *)
(*                                                                         *)
(* A node of level l holds l + 1 bits, bit k set when no free area of 2^k  *)
(* segments can be found inside the node.  Its value is the set of its     *)
(* bits that are set.                                                      *)
(*                                                                         *)
(* Every loop of the assembly is a loop here: one step per level that      *)
(* allocate descends, per ancestor that full_buddify recomputes and per    *)
(* level that kmsz and krealloc climb.  pc is the point the running call   *)
(* has reached.  The kernel runs one call at a time: the system calls that *)
(* reach the allocator run behind interrupt gates.                         *)
(***************************************************************************)
EXTENDS BuddyNodes

-----------------------------------------------------------------------------
(* Slips of the code, each used to show that a property can tell.          *)
OnesBelowTop(x) == 0..(Lev(x) - 1)
CombineByOr(x, left, right) ==
  (left \cup right)
    \cup {k \in {Lev(x)} : Lev(x) - 1 \in left \cup right}

(* All bits of a node set: settreeelement(level, node, 0xFFFFFFFF). *)
Ones(x) == 0..Lev(x)

(* buddify: the bits both children share, and the top bit of the node when *)
(* a child is not wholly free.                                             *)
Combine(x, left, right) ==
  (left \cap right)
    \cup {k \in {Lev(x)} : Lev(x) - 1 \in left \cup right}

(* The tree kset, initializetree and kmres leave behind (KmallocBoot has   *)
(* their loops): a bit is set where every aligned area of that size holds  *)
(* a segment taken out.                                                    *)
TreeOver(taken) ==
  [x \in Node |->
     {k \in 0..Lev(x) :
        \A y \in Node : Lev(y) = k /\ In(y, x)
                          => \E s \in taken : In(Leaf(s), y)}]

-----------------------------------------------------------------------------
VARIABLES
  tree,      \* the control structure
  reserved,  \* the segments taken out at boot
  blocks,    \* the areas the callers hold, as nodes
  pc,        \* where the running call stands
  fn,        \* the function called: "kmalloc", "kfree", "krealloc", "kmsz"
  need,      \* the exponent asked for (ECX in kmalloc, EBX in krealloc)
  seg,       \* the segment of the pointer passed
  cur,       \* the node at hand (level and number registers)
  lvl,       \* the level the climb found (ESI)
  ret,       \* the result: a segment, or NULL
  back       \* where full_buddify returns to

vars == <<tree, reserved, blocks, pc, fn, need, seg, cur, lvl, ret, back>>
args == <<fn, need, seg>>

Points == {"idle", "root", "descend", "mark", "clear", "up", "climb",
           "probe", "move", "ret", "wild"}

Init ==
  /\ reserved \in ReservedSets
  /\ tree = TreeOver(reserved)
  /\ blocks = {}
  /\ pc = "idle" /\ fn = "none" /\ need = 0 /\ seg = 0
  /\ cur = Root /\ lvl = 0 /\ ret = NULL /\ back = "ret"

(* What cannot be handed out: the areas in use, and what boot took out. *)
Taken == blocks \cup {Leaf(s) : s \in reserved}

-----------------------------------------------------------------------------
(* The calls.  A caller passes a pointer into an area it holds: anywhere   *)
(* in it for kfree and kmsz, its first byte for krealloc (kmalloc.h).      *)

Enter(f, n, s, point) ==
  /\ pc = "idle"
  /\ fn' = f /\ need' = n /\ seg' = s /\ pc' = point
  /\ UNCHANGED <<tree, reserved, blocks, lvl, ret, back>>

Kmalloc(n) == Enter("kmalloc", n, 0, "root") /\ cur' = Root

Kfree(b, s) == /\ s \in Segments(b)
               /\ Enter("kfree", 0, s, "clear") /\ cur' = Leaf(s)

Krealloc(b, n) == LET s == FirstSegment(b)
                  IN  Enter("krealloc", n, s, "climb") /\ cur' = Leaf(s)

Kmsz(b, s) == /\ s \in Segments(b)
              /\ Enter("kmsz", 0, s, "climb") /\ cur' = Leaf(s)

(* kmalloc reads bit "need" of the root; a set bit means out of memory.    *)
(* Asked for more than the arena, the root has no such bit: it reads 0.    *)
ReadRoot ==
  /\ pc = "root"
  /\ cur' = Root
  /\ IF need \in tree[Root] THEN ret' = NULL /\ pc' = "ret"
                            ELSE pc' = "descend" /\ UNCHANGED ret
  /\ UNCHANGED <<tree, reserved, blocks, args, lvl, back>>

DescendLeft ==
  /\ pc = "descend"
  /\ IF Lev(cur) = need THEN pc' = "mark" /\ UNCHANGED cur
     ELSE IF Lev(cur) = 0 THEN pc' = "wild" /\ UNCHANGED cur
     ELSE cur' = LeftChild(cur) /\ UNCHANGED pc
  /\ UNCHANGED <<tree, reserved, blocks, args, lvl, ret, back>>

(* One call of allocate: left if it has the area, else right unread.  It   *)
(* stops on the level asked for only, so a level the tree does not have    *)
(* takes it below the leaves.                                              *)
Descend ==
  /\ pc = "descend"
  /\ IF Lev(cur) = need
       THEN pc' = "mark" /\ UNCHANGED cur
       ELSE IF Lev(cur) = 0
       THEN pc' = "wild" /\ UNCHANGED cur
       ELSE /\ cur' = IF need \notin tree[LeftChild(cur)]
                        THEN LeftChild(cur) ELSE RightChild(cur)
            /\ UNCHANGED pc
  /\ UNCHANGED <<tree, reserved, blocks, args, lvl, ret, back>>

(* kmalloc and krealloc set all bits of the node they found. *)
Mark ==
  /\ pc = "mark"
  /\ tree' = [tree EXCEPT ![cur] = Ones(cur)]
  /\ blocks' = blocks \cup {cur}
  /\ ret' = FirstSegment(cur)
  /\ back' = IF fn = "krealloc" THEN "move" ELSE "ret"
  /\ pc' = "up"
  /\ UNCHANGED <<reserved, args, cur, lvl>>

ClearLeafOnly ==
  /\ pc = "clear"
  /\ tree' = [tree EXCEPT ![Leaf(seg)] = {}]
  /\ blocks' = {b \in blocks : seg \notin Segments(b)}
  /\ cur' = Leaf(seg)
  /\ back' = IF fn = "krealloc" THEN "probe" ELSE "ret"
  /\ pc' = back'
  /\ UNCHANGED <<reserved, args, lvl, ret>>

(* kfree clears the leaf alone: recomputing its ancestors frees the area. *)
ClearLeaf ==
  /\ pc = "clear"
  /\ tree' = [tree EXCEPT ![Leaf(seg)] = {}]
  /\ blocks' = {b \in blocks : seg \notin Segments(b)}
  /\ cur' = Leaf(seg)
  /\ back' = IF fn = "krealloc" THEN "probe" ELSE "ret"
  /\ pc' = "up"
  /\ UNCHANGED <<reserved, args, lvl, ret>>

BuddifyPastRoot ==
  /\ pc = "up"
  /\ IF Lev(cur) = MaxLevel
       THEN pc' = "wild" /\ UNCHANGED <<tree, cur>>
       ELSE /\ tree' = [tree EXCEPT ![Parent(cur)] =
                          Combine(Parent(cur), tree[LeftChild(Parent(cur))],
                                               tree[RightChild(Parent(cur))])]
            /\ cur' = Parent(cur)
            /\ UNCHANGED pc
  /\ UNCHANGED <<reserved, blocks, args, lvl, ret, back>>

(* One round of full_buddify.  Its loop tests at the end: entered on the   *)
(* root it recomputes a level the tree does not have.                      *)
Buddify ==
  /\ pc = "up"
  /\ IF Lev(cur) = MaxLevel
       THEN pc' = "wild" /\ UNCHANGED <<tree, cur>>
       ELSE LET p == Parent(cur) IN
              /\ tree' = [tree EXCEPT ![p] =
                            Combine(p, tree[LeftChild(p)], tree[RightChild(p)])]
              /\ cur' = p
              /\ pc' = IF Lev(p) = MaxLevel THEN back ELSE "up"
  /\ UNCHANGED <<reserved, blocks, args, lvl, ret, back>>

ClimbInPlace ==
  /\ pc = "climb" /\ tree[cur] = {}
  /\ UNCHANGED vars

(* kmsz and krealloc look for the lowest non-empty node over the pointer.  *)
Climb ==
  /\ pc = "climb"
  /\ tree[cur] = {}
  /\ IF Lev(cur) = MaxLevel THEN pc' = "wild" /\ UNCHANGED cur
                            ELSE cur' = Parent(cur) /\ UNCHANGED pc
  /\ UNCHANGED <<tree, reserved, blocks, args, lvl, ret, back>>

ClimbEndsSwapped ==
  /\ pc = "climb"
  /\ tree[cur] # {}
  /\ lvl' = Lev(cur)
  /\ \/ fn = "kmsz" /\ pc' = "ret" /\ UNCHANGED ret
     \/ fn = "krealloc" /\ lvl' <= need /\ pc' = "move" /\ ret' = seg
     \/ fn = "krealloc" /\ lvl' > need /\ pc' = "clear" /\ UNCHANGED ret
  /\ UNCHANGED <<tree, reserved, blocks, args, cur, back>>

(* The climb over, krealloc keeps an area that is wide enough.             *)
ClimbEnds ==
  /\ pc = "climb"
  /\ tree[cur] # {}
  /\ lvl' = Lev(cur)
  /\ \/ fn = "kmsz" /\ pc' = "ret" /\ UNCHANGED ret
     \/ fn = "krealloc" /\ lvl' >= need /\ pc' = "move" /\ ret' = seg
     \/ fn = "krealloc" /\ lvl' < need /\ pc' = "clear" /\ UNCHANGED ret
  /\ UNCHANGED <<tree, reserved, blocks, args, cur, back>>

(* krealloc, its area freed: take the wider area around it if that is      *)
(* empty, else ask kmalloc.  A level above the root is read through a null *)
(* entry of tree_levels.                                                   *)
Probe ==
  /\ pc = "probe"
  /\ IF need > MaxLevel
       THEN pc' = "wild" /\ UNCHANGED cur
       ELSE /\ cur' = Ancestor(seg, need)
            /\ pc' = IF tree[cur'] = {} THEN "mark" ELSE "root"
  /\ UNCHANGED <<tree, reserved, blocks, args, lvl, ret, back>>

(* memmove(ret, pointer, 2^lvl segments), then the return. *)
Move ==
  /\ pc = "move"
  /\ pc' = "ret"
  /\ UNCHANGED <<tree, reserved, blocks, args, cur, lvl, ret, back>>

Return ==
  /\ pc = "ret"
  /\ pc' = "idle" /\ fn' = "none" /\ need' = 0 /\ seg' = 0
  /\ cur' = Root /\ lvl' = 0 /\ ret' = NULL /\ back' = "ret"
  /\ UNCHANGED <<tree, reserved, blocks>>

Call == \/ \E n \in Requests : Kmalloc(n)
        \/ \E b \in blocks :
             \/ \E s \in Segment : Kfree(b, s) \/ Kmsz(b, s)
             \/ \E n \in Requests : Krealloc(b, n)

Step == \/ ReadRoot \/ Descend \/ Mark \/ ClearLeaf \/ Buddify
        \/ Climb \/ ClimbEnds \/ Probe \/ Move \/ Return

Next == Call \/ Step

(* Nothing preempts a call: the processor executes it to its end. *)
Spec == Init /\ [][Next]_vars /\ WF_vars(Step)

=============================================================================
