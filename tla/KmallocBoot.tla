----------------------------- MODULE KmallocBoot -----------------------------
(***************************************************************************)
(* How the arena comes to be: mem_init reads the BIOS memory map, kset and *)
(* initializetree lay the tree over the arena's end, and kmres takes the   *)
(* map's reserved regions out, level by level (src/src/kernel/mem.c and    *)
(* kmalloc.asm).  Addresses are words of the machine: pointers wrap, and   *)
(* clamp (math.c) compares them as signed ints.                            *)
(***************************************************************************)
EXTENDS Integers, Sequences, FiniteSetsExt

CONSTANTS
  Word,       \* 2^32 of the code: the number of addresses
  BlockSize,  \* KMALLOC_BLOCK_SIZE
  Kernel,     \* the argument of mem_init: what lies below is the kernel's
  Maps,       \* the memory maps: sequences of [base, length, free]
  Levels,     \* 32 of the code: the bits of a word, and room for as many levels
  Power       \* Power[l] = 2^l

ASSUME SizesAssumption ==
  Word \in Nat /\ BlockSize \in Nat \ {0} /\ Kernel \in 0..(Word - 2)

ASSUME PowerAssumption ==
  /\ Levels \in Nat \ {0} /\ Power \in [0..Levels -> Nat]
  /\ Power[0] = 1 /\ \A l \in 1..Levels : Power[l] = 2 * Power[l - 1]
  /\ Power[Levels] >= Word

(* Somewhere above the kernel there is memory. *)
ASSUME MapsAssumption ==
  \A m \in Maps :
    /\ Len(m) \in Nat
    /\ m \in [1..Len(m) -> [base : Nat, length : Nat, free : BOOLEAN]]
    /\ \E k \in 1..Len(m) : /\ m[k].free /\ m[k].length > 0
                            /\ m[k].base < Word - 1 /\ m[k].base + m[k].length > Kernel

VARIABLES
  map,       \* the entries found at MEMORY_MAP_RAM
  pc,        \* "scan", "kset", "tables", "up", "entry", "done" or "astray"
  i,         \* the entry mem_init has reached
  low,       \* the first byte of the arena (offset)
  size,      \* its size in bytes
  tree,      \* the control structure, on <<level, index>>
  top,       \* where the tables laid so far end (offset)
  level, first, last,  \* the level at hand, and the nodes to work on there
  nullWrite  \* a level the tree does not have was written, at address 0

bvars == <<map, pc, i, low, size, tree, top, level, first, last, nullWrite>>

-----------------------------------------------------------------------------
Blocks == size \div BlockSize

(* it_ptl1 doubles before it compares: two leaves at least. *)
MaxLevel ==
  CHOOSE l \in 1..Levels : Power[l] >= Blocks /\ (l > 1 => Power[l - 1] < Blocks)
Leaves == Power[MaxLevel]

(* The tree takes four bits per leaf off the end of the arena. *)
End == size - ((Leaves - 1) \div 2 + 1)

Node == {x \in (0..MaxLevel) \X (0..(Leaves - 1)) : x[2] < Power[MaxLevel - x[1]]}

(* The bytes initializetree gives to the table of a level: l + 1 bits for  *)
(* each of its nodes, rounded up except on the lowest level.               *)
TableBytes(l) == IF l = 0 THEN Leaves \div 8
                          ELSE ((l + 1) * Power[MaxLevel - l] - 1) \div 8 + 1

Combine(l, left, right) ==
  (left \cap right) \cup {k \in {l} : l - 1 \in left \cup right}

Signed(a) == IF a >= Word \div 2 THEN a - Word ELSE a

Clamp(a, lo, hi) ==
  CASE Signed(a) < Signed(lo) -> lo
    [] Signed(a) >= Signed(lo) /\ Signed(a) > Signed(hi) -> hi
    [] OTHER -> a

(* Not of the code: an address that is not brought into the arena. *)
SegmentUnclamped(a) == ((a - low) % Word) \div BlockSize

(* The segment of an address, as kmres computes it. *)
Segment(a) == ((Clamp(a % Word, low, (low + size - 1) % Word) - low) % Word) \div BlockSize

(* areasettreeelement and levelbuddify test at the end of their loops: the *)
(* first node is written even when the last one comes before it.           *)
Span(f, l) == {f} \cup f..l

-----------------------------------------------------------------------------
BInit == /\ map \in Maps /\ pc = "scan" /\ i = 1
         /\ low = 0 /\ size = 0 /\ tree = << >> /\ top = 0
         /\ level = 0 /\ first = 0 /\ last = 0 /\ nullWrite = FALSE

(* mem_init spans the arena from the lowest free byte to the highest. *)
Scan ==
  LET free  == {k \in 1..Len(map) : map[k].free}
      begin == Min({Word - 1} \cup {map[k].base : k \in free})
      end   == Max({0} \cup {map[k].base + map[k].length : k \in free})
  IN  /\ pc = "scan"
      /\ low' = Max({begin, Kernel})
      /\ size' = Min({end, Word - 1}) - low'
      /\ pc' = "kset"
      /\ UNCHANGED <<map, i, tree, top, level, first, last, nullWrite>>

(* kset: the tables lie at the arena's end, all zero, the leaves' first.   *)
Kset ==
  /\ pc = "kset"
  /\ tree' = [x \in Node |-> {}]
  /\ top' = End + TableBytes(0) /\ level' = 0
  /\ pc' = "tables"
  /\ UNCHANGED <<map, i, low, size, first, last, nullWrite>>

(* One round of initializetree's loop over the levels. *)
LayTable ==
  /\ pc = "tables" /\ level < MaxLevel
  /\ level' = level + 1
  /\ top' = top + TableBytes(level')
  /\ UNCHANGED <<map, pc, i, low, size, tree, first, last, nullWrite>>

(* The leaves f to l are marked; their ancestors are to be recomputed. *)
Take(f, l) ==
  /\ tree' = [x \in Node |-> IF x[1] = 0 /\ x[2] \in Span(f, l) THEN {0} ELSE tree[x]]
  /\ level' = 0 /\ first' = f /\ last' = l
  /\ pc' = "up"

(* The leaves that the tables lie in and those past the arena's end. *)
TakeEnd ==
  /\ pc = "tables" /\ level = MaxLevel /\ Leaves >= 8
  /\ IF End \div BlockSize <= Leaves - 1
       THEN Take(End \div BlockSize, Leaves - 1)
       ELSE pc' = "entry" /\ UNCHANGED <<tree, level, first, last>>
  /\ UNCHANGED <<map, i, low, size, top, nullWrite>>

(* Fewer than eight leaves get a table of no bytes, and their bits lie in  *)
(* the next level's table, which the climb writes.  The model stops there. *)
StrayTables ==
  /\ pc = "tables" /\ level = MaxLevel /\ Leaves < 8
  /\ pc' = "astray"
  /\ UNCHANGED <<map, i, low, size, tree, top, level, first, last, nullWrite>>

(* Not of the code: the walk stops below the root. *)
LevelUpToRoot ==
  /\ pc = "up"
  /\ level' = level + 1 /\ first' = first \div 2 /\ last' = last \div 2
  /\ IF level' < MaxLevel
       THEN /\ tree' = [x \in Node |->
                 IF x[1] = level' /\ x[2] \in Span(first', last')
                   THEN Combine(level', tree[<<level, 2 * x[2]>>],
                                        tree[<<level, 2 * x[2] + 1>>])
                   ELSE tree[x]]
            /\ UNCHANGED <<pc, nullWrite>>
       ELSE pc' = "entry" /\ UNCHANGED <<tree, nullWrite>>
  /\ UNCHANGED <<map, i, low, size, top>>

(* One round of areafull_buddify: levelbuddify over the next level.  The   *)
(* loop runs while the level is not above the root's, so its last round    *)
(* works on a level that has no table: the null pointer is written.        *)
LevelUp ==
  /\ pc = "up"
  /\ level' = level + 1 /\ first' = first \div 2 /\ last' = last \div 2
  /\ IF level' <= MaxLevel
       THEN /\ tree' = [x \in Node |->
                 IF x[1] = level' /\ x[2] \in Span(first', last')
                   THEN Combine(level', tree[<<level, 2 * x[2]>>],
                                        tree[<<level, 2 * x[2] + 1>>])
                   ELSE tree[x]]
            /\ UNCHANGED <<pc, nullWrite>>
       ELSE pc' = "entry" /\ nullWrite' = TRUE /\ UNCHANGED tree
  /\ UNCHANGED <<map, i, low, size, top>>

(* kmres for a reserved entry. *)
FirstOf(e) == Segment(e.base)
LastOf(e) == Segment(e.base + e.length - 1)
InTree(e) == FirstOf(e) < Leaves /\ LastOf(e) < Leaves

TakeEntry ==
  /\ pc = "entry" /\ i <= Len(map) /\ ~map[i].free /\ InTree(map[i])
  /\ Take(FirstOf(map[i]), LastOf(map[i]))
  /\ i' = i + 1
  /\ UNCHANGED <<map, low, size, top, nullWrite>>

(* When the blocks are a power of two and the arena ends inside the next   *)
(* one, an entry that reaches that rest has a segment without a leaf: the  *)
(* write goes past the leaves' table, into the next level's first node.    *)
(* The model stops there.                                                  *)
StrayEntry ==
  /\ pc = "entry" /\ i <= Len(map) /\ ~map[i].free /\ ~InTree(map[i])
  /\ pc' = "astray"
  /\ UNCHANGED <<map, i, low, size, tree, top, level, first, last, nullWrite>>

SkipEntry ==
  /\ pc = "entry" /\ i <= Len(map) /\ map[i].free
  /\ i' = i + 1
  /\ UNCHANGED <<map, pc, low, size, tree, top, level, first, last, nullWrite>>

Finish ==
  /\ pc = "entry" /\ i > Len(map)
  /\ pc' = "done"
  /\ UNCHANGED <<map, i, low, size, tree, top, level, first, last, nullWrite>>

BNext == Scan \/ Kset \/ LayTable \/ TakeEnd \/ StrayTables \/ LevelUp
         \/ TakeEntry \/ StrayEntry \/ SkipEntry \/ Finish

BSpec == BInit /\ [][BNext]_bvars /\ WF_bvars(BNext)

-----------------------------------------------------------------------------
Blocked(s) == tree[<<0, s>>] = {0}
InSubtree(y, x) == y[1] <= x[1] /\ y[2] \div Power[x[1] - y[1]] = x[2]

(* Every byte of a reserved region that lies in the arena is in a segment  *)
(* kmalloc will never hand out (kmalloc.h on kmres, mem.c "exclude         *)
(* reserved regions").                                                     *)
ReservedKeptOut ==
  pc = "done" =>
    \A k \in 1..Len(map) : ~map[k].free =>
      \A a \in map[k].base..(map[k].base + map[k].length - 1) :
        a \in low..(low + size - 1) => Blocked((a - low) \div BlockSize)

(* The tables of all levels fit between end and the end of the arena,      *)
(* where kset has left them four bits per leaf, and no segment that holds  *)
(* a byte of them, or that lies past the arena, is ever handed out.        *)
ControlKeptOut ==
  pc \in {"entry", "done"} =>
    /\ top <= size
    /\ \A s \in 0..(Leaves - 1) : (s + 1) * BlockSize > End => Blocked(s)

(* Memory in the lower half of the address space, which clamp's signed     *)
(* comparison takes for granted.                                           *)
LowMemory ==
  \A m \in Maps : \A k \in 1..Len(m) :
    \/ m[k].base + m[k].length <= Word \div 2
    \/ ~m[k].free /\ m[k].base >= Word \div 2

(* With tables of their own, no entry's segments go past the leaves,       *)
(* wherever it lies, but in the one case StrayEntry names.                 *)
StraysOnlyAtEnd ==
  (pc = "astray" /\ Leaves >= 8) => Blocks = Leaves /\ size % BlockSize # 0

(* What mem_init and kset leave to kmalloc is memory nobody else uses. *)
KeptOut == ReservedKeptOut /\ ControlKeptOut /\ StraysOnlyAtEnd

(* Whenever no recomputation is under way the tree says of every node      *)
(* exactly which sizes its leaves leave room for, the state Kmalloc starts *)
(* from: passing only along the paths of the first and last leaf and the   *)
(* nodes between them misses no ancestor.                                  *)
TreeExact ==
  pc \in {"entry", "done"} =>
    \A x \in Node : tree[x] =
      {k \in 0..x[1] : \A y \in Node : y[1] = k /\ InSubtree(y, x)
          => \E s \in 0..(Leaves - 1) : Blocked(s) /\ InSubtree(<<0, s>>, y)}

=============================================================================
