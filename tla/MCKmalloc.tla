------------------------------ MODULE MCKmalloc ------------------------------
(* The allocator over eight segments. *)
EXTENDS KmallocInv

MCWidth == [l \in 0..MaxLevel |-> 2 ^ (MaxLevel - l)]

(* The last segment holds the tree (kset); kmres may have taken out more.  *)
MCReserved == {{7}, {2, 7}}
=============================================================================
