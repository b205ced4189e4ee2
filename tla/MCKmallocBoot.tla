---------------------------- MODULE MCKmallocBoot ----------------------------
(* Machines of 256 addresses and blocks of eight bytes, whose memory lies  *)
(* below the middle of the address space (2 GB).                           *)
EXTENDS KmallocBoot

Entry(b, l, f) == [base |-> b, length |-> l, free |-> f]

(* Low memory, the main area, one reserved region in it or across its end, *)
(* and the firmware at the top of the address space, in either order.  The *)
(* main areas give eight leaves with room to spare, eight with none, eight *)
(* with a rest that holds the whole tree and that an entry may reach, and  *)
(* sixteen; the last map gives four, which have no table.                  *)
Small ==
  LET main == {Entry(b, e - b, TRUE) : b \in {3, 6}, e \in {60, 70, 75, 110}}
      hole == {Entry(b, l, FALSE) : b \in {0, 5, 20, 31, 52}, l \in {1, 12, 17, 22}}
      firmware == Entry(250, 6, FALSE)
  IN  UNION {{<<Entry(0, 2, TRUE), m, h, firmware>>, <<firmware, h, m>>}
               : m \in main, h \in hole}
      \cup {<<Entry(3, 27, TRUE), Entry(20, 1, FALSE)>>}

(* The theorems on what is kept out suppose it. *)
ASSUME MemoryIsLow == LowMemory

Powers == [l \in 0..8 |-> 2 ^ l]
=============================================================================
