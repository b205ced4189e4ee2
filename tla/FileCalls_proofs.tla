--------------------------- MODULE FileCalls_proofs ---------------------------
(***************************************************************************)
(* The references and driver states behind the system calls on files, for  *)
(* paths of any length and any names, any number of descriptors and of     *)
(* states, and any limit on resolving.                                     *)
(***************************************************************************)
EXTENDS MCFiles, FiniteSetTheorems, SequenceTheorems, WellFoundedInduction, TLAPS

(* The least-number principle for a set of naturals, from the fact that <  *)
(* is well founded: the inductions of the proofs rest on it.               *)
LEMMA LeastNatural ==
  ASSUME NEW S, S \subseteq Nat, S # {}
  PROVE  \E n \in S : \A k \in S : n <= k
<1> DEFINE R == OpToRel(<, Nat)
<1>1. IsWellFoundedOn(R, Nat)
  BY NatLessThanWellFounded, Zenon
<1>2. \A j, k \in Nat : <<j, k>> \in R <=> j < k
  BY DEF OpToRel
<1> HIDE DEF R
<1>3. PICK n \in S : \A k \in S : ~(<<k, n>> \in R)
  BY <1>1, WFMin, Zenon
<1>4. ASSUME NEW k \in S PROVE n <= k
  <2>1. k \in Nat /\ n \in Nat
    BY <1>3
  <2>2. ~(<<k, n>> \in R)
    BY <1>3
  <2>3. ~(k < n)
    BY <1>2, <2>1, <2>2, Zenon
  <2> QED BY <2>1, <2>3
<1> QED BY <1>3, <1>4

-----------------------------------------------------------------------------
(* What references and states are. *)
ProcNodes == {"root", "proc", "self", "fd", "exe", "cwd"}

FatStates == [fs : {"fat"}, node : {"dir", "file"}, at : Seq(STRING), offset : Nat,
              linked : {FALSE}]
ProcStates == {s \in [fs : {"proc"}, node : ProcNodes, at : {<<0>>, <<1>>, <<2>>},
                      offset : Nat, linked : BOOLEAN] : s.node # "root" => s.at # <<0>>}
States == FatStates \cup ProcStates

Refs == [node : {"root", "proc", "none"}, offset : Nat, driver : {"none", "fat", "proc"},
         id : Nat]

(* The names to enter; the provers do not know that a literal is a string. *)
Names == STRING \cup {".."}

(* A heap of driver states. *)
Heap(h) == h = [i \in DOMAIN h |-> h[i]] /\ DOMAIN h \subseteq 1 .. MaxStates
Roomy(h) == Heap(h) /\ \E i \in 1 .. MaxStates : i \notin DOMAIN h

(* A reference whose state the heap holds. *)
Leads(r, h) ==
  /\ r \in Refs /\ r.node # "none" /\ r.driver = Mounted[r.node]
  /\ r.id \in DOMAIN h /\ h[r.id] \in States /\ h[r.id].fs = r.driver

(* A call in the course of its work: the heap it found, h, and one state   *)
(* more, that its own reference leads to.                                  *)
Record(m) ==
  m = [heap |-> m.heap, tree |-> m.tree, pids |-> m.pids, pid |-> m.pid, ref |-> m.ref,
       err |-> m.err, bad |-> m.bad]

Owned(m, h, p) ==
  /\ Record(m) /\ Leads(m.ref, m.heap)
  /\ m.pids \subseteq {1, 2} /\ m.pid = p /\ m.bad = FALSE
  /\ Roomy(h) /\ m.ref.id \in 1 .. MaxStates /\ m.ref.id \notin DOMAIN h
  /\ m.heap = With(h, m.ref.id, m.heap[m.ref.id])

(* A call before it has a state, or after it has closed it.               *)
Bare(m, h, p) ==
  /\ Record(m) /\ m.heap = h /\ Roomy(h)
  /\ m.pids \subseteq {1, 2} /\ m.pid = p /\ m.bad = FALSE
  /\ m.ref \in Refs /\ m.ref.node # "none"

(* From the call m an operation makes n, whose reference and state are these. *)
Makes(n, m, node, offset, s, h, p) ==
  /\ Owned(n, h, p) /\ StateOf(n) = s
  /\ n.ref.node = node /\ n.ref.offset = offset /\ n.err = m.err

(* A call whose own state is closed: the heap is h again. *)
Closes(n, m, h, p) == Bare(n, h, p) /\ n.ref = m.ref /\ n.err = m.err

(* Where a reference is against its state: its offset is the state's depth *)
(* below the mount, unless a link was passed over; and that is "at".       *)
Sits(r, s, at) ==
  /\ s.linked => s.fs = "proc" /\ r.offset > Depth(s)
  /\ ~s.linked => r.offset = Depth(s) /\ Place(s) = at
  /\ (s.fs = "fat" /\ s.at # <<>>) => s.at[1] # "proc"

(* No link stands for itself. *)
Followed(s) == s.node \notin {"self", "fd", "exe"}

-----------------------------------------------------------------------------
(* The heap of states. *)
LEMMA MountedIs == Mounted["root"] = "fat" /\ Mounted["proc"] = "proc"
BY DEF Mounted

LEMMA FreshIs ==
  ASSUME NEW h, Roomy(h)
  PROVE  FreshId(h) \in 1 .. MaxStates /\ FreshId(h) \notin DOMAIN h
<1> DEFINE S == 1 .. MaxStates \ DOMAIN h
<1>1. S \subseteq Nat /\ S # {}
  BY DEF Roomy
<1>2. \E n \in S : \A k \in S : n <= k
  BY <1>1, LeastNatural, Zenon
<1>3. FreshId(h) \in S
  BY <1>2 DEF FreshId, Smallest
<1> QED BY <1>3

LEMMA WithAt ==
  ASSUME NEW h, NEW id, NEW s
  PROVE  With(h, id, s)[id] = s
BY DEF With

LEMMA WithDomain ==
  ASSUME NEW h, NEW id, NEW s
  PROVE  DOMAIN With(h, id, s) = DOMAIN h \cup {id}
BY DEF With

LEMMA WithOther ==
  ASSUME NEW h, NEW id, NEW s, NEW i \in DOMAIN h, i # id
  PROVE  With(h, id, s)[i] = h[i]
BY DEF With

LEMMA WithHeap ==
  ASSUME NEW h, NEW id \in 1 .. MaxStates, NEW s, Heap(h)
  PROVE  Heap(With(h, id, s))
BY DEF Heap, With

LEMMA WithPut ==
  ASSUME NEW h, NEW id \in 1 .. MaxStates, NEW s, NEW t, Heap(h)
  PROVE  [With(h, id, s) EXCEPT ![id] = t] = With(h, id, t)
BY DEF Heap, With

LEMMA RootStates ==
  /\ RootState["fat"] \in FatStates /\ RootState["proc"] \in ProcStates
  /\ RootState["fat"] \in States /\ RootState["proc"] \in States
  /\ Place(RootState["fat"]) = <<>> /\ Depth(RootState["fat"]) = 0
  /\ Place(RootState["proc"]) = <<"proc">> /\ Depth(RootState["proc"]) = 0
  /\ RootState["fat"].linked = FALSE /\ RootState["proc"].linked = FALSE
  /\ RootState["fat"].at = <<>> /\ RootState["proc"].fs = "proc" /\ RootState["fat"].fs = "fat"
  /\ Followed(RootState["fat"]) /\ Followed(RootState["proc"])
<1>1. <<>> \in Seq(STRING)
  OBVIOUS
<1> QED BY <1>1 DEF RootState, FatStates, ProcStates, ProcNodes, States, Place, Depth, Followed

-----------------------------------------------------------------------------
(* What the driver's operations do to a call. *)
LEMMA FailOwned ==
  ASSUME NEW m, NEW h, NEW p, Owned(m, h, p), NEW e
  PROVE  /\ Owned([m EXCEPT !.err = e], h, p) /\ [m EXCEPT !.err = e].err = e
         /\ [m EXCEPT !.err = e].ref = m.ref /\ StateOf([m EXCEPT !.err = e]) = StateOf(m)
BY DEF Owned, Record, StateOf

LEMMA GrownOwned ==
  ASSUME NEW m, NEW h, NEW p, Owned(m, h, p), NEW t
  PROVE  Makes([m EXCEPT !.tree = t], m, m.ref.node, m.ref.offset, StateOf(m), h, p)
BY DEF Owned, Record, StateOf, Makes

LEMMA PutOwned ==
  ASSUME NEW m, NEW h, NEW p, Owned(m, h, p), NEW s \in States, s.fs = m.ref.driver
  PROVE  Makes(PutState(m, s), m, m.ref.node, m.ref.offset, s, h, p)
<1> DEFINE n == PutState(m, s)
<1>1. Record(m) /\ Leads(m.ref, m.heap) /\ Roomy(h) /\ Heap(h)
      /\ m.ref.id \in 1 .. MaxStates /\ m.ref.id \notin DOMAIN h
      /\ m.heap = With(h, m.ref.id, m.heap[m.ref.id])
  BY DEF Owned, Roomy
<1> DEFINE g == [m.heap EXCEPT ![m.ref.id] = s]
<1>0. n = [heap |-> g, tree |-> m.tree, pids |-> m.pids, pid |-> m.pid, ref |-> m.ref,
           err |-> m.err, bad |-> m.bad]
  BY <1>1 DEF PutState, Record
<1> HIDE DEF n
<1>2. /\ Record(n) /\ n.heap = g /\ n.ref = m.ref
      /\ n.pids = m.pids /\ n.pid = m.pid /\ n.bad = m.bad /\ n.err = m.err
      /\ n.tree = m.tree
  BY <1>0 DEF Record
<1>3. n.heap = With(h, m.ref.id, s)
  <2> DEFINE old == m.heap[m.ref.id]
  <2>1. n.heap = [With(h, m.ref.id, old) EXCEPT ![m.ref.id] = s]
    BY <1>1, <1>2, Zenon
  <2>2. Heap(h) /\ m.ref.id \in 1 .. MaxStates
    BY <1>1
  <2> HIDE DEF old
  <2> QED BY <2>1, <2>2, WithPut
<1>4. m.ref.id \in DOMAIN n.heap /\ n.heap[m.ref.id] = s
  BY <1>3 DEF With
<1>5. Leads(n.ref, n.heap)
  BY <1>1, <1>2, <1>4 DEF Leads
<1>6. Owned(n, h, p)
  BY <1>1, <1>2, <1>3, <1>4, <1>5 DEF Owned
<1> QED BY <1>2, <1>4, <1>6 DEF StateOf, Makes, n

LEMMA OffsetOwned ==
  ASSUME NEW m, NEW h, NEW p, Owned(m, h, p), NEW k \in Nat
  PROVE  Makes([m EXCEPT !.ref.offset = k], m, m.ref.node, k, StateOf(m), h, p)
<1> DEFINE n == [m EXCEPT !.ref.offset = k]
<1>1. /\ Record(n) /\ n.heap = m.heap /\ n.ref = [m.ref EXCEPT !.offset = k]
      /\ n.pids = m.pids /\ n.pid = m.pid /\ n.bad = m.bad /\ n.err = m.err
  BY DEF Owned, Record
<1>2. /\ n.ref \in Refs /\ n.ref.id = m.ref.id /\ n.ref.node = m.ref.node
      /\ n.ref.driver = m.ref.driver /\ n.ref.offset = k
  BY <1>1 DEF Owned, Leads, Refs
<1>3. Leads(n.ref, n.heap)
  BY <1>1, <1>2 DEF Owned, Leads
<1>4. Owned(n, h, p)
  BY <1>1, <1>2, <1>3 DEF Owned
<1> QED BY <1>1, <1>2, <1>4 DEF StateOf, Makes

(* A new state, over a heap that has room for it. *)
LEMMA NewOwned ==
  ASSUME NEW m, NEW h, NEW p, Bare(m, h, p), m.ref.driver = Mounted[m.ref.node],
         NEW s \in States, s.fs = m.ref.driver
  PROVE  Makes(NewState(m, FreshId(m.heap), s), m, m.ref.node, m.ref.offset, s, h, p)
<1> DEFINE id == FreshId(h)
           n == NewState(m, id, s)
<1>1. /\ id \in 1 .. MaxStates /\ id \notin DOMAIN h /\ id \in Nat /\ Heap(h)
      /\ Record(m) /\ m.heap = h /\ Roomy(h) /\ m.pids \subseteq {1, 2} /\ m.pid = p
      /\ m.bad = FALSE /\ m.ref \in Refs /\ m.ref.node # "none"
  BY FreshIs DEF Bare, Roomy
<1> HIDE DEF id
<1>0. n = [heap |-> With(h, id, s), tree |-> m.tree, pids |-> m.pids, pid |-> m.pid,
           ref |-> [m.ref EXCEPT !.id = id], err |-> m.err, bad |-> m.bad]
  <2> DEFINE g == With(h, id, s)
             r == [m.ref EXCEPT !.id = id]
             k == [m EXCEPT !.heap = g]
  <2>1. n = [k EXCEPT !.ref.id = id]
    BY <1>1 DEF NewState
  <2> HIDE DEF n, g
  <2>2. k = [heap |-> g, tree |-> m.tree, pids |-> m.pids, pid |-> m.pid,
             ref |-> m.ref, err |-> m.err, bad |-> m.bad]
    BY <1>1 DEF Record
  <2>3. k.ref = m.ref
    BY <2>2
  <2> HIDE DEF k
  <2>4. n = [k EXCEPT !.ref = r]
    BY <2>1, <2>3
  <2> HIDE DEF r
  <2>5. n = [heap |-> g, tree |-> m.tree, pids |-> m.pids, pid |-> m.pid,
             ref |-> r, err |-> m.err, bad |-> m.bad]
    BY <2>2, <2>4
  <2> QED BY <2>5 DEF g, r
<1> HIDE DEF n
<1>2. /\ Record(n) /\ n.heap = With(h, id, s) /\ n.ref = [m.ref EXCEPT !.id = id]
      /\ n.pids = m.pids /\ n.pid = m.pid /\ n.bad = m.bad /\ n.err = m.err
      /\ n.tree = m.tree
  BY <1>0 DEF Record
<1>3. /\ n.ref \in Refs /\ n.ref.id = id /\ n.ref.node = m.ref.node
      /\ n.ref.driver = m.ref.driver /\ n.ref.offset = m.ref.offset
  BY <1>1, <1>2 DEF Refs
<1>4. id \in DOMAIN n.heap /\ n.heap[id] = s
  BY <1>2 DEF With
<1>5. Owned(n, h, p)
  BY <1>1, <1>2, <1>3, <1>4 DEF Owned, Leads
<1>6. StateOf(n) = s
  BY <1>2, <1>3, <1>4 DEF StateOf
<1>7. Makes(n, m, m.ref.node, m.ref.offset, s, h, p)
  BY <1>2, <1>3, <1>5, <1>6 DEF Makes
<1>8. n = NewState(m, FreshId(m.heap), s)
  BY <1>1 DEF n, id
<1> QED BY <1>7, <1>8, Zenon

(* A state is closed, and the heap is what it was. *)
LEMMA CloseOwned ==
  ASSUME NEW m, NEW h, NEW p, Owned(m, h, p)
  PROVE  Closes(CloseState(m), m, h, p)
<1> DEFINE n == CloseState(m)
           g == [i \in DOMAIN m.heap \ {m.ref.id} |-> m.heap[i]]
<1>1. /\ Record(m) /\ Heap(h) /\ m.bad = FALSE /\ m.ref.id \in DOMAIN m.heap
      /\ m.ref.id \in 1 .. MaxStates /\ m.ref.id \notin DOMAIN h
      /\ m.heap = With(h, m.ref.id, m.heap[m.ref.id])
  BY DEF Owned, Roomy, Leads
<1>2. g = h
  <2> DEFINE s == m.heap[m.ref.id]
             w == With(h, m.ref.id, s)
  <2>1. m.heap = w
    BY <1>1, Zenon
  <2> HIDE DEF s
  <2>2. g = [i \in DOMAIN w \ {m.ref.id} |-> w[i]]
    BY <2>1, Zenon
  <2> QED BY <1>1, <2>2 DEF With, Heap
<1>3. n = [[m EXCEPT !.heap = g] EXCEPT !.bad = FALSE]
  BY <1>1 DEF CloseState, Live
<1> HIDE DEF n, g
<1>4. Record(n) /\ n.heap = h /\ n.ref = m.ref /\ n.err = m.err /\ n.tree = m.tree
      /\ n.pids = m.pids /\ n.pid = m.pid /\ n.bad = FALSE
  BY <1>1, <1>2, <1>3 DEF Record
<1> QED BY <1>4 DEF Bare, Owned, Leads, Closes, n

(* The root() of a driver. *)
LEMMA RootOwned ==
  ASSUME NEW m, NEW h, NEW p, Bare(m, h, p), DriveWorks
  PROVE  Makes(Root(m), m, m.ref.node, m.ref.offset, RootState[Mounted[m.ref.node]], h, p)
<1> DEFINE driver == Mounted[m.ref.node]
           k == [m EXCEPT !.ref.driver = driver]
<1>1. driver \in {"fat", "proc"} /\ RootState[driver] \in States
      /\ RootState[driver].fs = driver
  BY MountedIs, RootStates DEF Bare, Refs
<1> HIDE DEF driver
<1>2. Record(k) /\ k.heap = h /\ k.ref = [m.ref EXCEPT !.driver = driver] /\ k.err = m.err
      /\ k.tree = m.tree /\ k.pids = m.pids /\ k.pid = m.pid /\ k.bad = m.bad
  BY DEF Bare, Record
<1>3. /\ k.ref \in Refs /\ k.ref.node = m.ref.node /\ k.ref.offset = m.ref.offset
      /\ k.ref.driver = driver
  BY <1>1, <1>2 DEF Bare, Refs
<1>4. Root(m) = NewState(k, FreshId(m.heap), RootState[driver])
  BY <1>1 DEF Root, driver
<1> HIDE DEF k
<1>5. Bare(k, h, p) /\ k.heap = m.heap
  BY <1>2, <1>3 DEF Bare
<1>6. k.ref.driver = Mounted[k.ref.node]
  BY <1>3 DEF driver
<1>7. Makes(NewState(k, FreshId(k.heap), RootState[driver]), k, k.ref.node, k.ref.offset,
            RootState[driver], h, p)
  BY <1>1, <1>3, <1>5, <1>6, NewOwned
<1>8. k.err = m.err
  BY <1>2
<1> QED BY <1>3, <1>4, <1>5, <1>7, <1>8 DEF driver, Makes

(* vfs_update when the offset has changed: the driver is still the node's. *)
LEMMA ShiftOwned ==
  ASSUME NEW m, NEW h, NEW p, Owned(m, h, p), NEW k \in Nat
  PROVE  Makes(Update([m EXCEPT !.ref.offset = k]), m, m.ref.node, k, StateOf(m), h, p)
<1> DEFINE n == [m EXCEPT !.ref.offset = k]
<1>1. Makes(n, m, m.ref.node, k, StateOf(m), h, p)
  BY OffsetOwned
<1> HIDE DEF n
<1>2. n.ref.driver = Mounted[n.ref.node] /\ n.ref.driver # "none"
  BY <1>1, MountedIs DEF Makes, Owned, Leads, Refs
<1>3. Update(n) = n
  BY <1>2 DEF Update
<1> QED BY <1>1, <1>3 DEF n

(* vfs_update when the node has changed: to a state of the other driver. *)
LEMMA MoveOwned ==
  ASSUME NEW m, NEW h, NEW p, Owned(m, h, p), NEW node \in {"root", "proc"}, DriveWorks
  PROVE  Makes(Update([m EXCEPT !.ref.node = node]), m, node, m.ref.offset,
               IF node = m.ref.node THEN StateOf(m) ELSE RootState[Mounted[node]], h, p)
<1> DEFINE n == [m EXCEPT !.ref.node = node]
<1>1. /\ Record(n) /\ n.heap = m.heap /\ n.ref = [m.ref EXCEPT !.node = node]
      /\ n.pids = m.pids /\ n.pid = m.pid /\ n.bad = m.bad /\ n.err = m.err
  BY DEF Owned, Record
<1>2. /\ n.ref \in Refs /\ n.ref.id = m.ref.id /\ n.ref.node = node
      /\ n.ref.driver = m.ref.driver /\ n.ref.offset = m.ref.offset
  BY <1>1 DEF Owned, Leads, Refs
<1>3. m.ref.driver = Mounted[m.ref.node] /\ m.ref.node \in {"root", "proc"}
  BY DEF Owned, Leads, Refs
<1> HIDE DEF n
<1>4. CASE node = m.ref.node
  <2>1. Update(n) = n
    BY <1>2, <1>3, <1>4, MountedIs DEF Update
  <2>2. Leads(n.ref, n.heap)
    BY <1>1, <1>2, <1>3, <1>4 DEF Owned, Leads
  <2>3. Owned(n, h, p)
    BY <1>1, <1>2, <2>2 DEF Owned
  <2>4. StateOf(n) = StateOf(m)
    BY <1>1, <1>2 DEF StateOf
  <2> QED BY <1>1, <1>2, <1>4, <2>1, <2>3, <2>4 DEF n, Makes
<1>5. CASE node # m.ref.node
  <2> DEFINE k == CloseState(m)
             c == CloseState(n)
  <2>1. Closes(k, m, h, p)
    BY CloseOwned
  <2>2. c = [k EXCEPT !.ref.node = node]
    <3> DEFINE g == [i \in DOMAIN m.heap \ {m.ref.id} |-> m.heap[i]]
    <3>1. m.ref.id \in DOMAIN m.heap
      BY DEF Owned, Leads
    <3>2. k = [[m EXCEPT !.heap = g] EXCEPT !.bad = m.bad]
      BY <3>1 DEF CloseState, Live, Owned
    <3>3. [i \in DOMAIN n.heap \ {n.ref.id} |-> n.heap[i]] = g
      BY <1>1, <1>2
    <3>4. c = [[n EXCEPT !.heap = g] EXCEPT !.bad = m.bad]
      BY <1>1, <1>2, <3>1, <3>3 DEF CloseState, Live, Owned
    <3>0. Record(m)
      BY DEF Owned
    <3> HIDE DEF g, k
    <3>5. k = [heap |-> g, tree |-> m.tree, pids |-> m.pids, pid |-> m.pid, ref |-> m.ref,
               err |-> m.err, bad |-> m.bad]
      BY <3>0, <3>2 DEF Record
    <3>6. c = [heap |-> g, tree |-> n.tree, pids |-> n.pids, pid |-> n.pid, ref |-> n.ref,
               err |-> n.err, bad |-> m.bad]
      BY <1>1, <3>4 DEF Record
    <3>7. n.tree = m.tree
      BY DEF n, Owned, Record
    <3>8. k.ref = m.ref
      BY <3>5
    <3>9. [k EXCEPT !.ref.node = node] = [k EXCEPT !.ref = [m.ref EXCEPT !.node = node]]
      BY <3>8
    <3> QED BY <1>1, <3>5, <3>6, <3>7, <3>9
  <2> HIDE DEF k, c
  <2>3. /\ Record(c) /\ c.heap = k.heap /\ c.ref = [k.ref EXCEPT !.node = node]
        /\ c.pids = k.pids /\ c.pid = k.pid /\ c.bad = k.bad /\ c.err = k.err
    BY <2>1, <2>2 DEF Record, Closes, Bare
  <2>4. /\ c.ref \in Refs /\ c.ref.node = node /\ c.ref.offset = m.ref.offset
    BY <2>1, <2>3 DEF Refs, Closes, Bare
  <2>5. Bare(c, h, p) /\ c.err = m.err
    BY <2>1, <2>3, <2>4 DEF Closes, Bare
  <2>6. Makes(Root(c), c, c.ref.node, c.ref.offset, RootState[Mounted[c.ref.node]], h, p)
    BY <2>5, RootOwned
  <2>7. Update(n) = Root(c)
    <3>1. n.ref.driver # "none" /\ n.ref.driver # Mounted[n.ref.node]
      BY <1>2, <1>3, <1>5, MountedIs
    <3> QED BY <3>1 DEF Update, c
  <2> QED BY <1>5, <2>4, <2>5, <2>6, <2>7 DEF n, Makes
<1> QED BY <1>4, <1>5

(* The start of a walk, at the root or at a copy of another reference. *)
LEMMA CopyOwned ==
  ASSUME NEW m, NEW h, NEW p, Bare(m, h, p), NEW src, Leads(src, h)
  PROVE  Makes(Update(Refcpy(m, src)), m, src.node, src.offset, h[src.id], h, p)
<1> DEFINE k == [m EXCEPT !.ref = src]
           n == NewState(k, FreshId(m.heap), m.heap[src.id])
<1>1. /\ src \in Refs /\ src.node # "none" /\ src.driver = Mounted[src.node]
      /\ src.id \in DOMAIN h /\ h[src.id] \in States /\ h[src.id].fs = src.driver
      /\ src.driver # "none" /\ m.heap = h
  BY MountedIs DEF Leads, Refs, Bare
<1>2. /\ Record(k) /\ k.heap = h /\ k.ref = src /\ k.err = m.err
      /\ k.pids = m.pids /\ k.pid = m.pid /\ k.bad = m.bad
  BY <1>1 DEF Bare, Record
<1>3. Refcpy(m, src) = n
  BY <1>1 DEF Refcpy
<1> HIDE DEF k
<1>4. Bare(k, h, p)
  BY <1>1, <1>2 DEF Bare
<1>5. Makes(NewState(k, FreshId(k.heap), h[src.id]), k, k.ref.node, k.ref.offset,
            h[src.id], h, p)
  BY <1>1, <1>2, <1>4, NewOwned
<1>6. Makes(n, m, src.node, src.offset, h[src.id], h, p)
  BY <1>1, <1>2, <1>5 DEF Makes
<1> HIDE DEF n
<1>7. n.ref.driver = Mounted[n.ref.node] /\ n.ref.driver # "none"
  BY <1>6, MountedIs DEF Makes, Owned, Leads, Refs
<1>8. Update(n) = n
  BY <1>7 DEF Update
<1> QED BY <1>3, <1>6, <1>8

LEMMA StartOwned ==
  ASSUME NEW m, NEW h, NEW p, Bare(m, h, p), DriveWorks
  PROVE  Makes(Update(Refcpy(m, RootRef)), m, "root", 0, RootState["fat"], h, p)
<1> DEFINE k == [m EXCEPT !.ref = RootRef]
<1>1. Refcpy(m, RootRef) = k
  BY DEF Refcpy, RootRef
<1>2. /\ Record(k) /\ k.heap = h /\ k.ref = RootRef /\ k.err = m.err
      /\ k.pids = m.pids /\ k.pid = m.pid /\ k.bad = m.bad
  BY DEF Bare, Record
<1>3. /\ RootRef \in Refs /\ RootRef.node = "root" /\ RootRef.offset = 0
      /\ RootRef.driver = "none"
  BY DEF Refs, RootRef
<1> HIDE DEF k
<1>4. Bare(k, h, p)
  BY <1>2, <1>3 DEF Bare
<1>5. Makes(Root(k), k, k.ref.node, k.ref.offset, RootState[Mounted[k.ref.node]], h, p)
  BY <1>4, RootOwned
<1>6. Update(k) = Root(k)
  BY <1>2, <1>3 DEF Update
<1> QED BY <1>1, <1>2, <1>3, <1>5, <1>6, MountedIs DEF Makes

-----------------------------------------------------------------------------
(* open() of the process file system. *)

(* The state procfs_open leaves when it finds the name. *)
ProcTo(m, s, name, flags) ==
  [s EXCEPT !.node = ProcNext(m, s, name, flags), !.offset = 0,
            !.at = CASE s.node = "root" -> <<IF name = "self" THEN m.pid ELSE PidOf(name)>>
                     [] s.node = "proc" /\ name = ".." -> <<0>>
                     [] OTHER -> @,
            !.linked = @ \/ (s.node = "proc" /\ name \in {"fd", "exe"}
                             /\ "nofollow" \notin flags)]

(* Its eight moves, from s to t. *)
Moved(t, s, name, flags, pid) ==
  /\ t \in ProcStates /\ t.fs = "proc"
  /\ \/ /\ s.node = "root" /\ name = "self" /\ "nofollow" \in flags
        /\ t.node = "self" /\ t.at = <<pid>> /\ t.linked = s.linked
     \/ /\ s.node = "root" /\ name = "self" /\ "nofollow" \notin flags
        /\ t.node = "proc" /\ t.at = <<pid>> /\ t.linked = s.linked
     \/ /\ s.node = "root" /\ name \in {"1", "2"} /\ NameOf(t.at[1]) = name
        /\ t.node = "proc" /\ t.linked = s.linked
     \/ /\ s.node = "proc" /\ name = ".." /\ t.node = "root" /\ t.at = <<0>>
        /\ t.linked = s.linked
     \/ /\ s.node = "proc" /\ name \in {"fd", "exe"} /\ "nofollow" \in flags
        /\ t.node = name /\ t.at = s.at /\ t.linked = s.linked
     \/ /\ s.node = "proc" /\ name \in {"fd", "exe"} /\ "nofollow" \notin flags
        /\ t.node = "proc" /\ t.at = s.at /\ t.linked = TRUE
     \/ /\ s.node = "proc" /\ name = "cwd" /\ t.node = "cwd"
        /\ t.at = s.at /\ t.linked = s.linked
     \/ /\ s.node = "fd" /\ name = ".." /\ t.node = "proc"
        /\ t.at = s.at /\ t.linked = s.linked

LEMMA ProcMoves ==
  ASSUME NEW m, m.pids \subseteq {1, 2}, m.pid \in {1, 2}, NEW s \in ProcStates,
         NEW name \in Names, NEW flags, ProcNext(m, s, name, flags) # "none"
  PROVE  Moved(ProcTo(m, s, name, flags), s, name, flags, m.pid)
<1> DEFINE t == ProcTo(m, s, name, flags)
           to == ProcNext(m, s, name, flags)
           at == CASE s.node = "root" -> <<IF name = "self" THEN m.pid ELSE PidOf(name)>>
                   [] s.node = "proc" /\ name = ".." -> <<0>>
                   [] OTHER -> s.at
           linked == s.linked \/ (s.node = "proc" /\ name \in {"fd", "exe"}
                                  /\ "nofollow" \notin flags)
<1>1. /\ s.fs = "proc" /\ s.node \in ProcNodes /\ s.at \in {<<0>>, <<1>>, <<2>>}
      /\ s.offset \in Nat /\ s.linked \in BOOLEAN /\ (s.node # "root" => s.at # <<0>>)
      /\ s = [fs |-> s.fs, node |-> s.node, at |-> s.at, offset |-> s.offset,
              linked |-> s.linked]
  BY DEF ProcStates
<1>2. t = [fs |-> "proc", node |-> to, at |-> at, offset |-> 0, linked |-> linked]
  <2>1. t = [s EXCEPT !.node = to, !.offset = 0, !.at = at, !.linked = linked]
    BY DEF ProcTo
  <2> HIDE DEF to, at, linked
  <2> QED BY <1>1, <2>1
<1>3. linked \in BOOLEAN
  BY <1>1
<1>4. \/ s.node = "root" /\ name = "self"
      \/ s.node = "root" /\ name # "self" /\ PidOf(name) \in m.pids
      \/ s.node = "proc" /\ name \in {"..", "fd", "exe", "cwd"}
      \/ s.node = "fd" /\ name = ".."
  BY DEF ProcNext
<1>5. PidOf(name) \in m.pids => /\ name \in {"1", "2"} /\ NameOf(PidOf(name)) = name
                                /\ PidOf(name) \in {1, 2}
  BY DEF PidOf, NameOf
<1>6. <<0>> # <<1>> /\ <<0>> # <<2>>
  OBVIOUS
<1> HIDE DEF t, Moved
<1>7. CASE s.node = "root" /\ name = "self"
  <2>a. linked = s.linked
    BY <1>1, <1>7
  <2>b. at = <<m.pid>>
    BY <1>7
  <2>c. to = IF "nofollow" \in flags THEN "self" ELSE "proc"
    BY <1>5, <1>7 DEF ProcNext
  <2>1. at = <<m.pid>> /\ linked = s.linked
        /\ to = IF "nofollow" \in flags THEN "self" ELSE "proc"
    BY <2>a, <2>b, <2>c
  <2> HIDE DEF at, linked, to
  <2>2. t.node = to /\ t.at = <<m.pid>> /\ t.linked = s.linked /\ t.fs = "proc"
    BY <1>2, <2>1
  <2>3. t \in ProcStates
    BY <1>1, <1>2, <1>6, <2>1 DEF ProcStates, ProcNodes
  <2> QED BY <1>7, <2>1, <2>2, <2>3 DEF t, Moved
<1>8. CASE s.node = "root" /\ name # "self" /\ PidOf(name) \in m.pids
  <2>1. at = <<PidOf(name)>> /\ linked = s.linked /\ to = "proc"
    BY <1>1, <1>8 DEF ProcNext
  <2> HIDE DEF at, linked, to
  <2>2. t.node = "proc" /\ t.at = <<PidOf(name)>> /\ t.linked = s.linked /\ t.fs = "proc"
    BY <1>2, <2>1
  <2>3. t.at[1] = PidOf(name)
    BY <2>2
  <2>4. t \in ProcStates
    BY <1>1, <1>2, <1>5, <1>6, <1>8, <2>1 DEF ProcStates, ProcNodes
  <2> QED BY <1>5, <1>8, <2>2, <2>3, <2>4 DEF t, Moved
<1>9. CASE s.node = "proc" /\ name \in {"..", "fd", "exe", "cwd"}
  <2>1. /\ at = IF name = ".." THEN <<0>> ELSE s.at
        /\ to = CASE name = ".." -> "root"
                  [] name \in {"fd", "exe"} -> IF "nofollow" \in flags THEN name ELSE "proc"
                  [] OTHER -> "cwd"
    BY <1>1, <1>9 DEF ProcNext
  <2>2. linked = IF name \in {"fd", "exe"} /\ "nofollow" \notin flags THEN TRUE ELSE s.linked
    BY <1>1, <1>9
  <2> HIDE DEF at, linked, to
  <2>3. t.node = to /\ t.at = at /\ t.linked = linked /\ t.fs = "proc"
    BY <1>2
  <2>4. t \in ProcStates
    BY <1>1, <1>2, <1>3, <1>6, <1>9, <2>1 DEF ProcStates, ProcNodes
  <2> QED BY <1>9, <2>1, <2>2, <2>3, <2>4 DEF t, Moved
<1>10. CASE s.node = "fd" /\ name = ".."
  <2>1. at = s.at /\ to = "proc" /\ linked = s.linked
    BY <1>1, <1>10 DEF ProcNext
  <2> HIDE DEF at, linked, to
  <2>2. t.node = "proc" /\ t.at = s.at /\ t.linked = s.linked /\ t.fs = "proc"
    BY <1>2, <2>1
  <2>3. t \in ProcStates
    BY <1>1, <1>2, <1>3, <1>10, <2>1 DEF ProcStates, ProcNodes
  <2> QED BY <1>10, <2>2, <2>3 DEF t, Moved
<1> QED BY <1>4, <1>7, <1>8, <1>9, <1>10

(* Paths of one, two and three names. *)
LEMMA AppendOne ==
  ASSUME NEW a, NEW b
  PROVE  Append(<<a>>, b) = <<a, b>>
<1> DEFINE S == {a, b}
           s == <<a>>
           x == Append(s, b)
           y == <<a, b>>
<1>1. /\ s \in Seq(S) /\ Len(s) = 1 /\ s[1] = a /\ b \in S
      /\ y \in Seq(S) /\ Len(y) = 2 /\ y[1] = a /\ y[2] = b
  OBVIOUS
<1> HIDE DEF S, y
<1>3. x \in Seq(S) /\ Len(x) = 2 /\ x[1] = a /\ x[2] = b
  BY <1>1, AppendProperties
<1> HIDE DEF x
<1>4. x \in Seq(S) /\ y \in Seq(S) /\ Len(x) = Len(y) /\ \A i \in 1 .. Len(x) : x[i] = y[i]
  BY <1>1, <1>3
<1> QED BY <1>4, SeqEqual DEF x, y

LEMMA AppendTwo ==
  ASSUME NEW a, NEW b, NEW c
  PROVE  Append(<<a, b>>, c) = <<a, b, c>>
<1> DEFINE S == {a, b, c}
           s == <<a, b>>
           x == Append(s, c)
           y == <<a, b, c>>
<1>1. /\ s \in Seq(S) /\ Len(s) = 2 /\ s[1] = a /\ s[2] = b /\ c \in S
      /\ y \in Seq(S) /\ Len(y) = 3 /\ y[1] = a /\ y[2] = b /\ y[3] = c
  OBVIOUS
<1> HIDE DEF S, y
<1>3. x \in Seq(S) /\ Len(x) = 3 /\ x[1] = a /\ x[2] = b /\ x[3] = c
  BY <1>1, AppendProperties
<1> HIDE DEF x
<1>4. x \in Seq(S) /\ y \in Seq(S) /\ Len(x) = Len(y) /\ \A i \in 1 .. Len(x) : x[i] = y[i]
  BY <1>1, <1>3
<1> QED BY <1>4, SeqEqual DEF x, y

LEMMA BackOne ==
  ASSUME NEW a, NEW b
  PROVE  <<a, b>> # <<>> /\ SubSeq(<<a, b>>, 1, Len(<<a, b>>) - 1) = <<a>>
<1> DEFINE S == {a, b}
           s == <<a, b>>
           x == SubSeq(s, 1, 1)
           y == <<a>>
<1>1. /\ s \in Seq(S) /\ Len(s) = 2 /\ s[1] = a /\ s[2] = b /\ s # <<>>
      /\ y \in Seq(S) /\ Len(y) = 1 /\ y[1] = a
  OBVIOUS
<1> HIDE DEF S, s, y
<1>2. \A i \in 1 .. 1 : s[i] \in S
  BY <1>1, ElementOfSeq
<1>3. x \in Seq(S) /\ Len(x) = 1 /\ x[1] = a
  BY <1>1, <1>2, SubSeqProperties
<1> HIDE DEF x
<1>4. x \in Seq(S) /\ y \in Seq(S) /\ Len(x) = Len(y) /\ \A i \in 1 .. Len(x) : x[i] = y[i]
  BY <1>1, <1>3
<1>5. x = y
  BY <1>4, SeqEqual
<1> QED BY <1>1, <1>5 DEF x, y, s

LEMMA BackTwo ==
  ASSUME NEW a, NEW b, NEW c
  PROVE  <<a, b, c>> # <<>> /\ SubSeq(<<a, b, c>>, 1, Len(<<a, b, c>>) - 1) = <<a, b>>
<1> DEFINE S == {a, b, c}
           s == <<a, b, c>>
           x == SubSeq(s, 1, 2)
           y == <<a, b>>
<1>1. /\ s \in Seq(S) /\ Len(s) = 3 /\ s[1] = a /\ s[2] = b /\ s[3] = c /\ s # <<>>
      /\ y \in Seq(S) /\ Len(y) = 2 /\ y[1] = a /\ y[2] = b
  OBVIOUS
<1> HIDE DEF S, s, y
<1>2. \A i \in 1 .. 2 : s[i] \in S
  BY <1>1, ElementOfSeq
<1>3. x \in Seq(S) /\ Len(x) = 2 /\ x[1] = a /\ x[2] = b
  BY <1>1, <1>2, SubSeqProperties
<1> HIDE DEF x
<1>4. x \in Seq(S) /\ y \in Seq(S) /\ Len(x) = Len(y) /\ \A i \in 1 .. Len(x) : x[i] = y[i]
  BY <1>1, <1>3
<1>5. x = y
  BY <1>4, SeqEqual
<1> QED BY <1>1, <1>5 DEF x, y, s

(* A name that procfs_open finds leads to what it means. *)
LEMMA ProcSits ==
  ASSUME NEW m, m.pids \subseteq {1, 2}, m.pid \in {1, 2}, NEW s \in ProcStates,
         NEW name \in Names, NEW flags, ProcNext(m, s, name, flags) # "none",
         NEW r, NEW q, NEW at, r.offset \in Nat, Sits(r, s, at),
         q.offset = IF name = ".." THEN r.offset - 1 ELSE r.offset + 1
  PROVE  Sits(q, ProcTo(m, s, name, flags), Meant(at, name, m.pid, flags))
<1> DEFINE t == ProcTo(m, s, name, flags)
           pid == m.pid
           X == NameOf(s.at[1])
<1>0. Moved(t, s, name, flags, pid)
  BY ProcMoves
<1>1. /\ t \in ProcStates /\ t.fs = "proc"
      /\ \/ /\ s.node = "root" /\ name = "self" /\ "nofollow" \in flags
            /\ t.node = "self" /\ t.at = <<pid>> /\ t.linked = s.linked
         \/ /\ s.node = "root" /\ name = "self" /\ "nofollow" \notin flags
            /\ t.node = "proc" /\ t.at = <<pid>> /\ t.linked = s.linked
         \/ /\ s.node = "root" /\ name \in {"1", "2"} /\ NameOf(t.at[1]) = name
            /\ t.node = "proc" /\ t.linked = s.linked
         \/ /\ s.node = "proc" /\ name = ".." /\ t.node = "root" /\ t.at = <<0>>
            /\ t.linked = s.linked
         \/ /\ s.node = "proc" /\ name \in {"fd", "exe"} /\ "nofollow" \in flags
            /\ t.node = name /\ t.at = s.at /\ t.linked = s.linked
         \/ /\ s.node = "proc" /\ name \in {"fd", "exe"} /\ "nofollow" \notin flags
            /\ t.node = "proc" /\ t.at = s.at /\ t.linked = TRUE
         \/ /\ s.node = "proc" /\ name = "cwd" /\ t.node = "cwd"
            /\ t.at = s.at /\ t.linked = s.linked
         \/ /\ s.node = "fd" /\ name = ".." /\ t.node = "proc"
            /\ t.at = s.at /\ t.linked = s.linked
  BY <1>0 DEF Moved
<1>2. s.fs = "proc" /\ s.node \in ProcNodes /\ s.linked \in BOOLEAN
  BY DEF ProcStates
<1>3. Depth(s) = IF s.node = "root" THEN 0 ELSE IF s.node \in {"proc", "self"} THEN 1 ELSE 2
  BY <1>2 DEF Depth
<1>4. Depth(t) = IF t.node = "root" THEN 0 ELSE IF t.node \in {"proc", "self"} THEN 1 ELSE 2
  BY <1>1 DEF Depth
<1>5. Place(s) = IF s.node = "root" THEN <<"proc">>
                 ELSE IF s.node = "proc" THEN <<"proc", X>>
                 ELSE IF s.node = "self" THEN <<"proc", "self">>
                 ELSE <<"proc", X, s.node>>
  BY <1>2 DEF Place
<1>6. Place(t) = IF t.node = "root" THEN <<"proc">>
                 ELSE IF t.node = "proc" THEN <<"proc", NameOf(t.at[1])>>
                 ELSE IF t.node = "self" THEN <<"proc", "self">>
                 ELSE <<"proc", NameOf(t.at[1]), t.node>>
  BY <1>1 DEF Place
<1> HIDE DEF t, X
<1>7. ASSUME t.linked PROVE q.offset > Depth(t)
  <2>1. CASE s.linked
    <3>1. r.offset > Depth(s)
      BY <2>1 DEF Sits
    <3> QED BY <1>1, <1>3, <1>4, <3>1
  <2>2. CASE ~s.linked
    <3>1. r.offset = Depth(s)
      BY <2>2 DEF Sits
    <3>2. s.node = "proc" /\ name \in {"fd", "exe"} /\ t.node = "proc"
      BY <1>1, <1>7, <2>2
    <3> QED BY <1>3, <1>4, <3>1, <3>2
  <2> QED BY <2>1, <2>2
<1>8. ASSUME ~t.linked
      PROVE  q.offset = Depth(t) /\ Place(t) = Meant(at, name, pid, flags)
  <2>1. ~s.linked
    BY <1>1, <1>8
  <2>2. r.offset = Depth(s) /\ Place(s) = at
    BY <2>1 DEF Sits
  <2>3. q.offset = Depth(t)
    BY <1>1, <1>3, <1>4, <1>8, <2>2
  <2>5. <<pid>>[1] = pid
    OBVIOUS
  <2>6. CASE s.node = "root" /\ name = "self" /\ "nofollow" \in flags /\ t.node = "self"
    <3>1. Meant(at, name, pid, flags) = Append(at, name)
      BY <2>6 DEF Meant
    <3>2. at = <<"proc">> /\ Place(t) = <<"proc", name>>
      BY <1>5, <1>6, <2>2, <2>6
    <3> QED BY <2>3, <3>1, <3>2, AppendOne
  <2>7. CASE /\ s.node = "root" /\ name = "self" /\ "nofollow" \notin flags
             /\ t.node = "proc" /\ t.at = <<pid>>
    <3>1. at = <<"proc">>
      BY <1>5, <2>2, <2>7
    <3>2. Meant(at, name, pid, flags) = <<"proc", NameOf(pid)>>
      BY <2>7, <3>1 DEF Meant
    <3> QED BY <1>6, <2>3, <2>5, <2>7, <3>2
  <2>8. CASE s.node = "root" /\ name \in {"1", "2"} /\ NameOf(t.at[1]) = name /\ t.node = "proc"
    <3>1. Meant(at, name, pid, flags) = Append(at, name)
      BY <2>8 DEF Meant
    <3>2. at = <<"proc">> /\ Place(t) = <<"proc", name>>
      BY <1>5, <1>6, <2>2, <2>8
    <3> QED BY <2>3, <3>1, <3>2, AppendOne
  <2>9. CASE s.node = "proc" /\ name = ".." /\ t.node = "root"
    <3>1. at = <<"proc", X>> /\ at # <<>> /\ SubSeq(at, 1, Len(at) - 1) = <<"proc">>
      BY <1>5, <2>2, <2>9, BackOne
    <3>2. Meant(at, name, pid, flags) = SubSeq(at, 1, Len(at) - 1)
      BY <2>9, <3>1 DEF Meant
    <3> QED BY <1>6, <2>3, <2>9, <3>1, <3>2
  <2>10. CASE s.node = "proc" /\ name \in {"fd", "exe", "cwd"} /\ t.node = name /\ t.at = s.at
    <3>1. Meant(at, name, pid, flags) = Append(at, name)
      BY <2>10 DEF Meant
    <3>2. at = <<"proc", X>>
      BY <1>5, <2>2, <2>10
    <3>3. Place(t) = <<"proc", X, name>>
      BY <1>6, <2>10 DEF X
    <3> QED BY <2>3, <3>1, <3>2, <3>3, AppendTwo
  <2>11. CASE s.node = "fd" /\ name = ".." /\ t.node = "proc" /\ t.at = s.at
    <3>1. at = <<"proc", X, s.node>>
      BY <1>5, <2>2, <2>11
    <3>3. at # <<>> /\ SubSeq(at, 1, Len(at) - 1) = <<"proc", X>>
      BY <3>1, BackTwo
    <3>2. Meant(at, name, pid, flags) = SubSeq(at, 1, Len(at) - 1)
      BY <2>11, <3>3 DEF Meant
    <3> QED BY <1>6, <2>3, <2>11, <3>2, <3>3 DEF X
  <2> QED BY <1>1, <1>8, <2>6, <2>7, <2>8, <2>9, <2>10, <2>11
<1> QED BY <1>1, <1>7, <1>8 DEF Sits, t

(* A followed name leads to no link. *)
LEMMA ProcFollowed ==
  ASSUME NEW m, m.pids \subseteq {1, 2}, m.pid \in {1, 2}, NEW s \in ProcStates,
         NEW name \in Names, NEW flags, ProcNext(m, s, name, flags) # "none",
         "nofollow" \notin flags
  PROVE  Followed(ProcTo(m, s, name, flags))
<1>1. Moved(ProcTo(m, s, name, flags), s, name, flags, m.pid)
  BY ProcMoves
<1> QED BY <1>1 DEF Moved, Followed

LEMMA ProcOpened ==
  ASSUME NEW m, NEW h, NEW p, Owned(m, h, p), p \in {1, 2}, m.ref.driver = "proc",
         m.err = "ok", NEW name \in Names, NEW flags
  PROVE  LET n == ProcOpen(m, StateOf(m), name, flags)
         IN  /\ Owned(n, h, p) /\ n.ref.node = m.ref.node /\ n.ref.offset = m.ref.offset
             /\ n.err = "ok" => /\ ProcNext(m, StateOf(m), name, flags) # "none"
                                /\ StateOf(n) = ProcTo(m, StateOf(m), name, flags)
<1> DEFINE s == StateOf(m)
           n == ProcOpen(m, s, name, flags)
           e == IF s.node \in {"root", "proc", "fd"} THEN "ENOENT" ELSE "EIO"
           t == ProcTo(m, s, name, flags)
<1>1. s \in ProcStates /\ m.pids \subseteq {1, 2} /\ m.pid \in {1, 2}
  BY DEF Owned, Leads, States, FatStates, StateOf
<1>2. CASE ProcNext(m, s, name, flags) = "none"
  <2>1. n = [m EXCEPT !.err = e]
    BY <1>2 DEF ProcOpen, Fail
  <2>2. e # "ok"
    OBVIOUS
  <2> HIDE DEF e
  <2>3. Owned(n, h, p) /\ n.err = e /\ n.ref = m.ref
    BY <2>1, FailOwned
  <2> QED BY <2>2, <2>3
<1>3. CASE ProcNext(m, s, name, flags) # "none"
  <2>1. n = PutState(m, t)
    BY <1>3 DEF ProcOpen, ProcTo
  <2>2. t \in States /\ t.fs = m.ref.driver
    <3>1. Moved(t, s, name, flags, m.pid)
      BY <1>1, <1>3, ProcMoves
    <3> QED BY <3>1 DEF Moved, States
  <2> HIDE DEF t
  <2>3. Makes(PutState(m, t), m, m.ref.node, m.ref.offset, t, h, p)
    BY <2>2, PutOwned
  <2> QED BY <1>3, <2>1, <2>3 DEF t, Makes
<1> QED BY <1>2, <1>3

-----------------------------------------------------------------------------
(* open() of the FAT binding. *)
FatOpens(n, m, name, h, p) ==
  /\ Owned(n, h, p) /\ n.ref.node = m.ref.node /\ n.ref.offset = m.ref.offset
  /\ n.err = "ok" => /\ StateOf(n) \in FatStates /\ StateOf(n).at = FatAt(StateOf(m), name)
                     /\ name = ".." => StateOf(m).at # <<>>

LEMMA FatAtIs ==
  ASSUME NEW s \in FatStates, NEW name \in Names, name = ".." => s.at # <<>>
  PROVE  FatAt(s, name) \in Seq(STRING)
<1>1. s.at \in Seq(STRING)
  BY DEF FatStates
<1>2. CASE name = ".."
  <2>1. Len(s.at) \in Nat /\ \A i \in 1 .. Len(s.at) - 1 : s.at[i] \in STRING
    BY <1>1
  <2>2. SubSeq(s.at, 1, Len(s.at) - 1) \in Seq(STRING)
    BY <2>1, SubSeqProperties
  <2> QED BY <1>2, <2>2 DEF FatAt
<1>3. CASE name # ".."
  BY <1>1, <1>3, AppendProperties DEF FatAt, Names
<1> QED BY <1>2, <1>3

LEMMA FatOpened ==
  ASSUME NEW m, NEW h, NEW p, Owned(m, h, p), m.ref.driver = "fat", m.err = "ok",
         NEW name \in Names, NEW flags
  PROVE  FatOpens(FatOpen(m, StateOf(m), name, flags), m, name, h, p)
<1> DEFINE s == StateOf(m)
           n == FatOpen(m, s, name, flags)
           at == FatAt(s, name)
           A == "dir" \in flags /\ FatDir(m, at) /\ (name = ".." => s.at # <<>>)
           B == /\ "dir" \notin flags /\ name # ".." /\ name \notin DirNames
                /\ at \in m.tree \/ ("creat" \in flags /\ Len(s.at) < MaxDepth)
           t == [s EXCEPT !.at = at]
           u == [s EXCEPT !.at = at, !.node = "file"]
<1>1. s \in FatStates
  BY DEF Owned, Leads, States, ProcStates, StateOf
<1>2. s.fs = "fat" /\ s.node \in {"dir", "file"} /\ s.at \in Seq(STRING)
      /\ s.offset \in Nat /\ s.linked = FALSE
      /\ s = [fs |-> s.fs, node |-> s.node, at |-> s.at, offset |-> s.offset,
              linked |-> s.linked]
  BY <1>1 DEF FatStates
<1>3. CASE s.node = "dir" /\ A
  <2>1. n = PutState(m, t)
    BY <1>3 DEF FatOpen
  <2>2. at \in Seq(STRING)
    BY <1>1, <1>3, FatAtIs
  <2> HIDE DEF s, at, n
  <2>3. t \in FatStates /\ t.at = at /\ t.fs = "fat"
    BY <1>2, <2>2 DEF FatStates
  <2> HIDE DEF t
  <2>4. Makes(PutState(m, t), m, m.ref.node, m.ref.offset, t, h, p)
    BY <2>3, PutOwned DEF States
  <2> QED BY <1>3, <2>1, <2>3, <2>4 DEF s, at, n, Makes, FatOpens
<1>4. CASE s.node = "dir" /\ B
  <2> DEFINE k == PutState(m, u)
             tr == k.tree \cup {at}
  <2>1. n = [k EXCEPT !.tree = tr]
    BY <1>4 DEF FatOpen
  <2>2. at \in Seq(STRING)
    BY <1>1, <1>4, FatAtIs
  <2> HIDE DEF s, at, n
  <2>3. u \in FatStates /\ u.at = at /\ u.fs = "fat"
    BY <1>2, <2>2 DEF FatStates
  <2> HIDE DEF u
  <2>4. Makes(k, m, m.ref.node, m.ref.offset, u, h, p)
    BY <2>3, PutOwned DEF States
  <2> HIDE DEF k, tr
  <2>5. Makes(n, k, k.ref.node, k.ref.offset, StateOf(k), h, p)
    BY <2>1, <2>4, GrownOwned DEF Makes
  <2> QED BY <1>4, <2>3, <2>4, <2>5 DEF s, at, n, Makes, FatOpens
<1>5. CASE s.node # "dir" \/ ~(A \/ B)
  <2>1. \E e \in {"ENOTDIR", "EIO"} : n = [m EXCEPT !.err = e]
    <3>1. CASE s.node # "dir"
      <4>1. n = Fail(m, "ENOTDIR")
        BY <3>1 DEF FatOpen
      <4> QED BY <4>1 DEF Fail
    <3>2. CASE s.node = "dir" /\ ~A /\ ~B
      <4>1. n = Fail(m, "EIO")
        BY <3>2 DEF FatOpen
      <4> QED BY <4>1 DEF Fail
    <3> HIDE DEF A, B, n
    <3> QED BY <1>5, <3>1, <3>2
  <2>2. PICK e \in {"ENOTDIR", "EIO"} : n = [m EXCEPT !.err = e]
    BY <2>1
  <2>3. Owned(n, h, p) /\ n.err = e /\ n.ref = m.ref
    BY <2>2, FailOwned
  <2> QED BY <2>3 DEF FatOpens
<1> HIDE DEF A, B
<1> QED BY <1>3, <1>4, <1>5

LEMMA FatSits ==
  ASSUME NEW s \in FatStates, NEW t \in FatStates, NEW name \in Names, name # ".",
         t.at = FatAt(s, name), name = ".." => s.at # <<>>,
         NEW r, NEW q, NEW at, r.offset \in Nat, Sits(r, s, at), NEW pid, NEW flags,
         q.offset = IF name = ".." THEN r.offset - 1 ELSE r.offset + 1,
         r.offset = 0 => name # "proc"
  PROVE  Sits(q, t, Meant(at, name, pid, flags))
<1>1. /\ s.fs = "fat" /\ t.fs = "fat" /\ s.at \in Seq(STRING) /\ t.at \in Seq(STRING)
      /\ s.linked = FALSE /\ t.linked = FALSE
  BY DEF FatStates
<1>2. /\ Depth(s) = Len(s.at) /\ Depth(t) = Len(t.at) /\ Place(s) = s.at /\ Place(t) = t.at
  BY <1>1 DEF Depth, Place
<1>3. r.offset = Len(s.at) /\ at = s.at /\ (at # <<>> => at[1] # "proc")
  BY <1>1, <1>2 DEF Sits
<1>4. CASE name = ".."
  <2>1. at # <<>> /\ t.at = SubSeq(at, 1, Len(at) - 1) /\ Len(at) \in Nat /\ Len(at) > 0
    BY <1>1, <1>3, <1>4, EmptySeq DEF FatAt
  <2>2. Meant(at, name, pid, flags) = SubSeq(at, 1, Len(at) - 1)
    BY <1>4, <2>1 DEF Meant
  <2>3. /\ Len(t.at) = Len(at) - 1
        /\ \A i \in 1 .. Len(t.at) : t.at[i] = at[i]
    <3> DEFINE k == Len(at) - 1
               x == SubSeq(at, 1, k)
    <3>1. k \in Nat /\ \A i \in 1 .. k : at[i] \in STRING
      BY <1>1, <1>3, <2>1
    <3>2. t.at = x
      BY <2>1
    <3> HIDE DEF k
    <3>3. Len(x) = k /\ \A i \in 1 .. k : x[i] = at[i]
      <4>1. /\ Len(x) = IF 1 <= k THEN k - 1 + 1 ELSE 0
            /\ \A i \in 1 .. k - 1 + 1 : x[i] = at[1 + i - 1]
        BY <3>1, SubSeqProperties
      <4> QED BY <3>1, <4>1
    <3> QED BY <3>2, <3>3 DEF k
  <2>4. t.at # <<>> => t.at[1] # "proc"
    <3>1. t.at # <<>> => 1 \in 1 .. Len(t.at)
      BY <1>1, EmptySeq
    <3> QED BY <1>3, <2>1, <2>3, <3>1
  <2> QED BY <1>1, <1>2, <1>3, <1>4, <2>1, <2>2, <2>3, <2>4 DEF Sits
<1>5. CASE name # ".."
  <2>1. t.at = Append(at, name)
    BY <1>3, <1>5 DEF FatAt
  <2>2. at # <<"proc">>
    <3>1. <<"proc">> # <<>> /\ <<"proc">>[1] = "proc"
      OBVIOUS
    <3> QED BY <1>3, <3>1
  <2>3. Meant(at, name, pid, flags) = Append(at, name)
    BY <1>5, <2>2 DEF Meant
  <2>4. /\ Len(t.at) = Len(at) + 1 /\ t.at[Len(at) + 1] = name
        /\ \A i \in 1 .. Len(at) : t.at[i] = at[i]
    BY <1>1, <1>3, <2>1, AppendProperties
  <2>5. t.at[1] # "proc"
    <3>1. CASE at = <<>>
      <4>1. Len(at) = 0
        BY <3>1
      <4> QED BY <1>3, <2>4, <4>1
    <3>2. CASE at # <<>>
      <4>1. Len(at) \in Nat \ {0}
        BY <1>1, <1>3, <3>2, EmptySeq
      <4> QED BY <1>3, <2>4, <3>2, <4>1
    <3> QED BY <3>1, <3>2
  <2> QED BY <1>1, <1>2, <1>3, <1>5, <2>1, <2>3, <2>4, <2>5 DEF Sits
<1> QED BY <1>4, <1>5

-----------------------------------------------------------------------------
(* Entering a name. *)

(* The call is still the owner of its state; where it does not fail it is at *)
(* what the name means, and past no link unless it was told not to follow.   *)
Enters(n, m, r, name, flags, h, p) ==
  /\ Owned(n, h, p)
  /\ \A at : Sits(r, StateOf(m), at) /\ n.err = "ok" =>
               Sits(n.ref, StateOf(n), Meant(at, name, p, flags))
  /\ "nofollow" \notin flags /\ Followed(StateOf(m)) /\ n.err = "ok" => Followed(StateOf(n))

LEMMA DriverEnters ==
  ASSUME NEW m, NEW h, NEW p, Owned(m, h, p), p \in {1, 2}, m.err = "ok",
         NEW name \in Names, name # ".", NEW flags,
         NEW r, r.offset \in Nat,
         m.ref.offset = IF name = ".." THEN r.offset - 1 ELSE r.offset + 1,
         r.offset = 0 /\ m.ref.driver = "fat" => name # "proc"
  PROVE  Enters(DriverOpen(m, name, flags), m, r, name, flags, h, p)
<1> DEFINE n == DriverOpen(m, name, flags)
           s == StateOf(m)
<1>1. Live(m) /\ m.pids \subseteq {1, 2} /\ m.pid = p /\ s \in States
      /\ s.fs = m.ref.driver /\ m.ref.driver \in {"fat", "proc"}
  BY MountedIs DEF Owned, Leads, Live, StateOf, Refs
<1>2. CASE m.ref.driver = "fat"
  <2>1. n = FatOpen(m, s, name, flags)
    BY <1>1, <1>2 DEF DriverOpen
  <2>2. FatOpens(n, m, name, h, p)
    BY <1>2, <2>1, FatOpened
  <2>3. s \in FatStates
    BY <1>1, <1>2 DEF States, ProcStates
  <2> HIDE DEF n, s
  <2>4. ASSUME NEW at, Sits(r, s, at), n.err = "ok"
        PROVE  Sits(n.ref, StateOf(n), Meant(at, name, p, flags))
    <3>1. /\ StateOf(n) \in FatStates /\ StateOf(n).at = FatAt(s, name)
          /\ name = ".." => s.at # <<>>
          /\ n.ref.offset = m.ref.offset
      BY <2>2, <2>4 DEF FatOpens, s
    <3> DEFINE t == StateOf(n)
    <3> HIDE DEF t
    <3>2. t \in FatStates /\ t.at = FatAt(s, name) /\ (name = ".." => s.at # <<>>)
      BY <3>1 DEF t
    <3>4. n.ref.offset = IF name = ".." THEN r.offset - 1 ELSE r.offset + 1
      BY <3>1
    <3>5. r.offset = 0 => name # "proc"
      BY <1>2
    <3>3. Sits(n.ref, t, Meant(at, name, p, flags))
      BY <2>3, <2>4, <3>2, <3>4, <3>5, FatSits
    <3> QED BY <3>3 DEF t
  <2>5. n.err = "ok" => Followed(StateOf(n))
    BY <2>2 DEF FatOpens, FatStates, Followed
  <2> QED BY <2>2, <2>4, <2>5 DEF FatOpens, Enters, n, s
<1>3. CASE m.ref.driver = "proc"
  <2>1. n = ProcOpen(m, s, name, flags)
    BY <1>1, <1>3 DEF DriverOpen
  <2>2. /\ Owned(n, h, p) /\ n.ref.node = m.ref.node /\ n.ref.offset = m.ref.offset
        /\ n.err = "ok" => /\ ProcNext(m, s, name, flags) # "none"
                           /\ StateOf(n) = ProcTo(m, s, name, flags)
    BY <1>3, <2>1, ProcOpened
  <2>3. s \in ProcStates
    BY <1>1, <1>3 DEF States, FatStates
  <2> HIDE DEF n, s
  <2>4. ASSUME NEW at, Sits(r, s, at), n.err = "ok"
        PROVE  Sits(n.ref, StateOf(n), Meant(at, name, p, flags))
    <3>1. n.ref.offset = IF name = ".." THEN r.offset - 1 ELSE r.offset + 1
      BY <2>2
    <3>2. Sits(n.ref, ProcTo(m, s, name, flags), Meant(at, name, m.pid, flags))
      BY <1>1, <2>2, <2>3, <2>4, <3>1, ProcSits
    <3> QED BY <1>1, <2>2, <2>4, <3>2
  <2>5. "nofollow" \notin flags /\ n.err = "ok" => Followed(StateOf(n))
    <3>1. ASSUME "nofollow" \notin flags, n.err = "ok" PROVE Followed(StateOf(n))
      <4>1. Followed(ProcTo(m, s, name, flags))
        BY <1>1, <2>2, <2>3, <3>1, ProcFollowed
      <4> QED BY <2>2, <3>1, <4>1
    <3> QED BY <3>1
  <2> QED BY <2>2, <2>4, <2>5 DEF Enters, n, s
<1> QED BY <1>1, <1>2, <1>3

LEMMA EnterOwned ==
  ASSUME NEW m, NEW h, NEW p, Owned(m, h, p), p \in {1, 2}, m.err = "ok",
         NEW name \in Names, NEW flags, DriveWorks
  PROVE  Enters(Enter(m, name, flags), m, m.ref, name, flags, h, p)
<1> DEFINE n == Enter(m, name, flags)
           s == StateOf(m)
           r == m.ref
           below == m.ref.offset - 1
           above == m.ref.offset + 1
<1>1. /\ s \in States /\ s.fs = r.driver /\ r.driver = Mounted[r.node] /\ r.offset \in Nat
      /\ r.node \in {"root", "proc"} /\ (r.driver = "fat" <=> r.node = "root")
  BY MountedIs DEF Owned, Leads, Refs, StateOf
<1> HIDE DEF n, s, r
<1>2. ASSUME r.offset = 0, NEW at, Sits(r, s, at)
      PROVE  at = IF r.node = "root" THEN <<>> ELSE <<"proc">>
  <2>a. s.fs = "fat" => /\ Depth(s) = Len(s.at) /\ s.at \in Seq(STRING) /\ Place(s) = s.at
                        /\ Depth(s) \in Nat
    <3>1. s.fs = "fat" => s.at \in Seq(STRING)
      BY <1>1 DEF States, FatStates, ProcStates
    <3>2. s.fs = "fat" => Depth(s) = Len(s.at) /\ Place(s) = s.at
      BY DEF Depth, Place
    <3> QED BY <3>1, <3>2
  <2>b. s.fs = "proc" => /\ Depth(s) \in Nat
                         /\ Depth(s) = 0 => Place(s) = <<"proc">>
    BY DEF Depth, Place
  <2>1. Depth(s) \in Nat /\ (s.fs = "fat" => Depth(s) = Len(s.at) /\ s.at \in Seq(STRING)
                                             /\ Place(s) = s.at)
        /\ (s.fs = "proc" /\ Depth(s) = 0 => Place(s) = <<"proc">>)
    BY <1>1, <2>a, <2>b DEF States, FatStates, ProcStates
  <2>2. ~s.linked
    BY <1>2, <2>1 DEF Sits
  <2>3. Depth(s) = 0 /\ Place(s) = at
    BY <1>2, <2>2 DEF Sits
  <2>4. CASE r.node = "root"
    <3>1. s.fs = "fat" /\ Len(at) = 0 /\ at \in Seq(STRING)
      BY <1>1, <2>1, <2>3, <2>4
    <3> QED BY <2>4, <3>1, EmptySeq
  <2>5. CASE r.node = "proc"
    BY <1>1, <2>1, <2>3, <2>5, MountedIs
  <2> QED BY <1>1, <2>4, <2>5
<1>3. CASE name = "."
  <2>1. n = m
    BY <1>1, <1>3 DEF n, Enter, Children, r
  <2>2. \A at : Meant(at, name, p, flags) = at
    BY <1>3 DEF Meant
  <2> QED BY <2>1, <2>2 DEF Enters, n, r
<1>4. CASE name = ".." /\ r.offset > 0
  <2> DEFINE k == Update([m EXCEPT !.ref.offset = below])
  <2>1. n = DriverOpen(k, name, flags)
    BY <1>1, <1>4 DEF n, Enter, Children, r
  <2>2. below \in Nat
    BY <1>1, <1>4 DEF r
  <2> HIDE DEF k
  <2>3. Makes(k, m, r.node, below, s, h, p)
    <3> HIDE DEF below
    <3> QED BY <2>2, ShiftOwned DEF k, s, r
  <2>4. Owned(k, h, p) /\ k.err = "ok" /\ StateOf(k) = s /\ k.ref.offset = r.offset - 1
    BY <2>3 DEF Makes, r
  <2>5. Enters(DriverOpen(k, name, flags), k, r, name, flags, h, p)
    BY <1>1, <1>4, <2>4, DriverEnters
  <2> QED BY <2>1, <2>4, <2>5 DEF Enters, n, s, r
<1>5. CASE name = ".." /\ r.offset = 0
  <2> DEFINE k == Update([m EXCEPT !.ref.node = "root"])
  <2>1. n = k
    BY <1>1, <1>5 DEF n, Enter, Children, r, Parent
  <2> HIDE DEF k
  <2>2. Makes(k, m, "root", 0, IF "root" = r.node THEN s ELSE RootState[Mounted["root"]], h, p)
    BY <1>5, MoveOwned DEF k, s, r
  <2>3. Owned(k, h, p) /\ k.ref.offset = 0
        /\ StateOf(k) = IF r.node = "root" THEN s ELSE RootState["fat"]
    BY <2>2, MountedIs DEF Makes
  <2>4. ASSUME NEW at, Sits(r, s, at)
        PROVE  Sits(k.ref, StateOf(k), Meant(at, name, p, flags))
    <3>1. at = IF r.node = "root" THEN <<>> ELSE <<"proc">>
      BY <1>2, <1>5, <2>4
    <3>2. Meant(at, name, p, flags) = <<>>
      <4>1. SubSeq(<<"proc">>, 1, Len(<<"proc">>) - 1) = <<>>
        BY SubSeqEmpty
      <4> QED BY <1>5, <3>1, <4>1 DEF Meant
    <3>3. CASE r.node = "root"
      <4>1. Meant(at, name, p, flags) = at /\ StateOf(k) = s /\ k.ref.offset = r.offset
        BY <1>5, <2>3, <3>1, <3>2, <3>3
      <4> QED BY <2>4, <4>1 DEF Sits
    <3>4. CASE r.node # "root"
      BY <2>3, <3>2, <3>4, RootStates DEF Sits
    <3> QED BY <3>3, <3>4
  <2>5. Followed(s) => Followed(StateOf(k))
    BY <2>3, RootStates
  <2> QED BY <2>1, <2>3, <2>4, <2>5 DEF Enters, n, s, r
<1>6. CASE name \notin {".", ".."} /\ r.offset = 0 /\ name \in Children(r.node)
  <2> DEFINE k == Update([m EXCEPT !.ref.node = name])
  <2>1. r.node = "root" /\ name = "proc"
    BY <1>6 DEF Children
  <2>2. n = k
    BY <1>6 DEF n, Enter, r
  <2> HIDE DEF k
  <2>3. Makes(k, m, name, 0, IF name = r.node THEN s ELSE RootState[Mounted[name]], h, p)
    BY <1>6, <2>1, MoveOwned DEF k, s, r
  <2>4. Owned(k, h, p) /\ k.ref.offset = 0 /\ StateOf(k) = RootState["proc"]
    BY <2>1, <2>3, MountedIs DEF Makes
  <2>5. ASSUME NEW at, Sits(r, s, at)
        PROVE  Sits(k.ref, StateOf(k), Meant(at, name, p, flags))
    <3>1. at = <<>>
      BY <1>2, <1>6, <2>1, <2>5
    <3>2. Meant(at, name, p, flags) = <<"proc">>
      <4>1. Append(<<>>, "proc") = <<"proc">> /\ <<>> # <<"proc">>
        OBVIOUS
      <4> QED BY <2>1, <3>1, <4>1 DEF Meant
    <3> QED BY <2>4, <3>2, RootStates DEF Sits
  <2>6. Followed(StateOf(k))
    BY <2>4, RootStates
  <2> QED BY <2>2, <2>4, <2>5, <2>6 DEF Enters, n, s, r
<1>7. CASE name \notin {".", ".."} /\ ~(r.offset = 0 /\ name \in Children(r.node))
  <2> DEFINE k == Update([m EXCEPT !.ref.offset = above])
  <2>1. n = DriverOpen(k, name, flags)
    BY <1>7 DEF n, Enter, r
  <2>2. above \in Nat
    BY <1>1 DEF r
  <2> HIDE DEF k
  <2>3. Makes(k, m, r.node, above, s, h, p)
    <3> HIDE DEF above
    <3> QED BY <2>2, ShiftOwned DEF k, s, r
  <2>4. Owned(k, h, p) /\ k.err = "ok" /\ StateOf(k) = s /\ k.ref.offset = r.offset + 1
        /\ k.ref.node = r.node
    BY <2>3 DEF Makes, r
  <2>5. k.ref.driver = r.driver
    BY <1>1, <2>4 DEF Owned, Leads
  <2>6. r.offset = 0 /\ k.ref.driver = "fat" => name # "proc"
    BY <1>1, <1>7, <2>5 DEF Children
  <2>7. Enters(DriverOpen(k, name, flags), k, r, name, flags, h, p)
    BY <1>1, <1>7, <2>4, <2>6, DriverEnters
  <2> QED BY <2>1, <2>4, <2>7 DEF Enters, n, s, r
<1> QED BY <1>1, <1>3, <1>4, <1>5, <1>6, <1>7 DEF n, r

-----------------------------------------------------------------------------
(* The walks, turn by turn: that there is a function that does what each     *)
(* recursion says, and that the walk is that function.                       *)
LEMMA Turns ==
  ASSUME NEW n \in Nat, NEW E, 0 \in E, \A j \in 1 .. n : j - 1 \in E => j \in E
  PROVE  \A j \in 0 .. n : j \in E
<1> DEFINE S == {j \in 0 .. n : j \notin E}
<1>1. ASSUME NEW j \in S, \A i \in S : j <= i
      PROVE  FALSE
  <2>1. j \in 1 .. n /\ j - 1 \in 0 .. n /\ ~(j <= j - 1)
    OBVIOUS
  <2>2. j - 1 \in E
    BY <1>1, <2>1
  <2> QED BY <2>1, <2>2
<1>2. S = {}
  <2>1. S \subseteq Nat
    OBVIOUS
  <2> HIDE DEF S
  <2> QED BY <1>1, <2>1, LeastNatural
<1> QED BY <1>2

LEMMA SectionsTurn ==
  ASSUME NEW m, NEW path, NEW flags,
         Len(path) \in Nat
  PROVE  \A k \in 0 .. Len(path) :
           Sections(m, path, flags)[k] =
             IF k = 0 THEN m ELSE Section(Sections(m, path, flags)[k - 1], path, k, flags)
<1> DEFINE n == Len(path)
           F(x, k) == Section(x, path, k, flags)
           a == m
           turn == Sections(m, path, flags)
           Upto(f, j) == f = [k \in 0 .. j |-> IF k = 0 THEN a ELSE F(f[k - 1], k)]
           E == {j \in 0 .. n : \E f : Upto(f, j)}
<1>1. turn = CHOOSE f : Upto(f, n)
  BY Zenon DEF Sections
<1>2. n \in Nat
  OBVIOUS
<1> HIDE DEF n, F, a, turn
<1>3. 0 \in E
  <2> DEFINE f == [k \in 0 .. 0 |-> a]
  <2>1. Upto(f, 0)
    <3>1. \A k \in 0 .. 0 : k = 0
      OBVIOUS
    <3> QED BY <3>1
  <2> HIDE DEF f, Upto
  <2> QED BY <1>2, <2>1
<1>4. ASSUME NEW j \in 1 .. n, j - 1 \in E
      PROVE  j \in E
  <2>1. PICK f : Upto(f, j - 1)
    BY <1>4
  <2> DEFINE g == [k \in 0 .. j |-> IF k < j THEN f[k] ELSE F(f[j - 1], j)]
  <2>2. ASSUME NEW k \in 0 .. j
        PROVE  g[k] = IF k = 0 THEN a ELSE F(g[k - 1], k)
    <3>1. CASE k = 0
      BY <1>2, <2>1, <3>1
    <3>2. CASE k # 0 /\ k < j
      <4>1. k \in 0 .. j - 1 /\ k - 1 \in 0 .. j /\ k - 1 < j
        BY <1>2, <3>2
      <4>2. g[k] = f[k] /\ g[k - 1] = f[k - 1]
        BY <3>2, <4>1
      <4> HIDE DEF g
      <4>3. f[k] = F(f[k - 1], k)
        BY <2>1, <3>2, <4>1
      <4> QED BY <3>2, <4>2, <4>3
    <3>3. CASE k = j
      <4>1. j - 1 \in 0 .. j /\ j - 1 < j /\ ~(j < j) /\ j # 0
        BY <1>2
      <4>2. g[k] = F(f[j - 1], j) /\ g[j - 1] = f[j - 1]
        BY <3>3, <4>1
      <4> HIDE DEF g
      <4> QED BY <3>3, <4>1, <4>2
    <3> QED BY <1>2, <3>1, <3>2, <3>3
  <2>3. Upto(g, j)
    BY <2>2
  <2> HIDE DEF g, Upto
  <2> QED BY <1>2, <2>3
<1>5. \E f : Upto(f, n)
  <2> HIDE DEF E
  <2>1. \A j \in 0 .. n : j \in E
    BY <1>2, <1>3, <1>4, Turns
  <2>2. n \in E
    BY <1>2, <2>1
  <2> QED BY <2>2 DEF E
<1> HIDE DEF Upto
<1>6. Upto(turn, n)
  BY <1>1, <1>5, Zenon
<1>7. ASSUME NEW k \in 0 .. n
      PROVE  turn[k] = IF k = 0 THEN a ELSE F(turn[k - 1], k)
  BY <1>6 DEF Upto
<1> QED BY <1>7 DEF n, F, a, turn

LEMMA NamedTurn ==
  ASSUME NEW from, NEW path, NEW pid, NEW flags,
         Len(path) \in Nat
  PROVE  \A k \in 0 .. Len(path) :
           Named(from, path, pid, flags)[k] =
             IF k = 0 THEN from ELSE Meant(Named(from, path, pid, flags)[k - 1], path[k], pid, flags)
<1> DEFINE n == Len(path)
           F(x, k) == Meant(x, path[k], pid, flags)
           a == from
           turn == Named(from, path, pid, flags)
           Upto(f, j) == f = [k \in 0 .. j |-> IF k = 0 THEN a ELSE F(f[k - 1], k)]
           E == {j \in 0 .. n : \E f : Upto(f, j)}
<1>1. turn = CHOOSE f : Upto(f, n)
  BY Zenon DEF Named
<1>2. n \in Nat
  OBVIOUS
<1> HIDE DEF n, F, a, turn
<1>3. 0 \in E
  <2> DEFINE f == [k \in 0 .. 0 |-> a]
  <2>1. Upto(f, 0)
    <3>1. \A k \in 0 .. 0 : k = 0
      OBVIOUS
    <3> QED BY <3>1
  <2> HIDE DEF f, Upto
  <2> QED BY <1>2, <2>1
<1>4. ASSUME NEW j \in 1 .. n, j - 1 \in E
      PROVE  j \in E
  <2>1. PICK f : Upto(f, j - 1)
    BY <1>4
  <2> DEFINE g == [k \in 0 .. j |-> IF k < j THEN f[k] ELSE F(f[j - 1], j)]
  <2>2. ASSUME NEW k \in 0 .. j
        PROVE  g[k] = IF k = 0 THEN a ELSE F(g[k - 1], k)
    <3>1. CASE k = 0
      BY <1>2, <2>1, <3>1
    <3>2. CASE k # 0 /\ k < j
      <4>1. k \in 0 .. j - 1 /\ k - 1 \in 0 .. j /\ k - 1 < j
        BY <1>2, <3>2
      <4>2. g[k] = f[k] /\ g[k - 1] = f[k - 1]
        BY <3>2, <4>1
      <4> HIDE DEF g
      <4>3. f[k] = F(f[k - 1], k)
        BY <2>1, <3>2, <4>1
      <4> QED BY <3>2, <4>2, <4>3
    <3>3. CASE k = j
      <4>1. j - 1 \in 0 .. j /\ j - 1 < j /\ ~(j < j) /\ j # 0
        BY <1>2
      <4>2. g[k] = F(f[j - 1], j) /\ g[j - 1] = f[j - 1]
        BY <3>3, <4>1
      <4> HIDE DEF g
      <4> QED BY <3>3, <4>1, <4>2
    <3> QED BY <1>2, <3>1, <3>2, <3>3
  <2>3. Upto(g, j)
    BY <2>2
  <2> HIDE DEF g, Upto
  <2> QED BY <1>2, <2>3
<1>5. \E f : Upto(f, n)
  <2> HIDE DEF E
  <2>1. \A j \in 0 .. n : j \in E
    BY <1>2, <1>3, <1>4, Turns
  <2>2. n \in E
    BY <1>2, <2>1
  <2> QED BY <2>2 DEF E
<1> HIDE DEF Upto
<1>6. Upto(turn, n)
  BY <1>1, <1>5, Zenon
<1>7. ASSUME NEW k \in 0 .. n
      PROVE  turn[k] = IF k = 0 THEN a ELSE F(turn[k - 1], k)
  BY <1>6 DEF Upto
<1> QED BY <1>7 DEF n, F, a, turn

LEMMA TraceTurn ==
  ASSUME NEW m
  PROVE  \A k \in 0 .. MaxResolves :
           TraceUp(m)[k] =
             IF k = 0 THEN [m |-> m, names |-> <<>>, wild |-> FALSE] ELSE Climb(TraceUp(m)[k - 1])
<1> DEFINE n == MaxResolves
           F(x, k) == Climb(x)
           a == [m |-> m, names |-> <<>>, wild |-> FALSE]
           turn == TraceUp(m)
           Upto(f, j) == f = [k \in 0 .. j |-> IF k = 0 THEN a ELSE F(f[k - 1], k)]
           E == {j \in 0 .. n : \E f : Upto(f, j)}
<1>1. turn = CHOOSE f : Upto(f, n)
  BY Zenon DEF TraceUp
<1>2. n \in Nat
  BY FileCallsAssumption
<1> HIDE DEF n, F, a, turn
<1>3. 0 \in E
  <2> DEFINE f == [k \in 0 .. 0 |-> a]
  <2>1. Upto(f, 0)
    <3>1. \A k \in 0 .. 0 : k = 0
      OBVIOUS
    <3> QED BY <3>1
  <2> HIDE DEF f, Upto
  <2> QED BY <1>2, <2>1
<1>4. ASSUME NEW j \in 1 .. n, j - 1 \in E
      PROVE  j \in E
  <2>1. PICK f : Upto(f, j - 1)
    BY <1>4
  <2> DEFINE g == [k \in 0 .. j |-> IF k < j THEN f[k] ELSE F(f[j - 1], j)]
  <2>2. ASSUME NEW k \in 0 .. j
        PROVE  g[k] = IF k = 0 THEN a ELSE F(g[k - 1], k)
    <3>1. CASE k = 0
      BY <1>2, <2>1, <3>1
    <3>2. CASE k # 0 /\ k < j
      <4>1. k \in 0 .. j - 1 /\ k - 1 \in 0 .. j /\ k - 1 < j
        BY <1>2, <3>2
      <4>2. g[k] = f[k] /\ g[k - 1] = f[k - 1]
        BY <3>2, <4>1
      <4> HIDE DEF g
      <4>3. f[k] = F(f[k - 1], k)
        BY <2>1, <3>2, <4>1
      <4> QED BY <3>2, <4>2, <4>3
    <3>3. CASE k = j
      <4>1. j - 1 \in 0 .. j /\ j - 1 < j /\ ~(j < j) /\ j # 0
        BY <1>2
      <4>2. g[k] = F(f[j - 1], j) /\ g[j - 1] = f[j - 1]
        BY <3>3, <4>1
      <4> HIDE DEF g
      <4> QED BY <3>3, <4>1, <4>2
    <3> QED BY <1>2, <3>1, <3>2, <3>3
  <2>3. Upto(g, j)
    BY <2>2
  <2> HIDE DEF g, Upto
  <2> QED BY <1>2, <2>3
<1>5. \E f : Upto(f, n)
  <2> HIDE DEF E
  <2>1. \A j \in 0 .. n : j \in E
    BY <1>2, <1>3, <1>4, Turns
  <2>2. n \in E
    BY <1>2, <2>1
  <2> QED BY <2>2 DEF E
<1> HIDE DEF Upto
<1>6. Upto(turn, n)
  BY <1>1, <1>5, Zenon
<1>7. ASSUME NEW k \in 0 .. n
      PROVE  turn[k] = IF k = 0 THEN a ELSE F(turn[k - 1], k)
  BY <1>6 DEF Upto
<1> QED BY <1>7 DEF n, F, a, turn

-----------------------------------------------------------------------------
(* vfs_open. *)

(* The walk m has come to n after the first j of the names. *)
Walks(n, j, m, path, flags, h, p) ==
  /\ Owned(n, h, p)
  /\ n.err = "ok" =>
       /\ \A at : Sits(m.ref, StateOf(m), at) =>
                    Sits(n.ref, StateOf(n), Named(at, path, p, flags)[j])
       /\ "nofollow" \notin flags /\ Followed(StateOf(m)) => Followed(StateOf(n))

(* One name more. *)
LEMMA WalkOn ==
  ASSUME NEW m, NEW h, NEW p, p \in {1, 2}, DriveWorks, NEW path \in Seq(STRING),
         NEW flags, NEW n, NEW j \in 1 .. Len(path), Walks(n, j - 1, m, path, flags, h, p),
         n.err = "ok", NEW with, "nofollow" \in with <=> "nofollow" \in flags
  PROVE  Walks(Enter(n, path[j], with), j, m, path, flags, h, p)
<1> DEFINE q == Enter(n, path[j], with)
<1>1. path[j] \in Names /\ Len(path) \in Nat /\ j \in 0 .. Len(path) /\ j # 0
  BY ElementOfSeq DEF Names
<1>2. Enters(q, n, n.ref, path[j], with, h, p)
  BY <1>1, EnterOwned DEF Walks
<1> HIDE DEF q
<1>3. ASSUME NEW at, q.err = "ok", Sits(m.ref, StateOf(m), at)
      PROVE  Sits(q.ref, StateOf(q), Named(at, path, p, flags)[j])
  <2> DEFINE before == Named(at, path, p, flags)[j - 1]
  <2>1. Sits(n.ref, StateOf(n), before)
    BY <1>3 DEF Walks
  <2> HIDE DEF before
  <2>2. Sits(q.ref, StateOf(q), Meant(before, path[j], p, with))
    BY <1>2, <1>3, <2>1 DEF Enters
  <2>3. Meant(before, path[j], p, with) = Meant(before, path[j], p, flags)
    BY DEF Meant
  <2>4. Named(at, path, p, flags)[j] = Meant(before, path[j], p, flags)
    BY <1>1, NamedTurn DEF before
  <2> QED BY <2>2, <2>3, <2>4
<1> QED BY <1>2, <1>3 DEF Enters, Walks, q

LEMMA SectionsOwned ==
  ASSUME NEW m, NEW h, NEW p, Owned(m, h, p), p \in {1, 2}, m.err = "ok", DriveWorks,
         NEW path \in Seq(STRING), NEW flags
  PROVE  \A k \in 0 .. Len(path) :
           Walks(Sections(m, path, flags)[k], IF k = 0 THEN 0 ELSE k - 1, m, path, flags, h, p)
<1> DEFINE turn == Sections(m, path, flags)
           last(k) == IF k = 0 THEN 0 ELSE k - 1
           E == {k \in 0 .. Len(path) : Walks(turn[k], last(k), m, path, flags, h, p)}
           with == {"dir"} \cup (flags \cap {"nofollow"})
<1>1. Len(path) \in Nat
  OBVIOUS
<1>2. \A k \in 0 .. Len(path) :
        turn[k] = IF k = 0 THEN m ELSE Section(turn[k - 1], path, k, flags)
  BY <1>1, SectionsTurn
<1>3. "nofollow" \in with <=> "nofollow" \in flags
  OBVIOUS
<1> HIDE DEF turn, with
<1>4. Walks(m, 0, m, path, flags, h, p)
  <2>1. \A at : Named(at, path, p, flags)[0] = at
    BY <1>1, NamedTurn
  <2> QED BY <2>1 DEF Walks
<1>5. 0 \in E
  <2>1. turn[0] = m
    BY <1>1, <1>2
  <2> QED BY <1>1, <1>4, <2>1
<1>6. ASSUME NEW k \in 1 .. Len(path), k - 1 \in E
      PROVE  k \in E
  <2> DEFINE x == turn[k - 1]
             y == turn[k]
  <2>1. Walks(x, last(k - 1), m, path, flags, h, p) /\ y = Section(x, path, k, flags)
        /\ last(k) = k - 1 /\ k \in 0 .. Len(path)
    <3>1. y = Section(x, path, k, flags)
      BY <1>1, <1>2
    <3> QED BY <1>1, <1>6, <3>1
  <2> HIDE DEF x, y
  <2>2. Walks(y, k - 1, m, path, flags, h, p)
    <3>1. CASE x.err # "ok"
      BY <2>1, <3>1 DEF Section, Walks
    <3>2. CASE x.err = "ok" /\ path[k] = "long"
      <4>1. y = [x EXCEPT !.err = "ENAMETOOLONG"]
        BY <2>1, <3>2 DEF Section, Fail
      <4>2. Owned(y, h, p) /\ y.err = "ENAMETOOLONG"
        <5>1. Owned(x, h, p)
          BY <2>1 DEF Walks
        <5> QED BY <4>1, <5>1, FailOwned
      <4> QED BY <4>2 DEF Walks
    <3>3. CASE x.err = "ok" /\ path[k] # "long"
      <4> DEFINE z == IF k = 1 THEN x ELSE Enter(x, path[k - 1], with)
      <4>1. y = IF z.err = "ok" /\ k > MaxResolves THEN [z EXCEPT !.err = "ELOOP"] ELSE z
        BY <2>1, <3>3 DEF Section, Fail, with
      <4>2. Walks(z, k - 1, m, path, flags, h, p)
        <5>1. CASE k = 1
          BY <2>1, <5>1
        <5>2. CASE k # 1
          <6>1. last(k - 1) = (k - 1) - 1 /\ k - 1 \in 1 .. Len(path)
            BY <1>1, <5>2
          <6>2. Walks(x, (k - 1) - 1, m, path, flags, h, p)
            BY <2>1, <6>1
          <6>3. Walks(Enter(x, path[k - 1], with), k - 1, m, path, flags, h, p)
            BY <1>3, <3>3, <6>1, <6>2, WalkOn
          <6> QED BY <5>2, <6>3
        <5> QED BY <5>1, <5>2
      <4> HIDE DEF z
      <4>3. CASE y = z
        BY <4>2, <4>3
      <4>4. CASE y = [z EXCEPT !.err = "ELOOP"]
        <5>1. Owned(y, h, p) /\ y.err = "ELOOP"
          BY <4>2, <4>4, FailOwned DEF Walks
        <5> QED BY <5>1 DEF Walks
      <4> QED BY <4>1, <4>3, <4>4
    <3> QED BY <3>1, <3>2, <3>3
  <2> QED BY <2>1, <2>2 DEF y
<1> HIDE DEF E
<1>7. \A k \in 0 .. Len(path) : k \in E
  BY <1>1, <1>5, <1>6, Turns
<1> QED BY <1>7 DEF E, turn

(* Where a walk from a reference starts. *)
StartsAt(base, h, absolute, at) ==
  IF absolute \/ base = RootRef THEN at = <<>> ELSE Sits(base, h[base.id], at)

Opens(n, base, h, absolute, path, flags, p) ==
  /\ Owned(n, h, p)
  /\ n.err = "ok" =>
       /\ \A at : StartsAt(base, h, absolute, at) =>
                    Sits(n.ref, StateOf(n), Named(at, path, p, flags)[Len(path)])
       /\ "nofollow" \notin flags /\ (base = RootRef \/ Followed(h[base.id])) =>
            Followed(StateOf(n))

(* Whatever vfs_open returns, its reference owns a state of its own, and the *)
(* other states are what they were; where it returns no error, that state is *)
(* what the path names.                                                      *)
LEMMA VfsOpenOwned ==
  ASSUME NEW m, NEW h, NEW p, Bare(m, h, p), p \in {1, 2}, DriveWorks,
         NEW base, base = RootRef \/ Leads(base, h), NEW absolute \in BOOLEAN,
         NEW path \in Seq(STRING), NEW flags
  PROVE  Opens(VfsOpen(m, base, absolute, path, flags), base, h, absolute, path, flags, p)
<1> DEFINE src == IF absolute THEN RootRef ELSE base
           up == Update(Refcpy(m, src))
           start == Ignore(up)
           turn == Sections(start, path, flags)
           k == Len(path)
           n == VfsOpen(m, base, absolute, path, flags)
<1>1. n = IF turn[k].err = "ok" /\ path # <<>> THEN Enter(turn[k], path[k], flags) ELSE turn[k]
  BY DEF VfsOpen
<1>2. /\ Owned(up, h, p)
      /\ \A at : StartsAt(base, h, absolute, at) => Sits(up.ref, StateOf(up), at)
      /\ (base = RootRef \/ Followed(h[base.id])) => Followed(StateOf(up))
  <2>1. CASE src = RootRef
    <3>1. Makes(up, m, "root", 0, RootState["fat"], h, p)
      BY <2>1, StartOwned
    <3>2. absolute \/ base = RootRef
      BY <2>1
    <3>3. Sits(up.ref, StateOf(up), <<>>)
      BY <3>1, RootStates DEF Makes, Sits
    <3>4. Followed(StateOf(up))
      BY <3>1, RootStates DEF Makes
    <3> QED BY <3>1, <3>2, <3>3, <3>4 DEF Makes, StartsAt
  <2>2. CASE src # RootRef
    <3>1. src = base /\ ~absolute /\ Leads(base, h) /\ base # RootRef
      BY <2>2
    <3>2. Makes(up, m, base.node, base.offset, h[base.id], h, p)
      BY <3>1, CopyOwned
    <3> QED BY <3>1, <3>2 DEF Makes, StartsAt, Sits
  <2> QED BY <2>1, <2>2
<1> HIDE DEF up
<1>3. /\ Owned(start, h, p) /\ start.err = "ok" /\ start.ref = up.ref
      /\ StateOf(start) = StateOf(up)
  BY <1>2, FailOwned DEF Ignore
<1> HIDE DEF start
<1>4. k \in Nat
  OBVIOUS
<1>5. \A i \in 0 .. k : Walks(turn[i], IF i = 0 THEN 0 ELSE i - 1, start, path, flags, h, p)
  BY <1>3, SectionsOwned
<1> HIDE DEF turn
<1>6. Walks(turn[k], IF k = 0 THEN 0 ELSE k - 1, start, path, flags, h, p)
  BY <1>4, <1>5
<1>7. Walks(n, k, start, path, flags, h, p)
  <2>1. CASE turn[k].err # "ok"
    BY <1>1, <1>6, <2>1 DEF Walks
  <2>2. CASE turn[k].err = "ok" /\ path = <<>>
    BY <1>1, <1>6, <2>2
  <2>3. CASE turn[k].err = "ok" /\ path # <<>>
    <3>1. k \in 1 .. k /\ k # 0
      BY <1>4, <2>3, EmptySeq
    <3>2. Walks(turn[k], k - 1, start, path, flags, h, p)
      BY <1>6, <3>1
    <3>3. Walks(Enter(turn[k], path[k], flags), k, start, path, flags, h, p)
      BY <2>3, <3>1, <3>2, WalkOn
    <3> QED BY <1>1, <2>3, <3>3
  <2> QED BY <2>1, <2>2, <2>3
<1> HIDE DEF n
<1> QED BY <1>2, <1>3, <1>7 DEF Walks, Opens, n

-----------------------------------------------------------------------------
(* The invariant. *)
TypeInv ==
  /\ Heap(heap) /\ pids \subseteq Procs
  /\ cwd \in [Procs -> Refs] /\ files \in [Procs -> [Fds -> Refs]]
  /\ exists \in [Procs -> [Fds -> BOOLEAN]] /\ table \in [Procs -> {"own", "null"}]
  /\ listed \in [Procs -> [Fds -> Seq(Nat)]]
  /\ wild \in BOOLEAN /\ bad = FALSE

(* What the processes hold leads to states that the heap g holds. *)
HeldIn(g) ==
  \A p \in pids : /\ cwd[p] = RootRef \/ Leads(cwd[p], g)
                  /\ \A fd \in Open(p) : Leads(files[p][fd], g)

(* No two references lead to the same state. *)
Apart ==
  \A x, y \in Holders : (x # y /\ RefOf(x).driver # "none") => RefOf(x).id # RefOf(y).id

(* A working directory is where its offset says, and is no link. *)
CwdIn(g) ==
  \A p \in pids : cwd[p] # RootRef =>
     Followed(g[cwd[p].id]) /\ Sits(cwd[p], g[cwd[p].id], Place(g[cwd[p].id]))

(* A listing has come to the offset of the state. *)
Listing(seen, s) ==
  seen # <<>> =>
     /\ s.fs = "proc" /\ IsDirectory(s) /\ s.offset = seen[Len(seen)] + EntrySize
     /\ \A i \in 2 .. Len(seen) : seen[i] = seen[i - 1] + EntrySize

ListIn(g) == \A p \in pids : \A fd \in Open(p) : Listing(listed[p][fd], g[files[p][fd].id])

Inv == TypeInv /\ HeldIn(heap) /\ Apart /\ CwdIn(heap) /\ ListIn(heap)

(* What every step does: keep the invariant, and lose no state. *)
Fine ==
  Inv' /\ ((result' = "ok" /\ pids' = pids /\ table' = table) => Lost' \subseteq Lost)

-----------------------------------------------------------------------------
(* From the heap that a call leaves, what nobody reaches any more is cleared. *)
LEMMA HeldOnes ==
  ASSUME NEW p \in pids
  PROVE  /\ cwd[p].id \in Held
         /\ \A fd \in Open(p) : files[p][fd].id \in Held
<1>1. \A fd \in Open(p) : fd \in Fds /\ fd # 0
  BY FileCallsAssumption DEF Open, Fds
<1>2. <<p, 0>> \in Holders /\ \A fd \in Open(p) : <<p, fd>> \in Holders
  BY <1>1 DEF Holders
<1>3. RefOf(<<p, 0>>) = cwd[p]
  BY DEF RefOf
<1>4. \A fd \in Open(p) : RefOf(<<p, fd>>) = files[p][fd]
  BY <1>1 DEF RefOf
<1> QED BY <1>2, <1>3, <1>4 DEF Held

LEMMA HeldNext ==
  ASSUME NEW p \in pids'
  PROVE  /\ cwd'[p].id \in Held'
         /\ \A fd \in Open(p)' : files'[p][fd].id \in Held'
<1>1. \A fd \in Open(p)' : fd \in Fds /\ fd # 0
  BY FileCallsAssumption DEF Open, Fds
<1>2. <<p, 0>> \in Holders' /\ \A fd \in Open(p)' : <<p, fd>> \in Holders'
  BY <1>1 DEF Holders
<1>3. RefOf(<<p, 0>>)' = cwd'[p]
  BY DEF RefOf
<1>4. \A fd \in Open(p)' : RefOf(<<p, fd>>)' = files'[p][fd]
  BY <1>1 DEF RefOf
<1> QED BY <1>2, <1>3, <1>4 DEF Held

LEMMA Cleared ==
  ASSUME NEW g, Heap(g), heap' = [i \in DOMAIN g |-> IF i \in Held' THEN g[i] ELSE Unreached],
         HeldIn(g)', CwdIn(g)', ListIn(g)'
  PROVE  Heap(heap)' /\ HeldIn(heap)' /\ CwdIn(heap)' /\ ListIn(heap)'
<1>1. DOMAIN heap' = DOMAIN g /\ \A i \in DOMAIN g : i \in Held' => heap'[i] = g[i]
  OBVIOUS
<1>2. Heap(heap)'
  BY DEF Heap
<1>3. ASSUME NEW r, Leads(r, g), r.id \in Held'
      PROVE  Leads(r, heap') /\ heap'[r.id] = g[r.id]
  BY <1>1, <1>3 DEF Leads
<1>4. HeldIn(heap)'
  BY <1>3, HeldNext DEF HeldIn
<1>5. CwdIn(heap)'
  <2>1. ASSUME NEW p \in pids', cwd'[p] # RootRef
        PROVE  heap'[cwd'[p].id] = g[cwd'[p].id]
    BY <1>3, <2>1, HeldNext DEF HeldIn
  <2> QED BY <2>1 DEF CwdIn
<1>6. ListIn(heap)'
  <2>1. ASSUME NEW p \in pids', NEW fd \in Open(p)'
        PROVE  heap'[files'[p][fd].id] = g[files'[p][fd].id]
    BY <1>3, HeldNext DEF HeldIn
  <2> QED BY <2>1 DEF ListIn
<1> QED BY <1>2, <1>4, <1>5, <1>6

(* Calls that leave the references as they are, and the states they lead to. *)
LEMMA Stays ==
  ASSUME Inv, UNCHANGED <<pids, cwd, fileVars, listed>>, NEW g, Heap(g),
         \A i \in DOMAIN heap : i \in DOMAIN g /\ g[i] = heap[i],
         heap' = [i \in DOMAIN g |-> IF i \in Held' THEN g[i] ELSE Unreached],
         bad' = FALSE, wild' \in BOOLEAN, result' = "ok" => DOMAIN g = DOMAIN heap
  PROVE  Fine
<1>1. pids' = pids /\ cwd' = cwd /\ files' = files /\ exists' = exists /\ table' = table
      /\ listed' = listed
  BY DEF fileVars
<1>2. Holders' = Holders /\ Held' = Held
  BY <1>1 DEF Holders, Held, RefOf, Open
<1>3. ASSUME NEW r, Leads(r, heap) PROVE Leads(r, g) /\ g[r.id] = heap[r.id]
  BY <1>3 DEF Leads
<1>4. HeldIn(g)'
  BY <1>1, <1>3 DEF HeldIn, Open, Inv
<1>5. CwdIn(g)'
  <2>1. \A p \in pids : cwd[p] # RootRef => g[cwd[p].id] = heap[cwd[p].id]
    BY <1>3 DEF HeldIn, Inv
  <2> QED BY <1>1, <2>1 DEF CwdIn, Inv
<1>6. ListIn(g)'
  <2>1. \A p \in pids : \A fd \in Open(p) : g[files[p][fd].id] = heap[files[p][fd].id]
    BY <1>3 DEF HeldIn, Inv
  <2> QED BY <1>1, <2>1 DEF ListIn, Open, Inv
<1>7. Heap(heap)' /\ HeldIn(heap)' /\ CwdIn(heap)' /\ ListIn(heap)'
  BY <1>4, <1>5, <1>6, Cleared
<1>8. Apart'
  BY <1>1, <1>2 DEF Apart, RefOf, Inv
<1>9. TypeInv'
  BY <1>1, <1>7 DEF TypeInv, Inv
<1>10. result' = "ok" => Lost' = Lost
  BY <1>2 DEF Lost
<1> QED BY <1>7, <1>8, <1>9, <1>10 DEF Inv, Fine

LEMMA Same ==
  ASSUME Inv, UNCHANGED <<heap, pids, cwd, fileVars, listed, bad, wild>>
  PROVE  Fine
<1>1. heap' = heap /\ pids' = pids /\ cwd' = cwd /\ files' = files /\ exists' = exists
      /\ table' = table /\ listed' = listed /\ bad' = bad /\ wild' = wild
  BY DEF fileVars
<1>2. Inv'
  BY <1>1 DEF Inv, TypeInv, HeldIn, Apart, CwdIn, ListIn, Holders, RefOf, Open
<1>3. Lost' = Lost
  BY <1>1 DEF Lost, Held, Holders, RefOf, Open
<1> QED BY <1>2, <1>3 DEF Fine

LEMMA Wild ==
  ASSUME Inv, GoWild
  PROVE  Fine
<1>1. NoRef \in Refs /\ <<>> \in Seq(Nat) /\ DOMAIN NoStates = {}
  BY DEF NoRef, RootRef, Refs, NoStates
<1>2. pids' = {} /\ heap' = NoStates /\ Lost' = {}
  BY <1>1 DEF GoWild, Lost
<1>3. TypeInv'
  BY <1>1 DEF GoWild, TypeInv, Inv, Heap, EachProc, EachFd, NoStates
<1>4. Holders' = {}
  BY <1>2 DEF Holders
<1> QED BY <1>2, <1>3, <1>4 DEF Fine, Inv, HeldIn, CwdIn, ListIn, Apart

-----------------------------------------------------------------------------
(* A call when it starts. *)
LEMMA CallIs ==
  ASSUME Inv, Room, NEW p \in pids
  PROVE  Bare(Call(p), heap, p) /\ p \in {1, 2}
<1>1. Heap(heap) /\ pids \subseteq {1, 2}
  BY FileCallsAssumption DEF Inv, TypeInv
<1>2. \E i \in 1 .. MaxStates : i \notin DOMAIN heap
  <2>1. MaxStates \in Nat /\ MaxStates > 0
    BY FileCallsAssumption
  <2>2. Cardinality(1 .. MaxStates) = MaxStates
    BY <2>1, FS_Interval
  <2>3. CASE DOMAIN heap = 1 .. MaxStates
    BY <2>1, <2>2, <2>3 DEF Room
  <2>4. CASE DOMAIN heap # 1 .. MaxStates
    BY <1>1, <2>4 DEF Heap
  <2> QED BY <2>3, <2>4
<1>3. Roomy(heap)
  BY <1>1, <1>2 DEF Roomy
<1>4. RootRef \in Refs /\ RootRef.node # "none"
  BY DEF RootRef, Refs
<1>5. Record(Call(p)) /\ Call(p).heap = heap /\ Call(p).pids = pids /\ Call(p).pid = p
      /\ Call(p).ref = RootRef /\ Call(p).bad = FALSE
  BY DEF Call, Record
<1> QED BY <1>1, <1>3, <1>4, <1>5 DEF Bare

LEMMA BaseLeads ==
  ASSUME Inv, NEW p \in pids, NEW from \in 0 .. MaxFiles, from # 0 => UsesTable(p),
         NEW base \in Bases(p, from), base # NoRef
  PROVE  base = RootRef \/ Leads(base, heap)
<1>1. CASE from = 0
  BY <1>1 DEF Bases, Inv, HeldIn
<1>2. CASE from # 0
  <2>1. from \in Open(p) /\ base = files[p][from]
    BY <1>2, FileCallsAssumption DEF Bases, Resolved, Open, Fds, UsesTable
  <2> QED BY <2>1 DEF Inv, HeldIn
<1> QED BY <1>1, <1>2

LEMMA CallOpens ==
  ASSUME Inv, Room, NEW p \in pids, DriveWorks, NEW base, base = RootRef \/ Leads(base, heap),
         NEW a \in Paths, NEW flags
  PROVE  Opens(VfsOpen(Call(p), base, a.absolute, a.path, flags), base, heap, a.absolute,
               a.path, flags, p)
<1>1. a.absolute \in BOOLEAN /\ a.path \in Seq(STRING)
  BY FileCallsAssumption
<1> QED BY <1>1, CallIs, VfsOpenOwned

(* The heap of a call that owns a state, and of one that has closed it. *)
LEMMA OwnedKeeps ==
  ASSUME NEW m, NEW h, NEW p, Owned(m, h, p)
  PROVE  /\ Heap(m.heap) /\ DOMAIN m.heap = DOMAIN h \cup {m.ref.id}
         /\ \A i \in DOMAIN h : m.heap[i] = h[i]
         /\ m.ref.id \notin DOMAIN h /\ Leads(m.ref, m.heap) /\ m.bad = FALSE
<1> DEFINE s == m.heap[m.ref.id]
<1>1. /\ Heap(h) /\ m.ref.id \in 1 .. MaxStates /\ m.ref.id \notin DOMAIN h
      /\ Leads(m.ref, m.heap) /\ m.bad = FALSE
  BY DEF Owned, Roomy
<1>2. m.heap = With(h, m.ref.id, s)
  BY DEF Owned
<1> HIDE DEF s
<1>3. Heap(m.heap) /\ DOMAIN m.heap = DOMAIN h \cup {m.ref.id}
  <2>1. Heap(With(h, m.ref.id, s))
    BY <1>1, WithHeap
  <2>2. DOMAIN With(h, m.ref.id, s) = DOMAIN h \cup {m.ref.id}
    BY WithDomain
  <2> QED BY <1>2, <2>1, <2>2, Zenon
<1>4. \A i \in DOMAIN h : m.heap[i] = h[i]
  BY <1>1, <1>2, WithOther
<1> QED BY <1>1, <1>3, <1>4

LEMMA ClosedKeeps ==
  ASSUME NEW m, NEW h, NEW p, Owned(m, h, p)
  PROVE  VfsClose(m).heap = h /\ VfsClose(m).bad = FALSE
<1>1. m.ref.driver # "none"
  BY MountedIs DEF Owned, Leads, Refs
<1>2. Closes(CloseState(m), m, h, p)
  BY CloseOwned
<1> QED BY <1>1, <1>2 DEF VfsClose, Closes, Bare

-----------------------------------------------------------------------------
(* What the processes hold. *)
LEMMA HoldersLead ==
  ASSUME Inv, NEW x \in Holders
  PROVE  /\ RefOf(x) = RootRef \/ Leads(RefOf(x), heap)
         /\ RefOf(x).id \in DOMAIN heap \cup {0}
<1>1. CASE \E p \in pids : x = <<p, 0>>
  BY <1>1 DEF Inv, HeldIn, RefOf, Leads, RootRef
<1>2. CASE x \in pids \X Fds /\ x[2] \in Open(x[1])
  <2>1. x[1] \in pids /\ x[2] \in Open(x[1]) /\ x[2] # 0
    BY <1>2, FileCallsAssumption DEF Fds
  <2>2. RefOf(x) = files[x[1]][x[2]]
    BY <2>1 DEF RefOf
  <2> QED BY <2>1, <2>2 DEF Inv, HeldIn, Leads
<1> QED BY <1>1, <1>2 DEF Holders

LEMMA LeadsSomewhere ==
  ASSUME NEW r, NEW h, Leads(r, h)
  PROVE  r.driver # "none" /\ r # RootRef
BY MountedIs DEF Leads, Refs, RootRef

LEMMA SmallestIs ==
  ASSUME NEW S, S \subseteq Nat, S # {}
  PROVE  Smallest(S) \in S
<1>1. \E i \in S : \A j \in S : i <= j
  BY LeastNatural
<1> QED BY <1>1 DEF Smallest

(* open: the new reference takes a slot that was free. *)
LEMMA FdOpenFine ==
  ASSUME Inv, NEW p \in pids, UsesTable(p), NEW m, Owned(m, heap, p),
         FdOpen(p, m, FreeSlots(p))
  PROVE  Fine
<1>1. /\ Heap(m.heap) /\ DOMAIN m.heap = DOMAIN heap \cup {m.ref.id}
      /\ \A i \in DOMAIN heap : m.heap[i] = heap[i]
      /\ m.ref.id \notin DOMAIN heap /\ Leads(m.ref, m.heap) /\ m.bad = FALSE
  BY OwnedKeeps
<1>2. TypeInv /\ p \in Procs /\ bad = FALSE /\ Fds \subseteq Nat
  BY FileCallsAssumption DEF Inv, TypeInv, Fds
<1>3. CASE ~(m.err \in {"ok"} \cup Positive /\ FreeSlots(p) # {})
  <2>1. UNCHANGED <<cwd, fileVars, listed>> /\ Return(m, "error")
    BY <1>3 DEF FdOpen
  <2> QED BY <1>1, <1>2, <2>1, Stays DEF Return, TypeInv
<1>4. CASE m.err \in {"ok"} \cup Positive /\ FreeSlots(p) # {}
  <2>0. PICK slot : slot = Smallest(FreeSlots(p))
    OBVIOUS
  <2>1. slot \in Fds /\ ~exists[p][slot]
    BY <1>2, <1>4, <2>0, SmallestIs DEF FreeSlots
  <2>2. /\ files' = [files EXCEPT ![p][slot] = m.ref]
        /\ exists' = [exists EXCEPT ![p][slot] = TRUE]
        /\ listed' = [listed EXCEPT ![p][slot] = <<>>]
        /\ cwd' = cwd /\ table' = table /\ Return(m, "ok")
    BY <1>4, <2>0 DEF FdOpen
  <2>3. /\ pids' = pids /\ wild' = wild /\ bad' = FALSE
        /\ heap' = [i \in DOMAIN m.heap |-> IF i \in Held' THEN m.heap[i] ELSE Unreached]
    BY <1>1, <1>2, <2>2 DEF Return
  <2>4. \A q \in pids : Open(q)' = IF q = p THEN Open(q) \cup {slot} ELSE Open(q)
    <3>1. \A q \in pids : q \in Procs
      BY <1>2 DEF TypeInv
    <3>2. table[p] = "own"
      BY DEF UsesTable
    <3>3. \A q \in pids, fd \in Fds :
            exists'[q][fd] = IF q = p /\ fd = slot THEN TRUE ELSE exists[q][fd]
      BY <1>2, <2>1, <2>2, <3>1 DEF TypeInv
    <3> QED BY <2>1, <2>2, <3>2, <3>3 DEF Open
  <2>5. \A q \in pids, fd \in Fds :
          /\ files'[q][fd] = IF q = p /\ fd = slot THEN m.ref ELSE files[q][fd]
          /\ listed'[q][fd] = IF q = p /\ fd = slot THEN <<>> ELSE listed[q][fd]
    BY <1>2, <2>1, <2>2 DEF TypeInv
  <2>6. slot \notin Open(p) /\ \A q \in pids : Open(q) \subseteq Fds
    BY <2>1 DEF Open
  <2>7. ASSUME NEW r, Leads(r, heap) PROVE Leads(r, m.heap) /\ m.heap[r.id] = heap[r.id]
    BY <1>1, <2>7 DEF Leads
  <2>8. HeldIn(m.heap)'
    <3>1. ASSUME NEW q \in pids
          PROVE  /\ cwd'[q] = RootRef \/ Leads(cwd'[q], m.heap)
                 /\ \A fd \in Open(q)' : Leads(files'[q][fd], m.heap)
      <4>1. cwd'[q] = RootRef \/ Leads(cwd'[q], m.heap)
        BY <2>2, <2>7 DEF Inv, HeldIn
      <4>2. ASSUME NEW fd \in Open(q)'
            PROVE  Leads(files'[q][fd], m.heap)
        <5>1. CASE q = p /\ fd = slot
          BY <1>1, <2>1, <2>5, <5>1
        <5>2. CASE ~(q = p /\ fd = slot)
          <6>1. fd \in Open(q) /\ fd \in Fds
            BY <2>4, <2>6, <5>2
          <6>2. files'[q][fd] = files[q][fd]
            BY <2>5, <5>2, <6>1
          <6> QED BY <2>7, <6>1, <6>2 DEF Inv, HeldIn
        <5> QED BY <5>1, <5>2
      <4> QED BY <4>1, <4>2
    <3> QED BY <2>3, <3>1 DEF HeldIn
  <2>9. CwdIn(m.heap)'
    <3>1. \A q \in pids : cwd[q] # RootRef => m.heap[cwd[q].id] = heap[cwd[q].id]
      BY <2>7 DEF Inv, HeldIn
    <3> QED BY <2>2, <2>3, <3>1 DEF Inv, CwdIn
  <2>10. ListIn(m.heap)'
    <3>1. ASSUME NEW q \in pids, NEW fd \in Open(q)'
          PROVE  Listing(listed'[q][fd], m.heap[files'[q][fd].id])
      <4>1. CASE q = p /\ fd = slot
        BY <2>1, <2>5, <4>1 DEF Listing
      <4>2. CASE ~(q = p /\ fd = slot)
        <5>1. fd \in Open(q) /\ fd \in Fds
          BY <2>4, <2>6, <4>2
        <5>2. files'[q][fd] = files[q][fd] /\ listed'[q][fd] = listed[q][fd]
          BY <2>5, <4>2, <5>1
        <5>3. m.heap[files[q][fd].id] = heap[files[q][fd].id]
          BY <2>7, <5>1 DEF Inv, HeldIn
        <5> QED BY <5>1, <5>2, <5>3 DEF Inv, ListIn
      <4> QED BY <4>1, <4>2
    <3> QED BY <2>3, <3>1 DEF ListIn
  <2> DEFINE new == <<p, slot>>
  <2>11. /\ Holders' = Holders \cup {new} /\ new \notin Holders
         /\ RefOf(new)' = m.ref /\ \A x \in Holders : RefOf(x)' = RefOf(x)
    <3>1. slot # 0
      BY <2>1, FileCallsAssumption DEF Fds
    <3>2. Holders' = Holders \cup {new}
      BY <2>1, <2>3, <2>4, <2>6 DEF Holders
    <3>3. new \notin Holders
      BY <2>6, <3>1 DEF Holders
    <3>4. RefOf(new)' = m.ref
      BY <2>1, <2>5, <3>1 DEF RefOf
    <3>5. ASSUME NEW x \in Holders PROVE RefOf(x)' = RefOf(x)
      <4>1. x \in pids \X (Fds \cup {0})
        BY DEF Holders
      <4>2. x # new
        BY <3>3
      <4>3. x[2] = 0 \/ (x[1] \in pids /\ x[2] \in Fds /\ ~(x[1] = p /\ x[2] = slot))
        BY <4>1, <4>2
      <4> QED BY <2>2, <2>5, <4>3 DEF RefOf
    <3> QED BY <3>2, <3>3, <3>4, <3>5
  <2> HIDE DEF new
  <2>12. \A x \in Holders : RefOf(x).id # m.ref.id
    <3>1. 0 \notin DOMAIN m.heap /\ m.ref.id \in DOMAIN m.heap
      BY <1>1, FileCallsAssumption DEF Heap
    <3> QED BY <1>1, <3>1, HoldersLead
  <2>13. Apart'
    <3>1. \A x \in Holders' : RefOf(x)' = IF x = new THEN m.ref ELSE RefOf(x)
      BY <2>11
    <3> QED BY <2>11, <2>12, <3>1 DEF Inv, Apart
  <2>14. Held' = Held \cup {m.ref.id}
    BY <2>11 DEF Held
  <2>15. Lost' \subseteq Lost
    BY <1>1, <2>3, <2>14 DEF Lost
  <2>16. Heap(heap)' /\ HeldIn(heap)' /\ CwdIn(heap)' /\ ListIn(heap)'
    BY <1>1, <2>3, <2>8, <2>9, <2>10, Cleared
  <2>17. TypeInv'
    <3>1. m.ref \in Refs /\ <<>> \in Seq(Nat)
      BY <1>1 DEF Leads
    <3> QED BY <1>2, <2>1, <2>2, <2>3, <2>16, <3>1 DEF TypeInv
  <2> QED BY <2>13, <2>15, <2>16, <2>17 DEF Fine, Inv
<1> QED BY <1>3, <1>4

LEMMA OpenFine ==
  ASSUME Inv, DriveWorks, NEW p, NEW from \in 0 .. MaxFiles, NEW a \in Paths, NEW flags,
         SysOpen(p, from, a.absolute, a.path, flags)
  PROVE  Fine
<1>1. p \in pids /\ Room /\ UsesTable(p)
  BY DEF SysOpen, Ready
<1>2. PICK base \in Bases(p, from) :
        \/ base = NoRef /\ Refuse
        \/ /\ base # NoRef
           /\ \E m \in {VfsOpen(Call(p), base, a.absolute, a.path, flags)},
                 free \in {FreeSlots(p)} : FdOpen(p, m, free)
  BY DEF SysOpen
<1>3. CASE Refuse
  BY <1>3, Same DEF Refuse
<1>4. CASE base # NoRef /\ FdOpen(p, VfsOpen(Call(p), base, a.absolute, a.path, flags), FreeSlots(p))
  <2> DEFINE n == VfsOpen(Call(p), base, a.absolute, a.path, flags)
  <2>1. base = RootRef \/ Leads(base, heap)
    BY <1>1, <1>4, BaseLeads
  <2>2. Opens(n, base, heap, a.absolute, a.path, flags, p)
    BY <1>1, <2>1, CallOpens
  <2> HIDE DEF n
  <2>3. Owned(n, heap, p)
    BY <2>2 DEF Opens
  <2>4. PICK m : m = n
    OBVIOUS
  <2>5. FdOpen(p, m, FreeSlots(p)) /\ Owned(m, heap, p)
    BY <1>4, <2>3, <2>4 DEF n
  <2> QED BY <1>1, <2>5, FdOpenFine
<1> QED BY <1>2, <1>3, <1>4

(* A call that closes what it opened, or fails. *)
LEMMA BriefFine ==
  ASSUME Inv, NEW p, NEW m, Owned(m, heap, p), UNCHANGED <<cwd, fileVars, listed>>,
         Return(m, "error") \/ Return(VfsClose(m), "ok") \/ Return(VfsClose(m), "error")
  PROVE  Fine
<1>1. /\ Heap(m.heap) /\ \A i \in DOMAIN heap : i \in DOMAIN m.heap /\ m.heap[i] = heap[i]
      /\ m.bad = FALSE
  <2>1. /\ Heap(m.heap) /\ DOMAIN m.heap = DOMAIN heap \cup {m.ref.id}
        /\ \A i \in DOMAIN heap : m.heap[i] = heap[i]
        /\ m.bad = FALSE
    BY OwnedKeeps
  <2> QED BY <2>1
<1>2. VfsClose(m).heap = heap /\ VfsClose(m).bad = FALSE
  BY ClosedKeeps
<1>3. Heap(heap) /\ bad = FALSE /\ wild \in BOOLEAN
  BY DEF Inv, TypeInv
<1>4. CASE Return(m, "error")
  BY <1>1, <1>3, <1>4, Stays DEF Return
<1>5. CASE Return(VfsClose(m), "ok") \/ Return(VfsClose(m), "error")
  BY <1>2, <1>3, <1>5, Stays DEF Return
<1> QED BY <1>4, <1>5

LEMMA StatFine ==
  ASSUME Inv, DriveWorks, NEW p, NEW a \in Paths, NEW flags,
         SysStat(p, a.absolute, a.path, flags)
  PROVE  Fine
<1> DEFINE n == VfsOpen(Call(p), cwd[p], a.absolute, a.path, flags)
<1>1. p \in pids /\ Room /\ UNCHANGED <<cwd, fileVars, listed>>
  BY DEF SysStat, Ready
<1>2. cwd[p] = RootRef \/ Leads(cwd[p], heap)
  BY <1>1 DEF Inv, HeldIn
<1>3. Opens(n, cwd[p], heap, a.absolute, a.path, flags, p)
  BY <1>1, <1>2, CallOpens
<1>4. Return(n, "error") \/ Return(VfsClose(n), "ok")
  BY DEF SysStat
<1> HIDE DEF n
<1>5. PICK m : m = n
  OBVIOUS
<1>6. Owned(m, heap, p) /\ (Return(m, "error") \/ Return(VfsClose(m), "ok"))
  BY <1>3, <1>4, <1>5 DEF Opens
<1> QED BY <1>1, <1>6, BriefFine

LEMMA RemoveFine ==
  ASSUME Inv, DriveWorks, NEW p, NEW from \in 0 .. MaxFiles, NEW a \in Paths, NEW rmdir,
         SysRemove(p, from, a.absolute, a.path, rmdir)
  PROVE  Fine
<1> DEFINE flags == {"nofollow"} \cup IF rmdir THEN {"dir"} ELSE {}
<1>1. p \in pids /\ Room /\ (from # 0 => UsesTable(p)) /\ UNCHANGED <<cwd, fileVars, listed>>
  BY DEF SysRemove, Ready
<1>2. PICK base \in Bases(p, from) :
        \/ base = NoRef /\ UNCHANGED <<heap, tree, pids, bad, wild>>
        \/ /\ base # NoRef
           /\ \E m \in {VfsOpen(Call(p), base, a.absolute, a.path, flags)} :
                \/ Return(m, "error")
                \/ Return(VfsClose(m), "error")
                \/ Return(VfsClose(Removed(m)), "ok")
  BY DEF SysRemove
<1>3. CASE UNCHANGED <<heap, tree, pids, bad, wild>>
  BY <1>1, <1>3, Same
<1>4. CASE /\ base # NoRef
           /\ \E m \in {VfsOpen(Call(p), base, a.absolute, a.path, flags)} :
                \/ Return(m, "error")
                \/ Return(VfsClose(m), "error")
                \/ Return(VfsClose(Removed(m)), "ok")
  <2> HIDE DEF flags
  <2>1. base = RootRef \/ Leads(base, heap)
    BY <1>1, <1>4, BaseLeads
  <2>2. Opens(VfsOpen(Call(p), base, a.absolute, a.path, flags), base, heap, a.absolute,
              a.path, flags, p)
    BY <1>1, <2>1, CallOpens
  <2>3. PICK m : /\ m = VfsOpen(Call(p), base, a.absolute, a.path, flags)
                 /\ \/ Return(m, "error")
                    \/ Return(VfsClose(m), "error")
                    \/ Return(VfsClose(Removed(m)), "ok")
    BY <1>4
  <2>4. Owned(m, heap, p)
    BY <2>2, <2>3 DEF Opens
  <2>5. CASE Return(VfsClose(Removed(m)), "ok")
    <3>1. PICK k : k = Removed(m)
      OBVIOUS
    <3>2. PICK t : k = [m EXCEPT !.tree = t]
      BY <3>1 DEF Removed
    <3>3. Owned(k, heap, p)
      BY <2>4, <3>2, GrownOwned DEF Makes
    <3> QED BY <1>1, <2>5, <3>1, <3>3, BriefFine
  <2> QED BY <1>1, <2>3, <2>4, <2>5, BriefFine
<1> QED BY <1>2, <1>3, <1>4

(* chdir: the new directory takes the place of the old one. *)
LEMMA ChdirFine ==
  ASSUME Inv, DriveWorks, NEW p \in Procs, NEW a \in Paths, SysChdir(p, a.absolute, a.path)
  PROVE  Fine
<1> DEFINE n == VfsOpen(Call(p), cwd[p], a.absolute, a.path, {"dir"})
<1>1. p \in pids /\ Room /\ UNCHANGED <<fileVars, listed>>
  BY DEF SysChdir, Ready
<1>2. cwd[p] = RootRef \/ Leads(cwd[p], heap)
  BY <1>1 DEF Inv, HeldIn
<1>3. Opens(n, cwd[p], heap, a.absolute, a.path, {"dir"}, p)
  BY <1>1, <1>2, CallOpens
<1>4. \/ UNCHANGED cwd /\ Return(n, "error")
      \/ /\ n.err = "ok" /\ cwd' = [cwd EXCEPT ![p] = n.ref]
         /\ Return(VfsClose([n EXCEPT !.ref = cwd[p]]), "ok")
  BY DEF SysChdir
<1> HIDE DEF n
<1>5. PICK m : m = n
  OBVIOUS
<1>6. Owned(m, heap, p) /\ Opens(m, cwd[p], heap, a.absolute, a.path, {"dir"}, p)
  BY <1>3, <1>5 DEF Opens
<1>7. CASE UNCHANGED cwd /\ Return(m, "error")
  BY <1>1, <1>6, <1>7, BriefFine
<1>8. CASE /\ m.err = "ok" /\ cwd' = [cwd EXCEPT ![p] = m.ref]
           /\ Return(VfsClose([m EXCEPT !.ref = cwd[p]]), "ok")
  <2>1. /\ Heap(m.heap) /\ DOMAIN m.heap = DOMAIN heap \cup {m.ref.id}
        /\ \A i \in DOMAIN heap : m.heap[i] = heap[i]
        /\ m.ref.id \notin DOMAIN heap /\ Leads(m.ref, m.heap) /\ m.bad = FALSE
    BY <1>6, OwnedKeeps
  <2>2. TypeInv /\ bad = FALSE /\ Fds \subseteq Nat
    BY FileCallsAssumption DEF Inv, TypeInv, Fds
  <2>3. PICK old : old = cwd[p]
    OBVIOUS
  <2>4. PICK k : k = VfsClose([m EXCEPT !.ref = old])
    OBVIOUS
  <2>5. /\ Heap(k.heap) /\ k.bad = FALSE /\ DOMAIN k.heap = DOMAIN m.heap \ {old.id}
        /\ \A i \in DOMAIN m.heap : i # old.id => k.heap[i] = m.heap[i]
    <3> DEFINE q == [m EXCEPT !.ref = old]
    <3>1. Record(q) /\ q.heap = m.heap /\ q.ref = old /\ q.bad = FALSE
      BY <1>6, <2>1 DEF Owned, Record
    <3>2. 0 \notin DOMAIN m.heap
      BY <2>1, FileCallsAssumption DEF Heap
    <3> HIDE DEF q
    <3>3. CASE old = RootRef
      <4>1. k = q /\ old.id = 0
        BY <2>4, <3>1, <3>3 DEF VfsClose, RootRef, q
      <4> QED BY <2>1, <3>1, <3>2, <4>1
    <3>4. CASE Leads(old, heap)
      <4>1. old.driver # "none" /\ old.id \in DOMAIN m.heap
        BY <2>1, <3>4, LeadsSomewhere DEF Leads
      <4>2. k = CloseState(q)
        BY <2>4, <3>1, <4>1 DEF VfsClose, q
      <4> DEFINE g == [i \in DOMAIN m.heap \ {old.id} |-> m.heap[i]]
      <4>3. CloseState(q) = [[q EXCEPT !.heap = g] EXCEPT !.bad = FALSE]
        BY <3>1, <4>1 DEF CloseState, Live
      <4>4. k.heap = g /\ k.bad = FALSE
        <5> HIDE DEF g
        <5> QED BY <3>1, <4>2, <4>3 DEF Record
      <4>5. Heap(g)
        BY <2>1 DEF Heap
      <4> QED BY <4>4, <4>5
    <3> QED BY <1>2, <2>3, <3>3, <3>4
  <2>6. Return(k, "ok")
    BY <1>8, <2>3, <2>4
  <2>7. /\ pids' = pids /\ files' = files /\ exists' = exists /\ table' = table
        /\ listed' = listed /\ bad' = FALSE /\ wild' = wild
        /\ heap' = [i \in DOMAIN k.heap |-> IF i \in Held' THEN k.heap[i] ELSE Unreached]
    BY <1>1, <2>2, <2>5, <2>6 DEF Return, fileVars
  <2>8. \A q \in pids : cwd'[q] = IF q = p THEN m.ref ELSE cwd[q]
    BY <1>8, <2>2 DEF TypeInv
  <2>9. ASSUME NEW r, Leads(r, heap), r.id # old.id
        PROVE  Leads(r, k.heap) /\ k.heap[r.id] = heap[r.id]
    <3>1. \A i \in DOMAIN heap : i # old.id => i \in DOMAIN k.heap /\ k.heap[i] = heap[i]
      BY <2>1, <2>5
    <3> QED BY <2>9, <3>1 DEF Leads
  <2>10. Leads(m.ref, k.heap) /\ k.heap[m.ref.id] = m.heap[m.ref.id] /\ m.ref.id # old.id
    <3>1. m.ref.id # old.id
      <4>1. old.id \in DOMAIN heap \cup {0}
        BY <1>2, <2>3 DEF Leads, RootRef
      <4>2. 0 \notin DOMAIN m.heap /\ m.ref.id \in DOMAIN m.heap
        BY <2>1, FileCallsAssumption DEF Heap
      <4> QED BY <2>1, <4>1, <4>2
    <3> QED BY <2>1, <2>5, <3>1 DEF Leads
  <2> DEFINE here == <<p, 0>>
  <2>11. here \in Holders /\ RefOf(here) = old /\ RefOf(here)' = m.ref
    BY <1>1, <2>3, <2>8 DEF Holders, RefOf
  <2>12. Holders' = Holders /\ \A x \in Holders : x # here => RefOf(x)' = RefOf(x)
    <3>1. Holders' = Holders
      BY <2>7 DEF Holders, Open
    <3>2. ASSUME NEW x \in Holders, x # here PROVE RefOf(x)' = RefOf(x)
      <4>1. x \in pids \X (Fds \cup {0})
        BY DEF Holders
      <4>2. x[2] # 0 \/ x[1] # p
        BY <3>2, <4>1
      <4>3. x[1] \in pids
        BY <4>1
      <4> QED BY <2>7, <2>8, <4>2, <4>3 DEF RefOf
    <3> QED BY <3>1, <3>2
  <2> HIDE DEF here
  <2>13. ASSUME NEW x \in Holders, x # here, RefOf(x).driver # "none"
         PROVE  RefOf(x).id # old.id
    <3>1. RefOf(x).id # RefOf(here).id
      BY <2>11, <2>13 DEF Inv, Apart
    <3> QED BY <2>11, <3>1
  <2>14. ASSUME NEW q \in pids, q # p, cwd[q] # RootRef
         PROVE  Leads(cwd[q], heap) /\ cwd[q].id # old.id
    <3>1. <<q, 0>> \in Holders /\ <<q, 0>> # here /\ RefOf(<<q, 0>>) = cwd[q]
      BY <2>14 DEF Holders, RefOf, here
    <3>2. Leads(cwd[q], heap)
      BY <2>14 DEF Inv, HeldIn
    <3>3. cwd[q].driver # "none"
      BY <3>2, LeadsSomewhere
    <3>4. RefOf(<<q, 0>>).id # old.id
      BY <2>13, <3>1, <3>3
    <3> QED BY <3>1, <3>2, <3>4
  <2>15. ASSUME NEW q \in pids, NEW fd \in Open(q)
         PROVE  Leads(files[q][fd], heap) /\ files[q][fd].id # old.id
    <3>1. fd \in Fds /\ fd # 0
      BY FileCallsAssumption DEF Open, Fds
    <3>2. <<q, fd>> \in Holders /\ <<q, fd>> # here /\ RefOf(<<q, fd>>) = files[q][fd]
      BY <3>1 DEF Holders, RefOf, here
    <3>3. Leads(files[q][fd], heap)
      BY DEF Inv, HeldIn
    <3>4. files[q][fd].driver # "none"
      BY <3>3, LeadsSomewhere
    <3>5. RefOf(<<q, fd>>).id # old.id
      BY <2>13, <3>2, <3>4
    <3> QED BY <3>2, <3>3, <3>5
  <2>16. HeldIn(k.heap)'
    <3>1. ASSUME NEW q \in pids
          PROVE  cwd'[q] = RootRef \/ Leads(cwd'[q], k.heap)
      <4>1. CASE q = p
        BY <2>8, <2>10, <4>1
      <4>2. CASE q # p
        BY <2>8, <2>9, <2>14, <4>2
      <4> QED BY <4>1, <4>2
    <3>2. \A q \in pids : \A fd \in Open(q) : Leads(files[q][fd], k.heap)
      BY <2>9, <2>15
    <3> QED BY <2>7, <3>1, <3>2 DEF HeldIn, Open
  <2>17. CwdIn(k.heap)'
    <3> DEFINE s == m.heap[m.ref.id]
    <3>1. Followed(s) /\ Sits(m.ref, s, Place(s))
      <4>1. /\ \A at : StartsAt(old, heap, a.absolute, at) =>
                         Sits(m.ref, s, Named(at, a.path, p, {"dir"})[Len(a.path)])
            /\ (old = RootRef \/ Followed(heap[old.id])) => Followed(s)
        BY <1>6, <1>8, <2>3 DEF Opens, StateOf
      <4>2. old = RootRef \/ (Followed(heap[old.id]) /\ Sits(old, heap[old.id], Place(heap[old.id])))
        BY <1>1, <2>3 DEF Inv, CwdIn
      <4>3. \E at : StartsAt(old, heap, a.absolute, at)
        BY <4>2 DEF StartsAt
      <4>4. PICK at : Sits(m.ref, s, at)
        BY <4>1, <4>3
      <4> HIDE DEF s
      <4>5. Sits(m.ref, s, Place(s))
        BY <4>4 DEF Sits
      <4> QED BY <4>1, <4>2, <4>5
    <3>2. ASSUME NEW q \in pids, cwd'[q] # RootRef
          PROVE  /\ Followed(k.heap[cwd'[q].id])
                 /\ Sits(cwd'[q], k.heap[cwd'[q].id], Place(k.heap[cwd'[q].id]))
      <4>1. CASE q = p
        BY <2>8, <2>10, <3>1, <4>1
      <4>2. CASE q # p
        <5>1. cwd'[q] = cwd[q] /\ k.heap[cwd[q].id] = heap[cwd[q].id]
          BY <2>8, <2>9, <2>14, <3>2, <4>2
        <5> QED BY <3>2, <5>1 DEF Inv, CwdIn
      <4> QED BY <4>1, <4>2
    <3> QED BY <2>7, <3>2 DEF CwdIn
  <2>18. ListIn(k.heap)'
    <3>1. \A q \in pids : \A fd \in Open(q) : k.heap[files[q][fd].id] = heap[files[q][fd].id]
      BY <2>9, <2>15
    <3> QED BY <2>7, <3>1 DEF ListIn, Open, Inv
  <2>19. Heap(heap)' /\ HeldIn(heap)' /\ CwdIn(heap)' /\ ListIn(heap)'
    BY <2>5, <2>7, <2>16, <2>17, <2>18, Cleared
  <2>20. \A x \in Holders : RefOf(x)' = IF x = here THEN m.ref ELSE RefOf(x)
    BY <2>11, <2>12
  <2>21. Apart'
    <3>1. 0 \notin DOMAIN m.heap /\ m.ref.id \in DOMAIN m.heap
      BY <2>1, FileCallsAssumption DEF Heap
    <3>2. \A x \in Holders : RefOf(x).id # m.ref.id
      BY <2>1, <3>1, HoldersLead
    <3> QED BY <2>12, <2>20, <3>2 DEF Inv, Apart
  <2>22. Held' = {RefOf(x).id : x \in Holders \ {here}} \cup {m.ref.id}
    BY <2>11, <2>12, <2>20 DEF Held
  <2>23. Held = {RefOf(x).id : x \in Holders \ {here}} \cup {old.id}
    BY <2>11 DEF Held
  <2>24. Lost' \subseteq Lost
    <3>1. DOMAIN heap' = (DOMAIN heap \cup {m.ref.id}) \ {old.id}
      BY <2>1, <2>5, <2>7
    <3> QED BY <2>22, <2>23, <3>1 DEF Lost
  <2>25. TypeInv'
    <3>1. m.ref \in Refs
      BY <2>1 DEF Leads
    <3> QED BY <1>8, <2>2, <2>7, <2>19, <3>1 DEF TypeInv
  <2> QED BY <2>19, <2>21, <2>24, <2>25 DEF Fine, Inv
<1> QED BY <1>4, <1>5, <1>7, <1>8

-----------------------------------------------------------------------------
(* vfs_trace. *)

(* A trace on its way: its reference owns a state, whatever failed. *)
Trails(t, h, p) ==
  /\ t = [m |-> t.m, names |-> t.names, wild |-> t.wild] /\ t.wild \in BOOLEAN
  /\ Owned(t.m, h, p) /\ t.m.err = "ok"

Traced(t, h) == ~t.wild => t.m.heap = h /\ t.m.bad = FALSE

LEMMA ClimbTrails ==
  ASSUME NEW t, NEW h, NEW p, Trails(t, h, p), p \in {1, 2}, DriveWorks
  PROVE  Trails(Climb(t), h, p)
<1> DEFINE n == Enter(t.m, "..", {})
           k == Ignore(n)
<1>1. Enters(n, t.m, t.m.ref, "..", {}, h, p)
  <2>1. Owned(t.m, h, p) /\ t.m.err = "ok"
    BY DEF Trails
  <2>2. ".." \in Names
    BY DEF Names
  <2> QED BY <2>1, <2>2, EnterOwned
<1> HIDE DEF n
<1>2. Owned(k, h, p) /\ k.err = "ok"
  BY <1>1, FailOwned DEF Ignore, Enters
<1> HIDE DEF k
<1>3. CASE t.wild \/ AtRoot(t.m)
  BY <1>3 DEF Climb, Trails
<1>4. CASE ~t.wild /\ ~AtRoot(t.m) /\ t.m.ref.driver = "fat"
  <2>1. Climb(t) = [t EXCEPT !.wild = TRUE]
    BY <1>4 DEF Climb
  <2>2. Climb(t) = [m |-> t.m, names |-> t.names, wild |-> TRUE]
    BY <2>1 DEF Trails
  <2> QED BY <2>2 DEF Trails
<1>5. CASE ~t.wild /\ ~AtRoot(t.m) /\ t.m.ref.driver # "fat"
  <2>1. Climb(t) = [m |-> k, names |-> <<LookupName(t.m)>> \o t.names, wild |-> FALSE]
    BY <1>5 DEF Climb, k, n
  <2> QED BY <1>2, <2>1 DEF Trails
<1> QED BY <1>3, <1>4, <1>5 DEF Trails

LEMMA TraceTrails ==
  ASSUME NEW m, NEW h, NEW p, Owned(m, h, p), m.err = "ok", p \in {1, 2}, DriveWorks
  PROVE  Trails(TraceUp(m)[MaxResolves], h, p)
<1> DEFINE turn == TraceUp(m)
           E == {k \in 0 .. MaxResolves : Trails(turn[k], h, p)}
<1>1. \A k \in 0 .. MaxResolves :
        turn[k] = IF k = 0 THEN [m |-> m, names |-> <<>>, wild |-> FALSE]
                  ELSE Climb(turn[k - 1])
  BY TraceTurn
<1> HIDE DEF turn
<1>2. MaxResolves \in Nat
  BY FileCallsAssumption
<1>3. 0 \in E
  <2> DEFINE t0 == [m |-> m, names |-> <<>>, wild |-> FALSE]
  <2>1. 0 \in 0 .. MaxResolves
    BY <1>2
  <2>2. turn[0] = t0
    BY <1>1, <2>1, Zenon
  <2>3. Trails(t0, h, p)
    BY DEF Trails
  <2> QED BY <2>1, <2>2, <2>3
<1>4. ASSUME NEW k \in 1 .. MaxResolves, k - 1 \in E PROVE k \in E
  <2>1. Trails(turn[k - 1], h, p) /\ turn[k] = Climb(turn[k - 1]) /\ k \in 0 .. MaxResolves
    BY <1>1, <1>2, <1>4
  <2> QED BY <2>1, ClimbTrails
<1> HIDE DEF E
<1>5. \A k \in 0 .. MaxResolves : k \in E
  BY <1>2, <1>3, <1>4, Turns
<1> QED BY <1>2, <1>5 DEF E, turn

LEMMA TraceOwned ==
  ASSUME NEW m, NEW h, NEW p, Bare(m, h, p), p \in {1, 2}, DriveWorks,
         NEW src, src = RootRef \/ Leads(src, h)
  PROVE  Traced(Trace(m, src), h)
<1> DEFINE up == Update(Refcpy(m, src))
           start == Ignore(up)
           t == TraceUp(start)[MaxResolves]
<1>1. Owned(up, h, p)
  BY StartOwned, CopyOwned DEF Makes
<1> HIDE DEF up
<1>2. Owned(start, h, p) /\ start.err = "ok"
  BY <1>1, FailOwned DEF Ignore
<1> HIDE DEF start
<1>3. Trails(t, h, p)
  BY <1>2, TraceTrails
<1>4. Trace(m, src) = IF t.wild THEN t ELSE [t EXCEPT !.m = VfsClose(t.m)]
  BY DEF Trace, start, up
<1> HIDE DEF t
<1>5. CASE t.wild
  BY <1>4, <1>5 DEF Traced
<1>6. CASE ~t.wild
  <2>1. VfsClose(t.m).heap = h /\ VfsClose(t.m).bad = FALSE
    BY <1>3, ClosedKeeps DEF Trails
  <2>2. Trace(m, src) = [m |-> VfsClose(t.m), names |-> t.names, wild |-> t.wild]
    BY <1>3, <1>4, <1>6 DEF Trails
  <2> QED BY <2>1, <2>2 DEF Traced
<1> QED BY <1>5, <1>6

LEMMA TraceFine ==
  ASSUME Inv, DriveWorks, NEW p \in pids, NEW q, TraceCwd(p, q)
  PROVE  Fine
<1>1. CASE GoWild
  BY <1>1, Wild
<1>2. CASE ~GoWild
  <2> DEFINE t == Trace(Call(p), cwd[q])
  <2>1. q \in pids /\ Room /\ ~t.wild /\ UNCHANGED <<cwd, fileVars, listed>> /\ Return(t.m, "ok")
    BY <1>2 DEF TraceCwd
  <2>2. Bare(Call(p), heap, p) /\ p \in {1, 2}
    BY <2>1, CallIs
  <2>3. cwd[q] = RootRef \/ Leads(cwd[q], heap)
    BY <2>1 DEF Inv, HeldIn
  <2>4. t.m.heap = heap /\ t.m.bad = FALSE
    <3>1. Traced(t, heap)
      BY <2>2, <2>3, TraceOwned
    <3> QED BY <2>1, <3>1 DEF Traced
  <2> HIDE DEF t
  <2>5. PICK m : m = t.m
    OBVIOUS
  <2>6. m.heap = heap /\ m.bad = FALSE /\ Return(m, "ok")
    BY <2>1, <2>4, <2>5
  <2>7. Heap(heap) /\ bad = FALSE /\ wild \in BOOLEAN
    BY DEF Inv, TypeInv
  <2> QED BY <2>1, <2>6, <2>7, Stays DEF Return
<1> QED BY <1>1, <1>2

-----------------------------------------------------------------------------
(* close, and the end of a process. *)
LEMMA CloseFine ==
  ASSUME Inv, NEW p \in Procs, NEW fd \in Fds, SysClose(p, fd)
  PROVE  Fine
<1>1. p \in pids /\ table[p] = "own" /\ fd # 0
  BY FileCallsAssumption DEF SysClose, Ready, UsesTable, Fds
<1>2. PICK ref \in Resolved(p, fd) :
        \/ ref = NoRef /\ Refuse
        \/ /\ ref # NoRef
           /\ table' = [table EXCEPT ![p] = "null"]
           /\ listed' = [listed EXCEPT ![p] = [f \in Fds |-> <<>>]]
           /\ files' = [files EXCEPT ![p] = [f \in Fds |-> NoRef]]
           /\ UNCHANGED <<cwd, exists>>
           /\ Return(VfsClose([Call(p) EXCEPT !.ref = ref]), "ok")
  BY DEF SysClose
<1>3. CASE Refuse
  BY <1>3, Same DEF Refuse
<1>4. CASE /\ ref # NoRef
           /\ table' = [table EXCEPT ![p] = "null"]
           /\ listed' = [listed EXCEPT ![p] = [f \in Fds |-> <<>>]]
           /\ files' = [files EXCEPT ![p] = [f \in Fds |-> NoRef]]
           /\ UNCHANGED <<cwd, exists>>
           /\ Return(VfsClose([Call(p) EXCEPT !.ref = ref]), "ok")
  <2>1. TypeInv /\ p \in Procs
    BY DEF Inv
  <2>2. fd \in Open(p) /\ ref = files[p][fd]
    BY <1>1, <1>2, <1>4 DEF Resolved, Open
  <2>3. Leads(ref, heap) /\ ref.driver # "none" /\ ref.id \in DOMAIN heap
    BY <1>1, <2>2, LeadsSomewhere DEF Inv, HeldIn, Leads
  <2>4. PICK k : k = VfsClose([Call(p) EXCEPT !.ref = ref])
    OBVIOUS
  <2>5. k.heap = [i \in DOMAIN heap \ {ref.id} |-> heap[i]] /\ k.bad = FALSE
    BY <2>3, <2>4 DEF Call, VfsClose, CloseState, Live
  <2>6. Heap(k.heap) /\ DOMAIN k.heap = DOMAIN heap \ {ref.id}
        /\ \A i \in DOMAIN heap : i # ref.id => k.heap[i] = heap[i]
    BY <2>1, <2>5 DEF TypeInv, Heap
  <2>7. /\ pids' = pids /\ cwd' = cwd /\ exists' = exists /\ wild' = wild /\ bad' = FALSE
        /\ heap' = [i \in DOMAIN k.heap |-> IF i \in Held' THEN k.heap[i] ELSE Unreached]
        /\ table'[p] = "null" /\ \A q \in pids : q # p => table'[q] = table[q]
        /\ \A q \in pids : q # p => files'[q] = files[q] /\ listed'[q] = listed[q]
    BY <1>4, <2>1, <2>4, <2>5 DEF Return, TypeInv
  <2>8. \A q \in pids : Open(q)' = IF q = p THEN {} ELSE Open(q)
    BY <2>7 DEF Open
  <2>9. <<p, fd>> \in Holders /\ RefOf(<<p, fd>>) = ref
    BY <1>1, <2>2 DEF Holders, RefOf
  <2>10. ASSUME NEW q \in pids, cwd[q] # RootRef
         PROVE  Leads(cwd[q], k.heap) /\ k.heap[cwd[q].id] = heap[cwd[q].id]
    <3>1. <<q, 0>> \in Holders /\ <<q, 0>> # <<p, fd>> /\ RefOf(<<q, 0>>) = cwd[q]
      BY <1>1 DEF Holders, RefOf
    <3>2. Leads(cwd[q], heap)
      BY <2>10 DEF Inv, HeldIn
    <3>3. RefOf(<<p, fd>>).id # RefOf(<<q, 0>>).id
      BY <2>3, <2>9, <3>1 DEF Inv, Apart
    <3> QED BY <2>6, <2>9, <3>1, <3>2, <3>3 DEF Leads
  <2>11. ASSUME NEW q \in pids, q # p, NEW f \in Open(q)
         PROVE  Leads(files[q][f], k.heap) /\ k.heap[files[q][f].id] = heap[files[q][f].id]
    <3>1. f \in Fds /\ f # 0
      BY FileCallsAssumption DEF Open, Fds
    <3>2. <<q, f>> \in Holders /\ <<q, f>> # <<p, fd>> /\ RefOf(<<q, f>>) = files[q][f]
      BY <2>11, <3>1 DEF Holders, RefOf
    <3>3. Leads(files[q][f], heap)
      BY DEF Inv, HeldIn
    <3>4. RefOf(<<p, fd>>).id # RefOf(<<q, f>>).id
      BY <2>3, <2>9, <3>2 DEF Inv, Apart
    <3> QED BY <2>6, <2>9, <3>2, <3>3, <3>4 DEF Leads
  <2>12. HeldIn(k.heap)'
    BY <2>7, <2>8, <2>10, <2>11 DEF HeldIn
  <2>13. CwdIn(k.heap)'
    BY <2>7, <2>10 DEF Inv, CwdIn
  <2>14. ListIn(k.heap)'
    BY <2>7, <2>8, <2>11 DEF Inv, ListIn
  <2>15. Heap(heap)' /\ HeldIn(heap)' /\ CwdIn(heap)' /\ ListIn(heap)'
    BY <2>6, <2>7, <2>12, <2>13, <2>14, Cleared
  <2>16. Apart'
    <3>1. ASSUME NEW x \in Holders' PROVE x \in Holders /\ RefOf(x)' = RefOf(x)
      <4>1. CASE \E q \in pids : x = <<q, 0>>
        BY <2>7, <4>1 DEF Holders, RefOf
      <4>2. CASE x \in pids \X Fds /\ x[2] \in Open(x[1])'
        <5>1. x[1] \in pids /\ x[1] # p /\ x[2] \in Open(x[1])
          BY <2>8, <4>2
        <5> QED BY <2>7, <4>2, <5>1 DEF Holders, RefOf
      <4> QED BY <2>7, <4>1, <4>2 DEF Holders
    <3> QED BY <3>1 DEF Inv, Apart
  <2>17. TypeInv'
    <3>1. NoRef \in Refs /\ <<>> \in Seq(Nat)
      BY DEF NoRef, RootRef, Refs
    <3> QED BY <1>4, <2>1, <2>7, <2>15, <3>1 DEF TypeInv
  <2>18. table' # table
    BY <1>1, <2>7
  <2> QED BY <2>15, <2>16, <2>17, <2>18 DEF Fine, Inv
<1> QED BY <1>2, <1>3, <1>4

LEMMA KillFine ==
  ASSUME Inv, NEW p \in Procs, Kill(p)
  PROVE  Fine
<1>1. /\ p \in pids /\ pids' = pids \ {p}
      /\ listed' = [listed EXCEPT ![p] = [f \in Fds |-> <<>>]]
      /\ cwd' = [cwd EXCEPT ![p] = NoRef]
      /\ files' = [files EXCEPT ![p] = [f \in Fds |-> NoRef]]
      /\ exists' = exists /\ table' = table /\ wild' = wild
  BY DEF Kill
<1>2. TypeInv /\ bad = FALSE
  BY DEF Inv, TypeInv
<1>3. PICK old : old = cwd[p]
  OBVIOUS
<1>4. PICK k : k = VfsClose([Call(p) EXCEPT !.ref = cwd[p]])
  OBVIOUS
<1>5. /\ heap' = [i \in DOMAIN k.heap |-> IF i \in Held' THEN k.heap[i] ELSE Unreached]
      /\ bad' = (bad \/ k.bad)
  BY <1>4 DEF Kill
<1>6. old = RootRef \/ Leads(old, heap)
  BY <1>1, <1>3 DEF Inv, HeldIn
<1>7. /\ Heap(k.heap) /\ k.bad = FALSE
      /\ \A i \in DOMAIN heap : i # old.id => i \in DOMAIN k.heap /\ k.heap[i] = heap[i]
  <2>1. CASE old = RootRef
    <3>1. k.heap = heap /\ k.bad = FALSE
      BY <1>3, <1>4, <2>1 DEF Call, VfsClose, RootRef
    <3> QED BY <1>2, <3>1 DEF TypeInv
  <2>2. CASE Leads(old, heap)
    <3>1. old.driver # "none" /\ old.id \in DOMAIN heap
      BY <2>2, LeadsSomewhere DEF Leads
    <3>2. k.heap = [i \in DOMAIN heap \ {old.id} |-> heap[i]] /\ k.bad = FALSE
      BY <1>3, <1>4, <3>1 DEF Call, VfsClose, CloseState, Live
    <3> QED BY <1>2, <3>2 DEF TypeInv, Heap
  <2> QED BY <1>6, <2>1, <2>2
<1>8. <<p, 0>> \in Holders /\ RefOf(<<p, 0>>) = old
  BY <1>1, <1>3 DEF Holders, RefOf
<1>9. ASSUME NEW x \in Holders, x # <<p, 0>>, Leads(RefOf(x), heap)
      PROVE  Leads(RefOf(x), k.heap) /\ k.heap[RefOf(x).id] = heap[RefOf(x).id]
  <2>1. RefOf(x).driver # "none"
    BY <1>9, LeadsSomewhere
  <2>2. RefOf(x).id # RefOf(<<p, 0>>).id
    BY <1>8, <1>9, <2>1 DEF Inv, Apart
  <2> QED BY <1>7, <1>8, <1>9, <2>2 DEF Leads
<1>10. \A q \in pids' : /\ q \in pids /\ q # p /\ cwd'[q] = cwd[q] /\ files'[q] = files[q]
                        /\ listed'[q] = listed[q] /\ Open(q)' = Open(q)
  BY <1>1, <1>2 DEF TypeInv, Open
<1>11. ASSUME NEW q \in pids', cwd[q] # RootRef
       PROVE  Leads(cwd[q], k.heap) /\ k.heap[cwd[q].id] = heap[cwd[q].id]
  <2>1. <<q, 0>> \in Holders /\ <<q, 0>> # <<p, 0>> /\ RefOf(<<q, 0>>) = cwd[q]
    BY <1>10 DEF Holders, RefOf
  <2>2. Leads(cwd[q], heap)
    BY <1>10, <1>11 DEF Inv, HeldIn
  <2> QED BY <1>9, <2>1, <2>2
<1>12. ASSUME NEW q \in pids', NEW f \in Open(q)
       PROVE  Leads(files[q][f], k.heap) /\ k.heap[files[q][f].id] = heap[files[q][f].id]
  <2>1. f \in Fds /\ f # 0
    BY FileCallsAssumption DEF Open, Fds
  <2>2. <<q, f>> \in Holders /\ <<q, f>> # <<p, 0>> /\ RefOf(<<q, f>>) = files[q][f]
    BY <1>10, <2>1 DEF Holders, RefOf
  <2>3. Leads(files[q][f], heap)
    BY <1>10 DEF Inv, HeldIn
  <2> QED BY <1>9, <2>2, <2>3
<1>13. HeldIn(k.heap)'
  BY <1>10, <1>11, <1>12 DEF HeldIn
<1>14. CwdIn(k.heap)'
  BY <1>10, <1>11 DEF Inv, CwdIn
<1>15. ListIn(k.heap)'
  BY <1>10, <1>12 DEF Inv, ListIn
<1>16. Heap(heap)' /\ HeldIn(heap)' /\ CwdIn(heap)' /\ ListIn(heap)'
  BY <1>5, <1>7, <1>13, <1>14, <1>15, Cleared
<1>17. Apart'
  <2>1. ASSUME NEW x \in Holders' PROVE x \in Holders /\ RefOf(x)' = RefOf(x)
    <3>1. CASE \E q \in pids' : x = <<q, 0>>
      BY <1>10, <3>1 DEF Holders, RefOf
    <3>2. CASE x \in pids' \X Fds /\ x[2] \in Open(x[1])'
      BY <1>10, <3>2 DEF Holders, RefOf
    <3> QED BY <3>1, <3>2 DEF Holders
  <2> QED BY <2>1 DEF Inv, Apart
<1>18. TypeInv'
  <2>1. NoRef \in Refs /\ <<>> \in Seq(Nat)
    BY DEF NoRef, RootRef, Refs
  <2> QED BY <1>1, <1>2, <1>5, <1>7, <1>16, <2>1 DEF TypeInv
<1>19. pids' # pids
  BY <1>1
<1> QED BY <1>16, <1>17, <1>18, <1>19 DEF Fine, Inv

-----------------------------------------------------------------------------
(* Calls on a reference that is held. *)
LEMMA StateShift ==
  ASSUME NEW s \in States, NEW k \in Nat
  PROVE  LET t == [s EXCEPT !.offset = k]
         IN  /\ t \in States /\ t.fs = s.fs /\ t.node = s.node /\ t.offset = k
             /\ t.linked = s.linked /\ t.at = s.at
<1>1. CASE s \in FatStates
  BY <1>1 DEF States, FatStates
<1>2. CASE s \in ProcStates
  BY <1>2 DEF States, ProcStates
<1> QED BY <1>1, <1>2 DEF States

(* The offset of a state moves, and with it what has been listed through it. *)
LEMMA OffsetFine ==
  ASSUME Inv, UNCHANGED <<pids, cwd, fileVars, wild>>, NEW r, Leads(r, heap),
         NEW k \in Nat, NEW m, m.heap = [heap EXCEPT ![r.id].offset = k], m.bad = FALSE,
         NEW e, Return(m, e), listed' \in [Procs -> [Fds -> Seq(Nat)]],
         ListIn(m.heap)'
  PROVE  Fine
<1>a. PICK s : s = heap[r.id]
  OBVIOUS
<1>b. PICK t : t = [s EXCEPT !.offset = k]
  OBVIOUS
<1>c. PICK g : g = m.heap
  OBVIOUS
<1>1. /\ pids' = pids /\ cwd' = cwd /\ files' = files /\ exists' = exists /\ table' = table
      /\ bad' = FALSE /\ wild' = wild
      /\ heap' = [i \in DOMAIN m.heap |-> IF i \in Held' THEN m.heap[i] ELSE Unreached]
  BY DEF Return, fileVars, Inv, TypeInv
<1>2. r.id \in DOMAIN heap /\ s \in States /\ Heap(heap)
  BY <1>a DEF Leads, Inv, TypeInv
<1>3. Holders' = Holders /\ Held' = Held /\ \A x \in Holders : RefOf(x)' = RefOf(x)
  BY <1>1 DEF Holders, Held, RefOf, Open
<1>4. g = [heap EXCEPT ![r.id] = t]
  BY <1>a, <1>b, <1>c
<1>5. /\ t \in States /\ t.fs = s.fs /\ t.node = s.node /\ t.linked = s.linked /\ t.at = s.at
  BY <1>2, <1>b, StateShift
<1>6. /\ Heap(g) /\ DOMAIN g = DOMAIN heap /\ g[r.id] = t
      /\ \A i \in DOMAIN heap : i # r.id => g[i] = heap[i]
  BY <1>2, <1>4 DEF Heap
<1>7. ASSUME NEW q, Leads(q, heap)
      PROVE  /\ Leads(q, g)
             /\ Followed(g[q.id]) <=> Followed(heap[q.id])
             /\ \A at : Sits(q, heap[q.id], at) => Sits(q, g[q.id], at)
             /\ Place(g[q.id]) = Place(heap[q.id])
  <2>1. CASE q.id = r.id
    <3>1. heap[q.id] = s /\ g[q.id] = t
      BY <1>6, <2>1, <1>a
    <3>2. Leads(q, g)
      BY <1>5, <1>6, <1>7, <3>1 DEF Leads
    <3>3. Followed(t) <=> Followed(s)
      BY <1>5 DEF Followed
    <3>4. Place(t) = Place(s) /\ Depth(t) = Depth(s)
      BY <1>5 DEF Place, Depth
    <3>5. \A at : Sits(q, s, at) => Sits(q, t, at)
      BY <1>5, <3>4 DEF Sits
    <3> QED BY <3>1, <3>2, <3>3, <3>4, <3>5
  <2>2. CASE q.id # r.id
    BY <1>6, <1>7, <2>2 DEF Leads
  <2> QED BY <2>1, <2>2
<1>8. HeldIn(g)'
  BY <1>1, <1>7 DEF Inv, HeldIn, Open
<1>9. CwdIn(g)'
  <2>1. ASSUME NEW q \in pids, cwd[q] # RootRef
        PROVE  Followed(g[cwd[q].id]) /\ Sits(cwd[q], g[cwd[q].id], Place(g[cwd[q].id]))
    <3>1. Leads(cwd[q], heap)
      BY <2>1 DEF Inv, HeldIn
    <3>2. Followed(heap[cwd[q].id]) /\ Sits(cwd[q], heap[cwd[q].id], Place(heap[cwd[q].id]))
      BY <2>1 DEF Inv, CwdIn
    <3> QED BY <1>7, <3>1, <3>2
  <2> QED BY <1>1, <2>1 DEF CwdIn
<1>10. Heap(heap)' /\ HeldIn(heap)' /\ CwdIn(heap)' /\ ListIn(heap)'
  BY <1>1, <1>c, <1>6, <1>8, <1>9, Cleared
<1>11. Apart'
  BY <1>3 DEF Inv, Apart
<1>12. Lost' = Lost
  <2>1. DOMAIN heap' = DOMAIN heap
    BY <1>1, <1>c, <1>6
  <2> QED BY <1>3, <2>1 DEF Lost
<1>13. TypeInv'
  BY <1>1, <1>10 DEF TypeInv, Inv
<1> QED BY <1>10, <1>11, <1>12, <1>13 DEF Fine, Inv

(* Reading moves an offset through which nothing has been listed. *)
LEMMA AdvanceFine ==
  ASSUME Inv, UNCHANGED <<pids, cwd, fileVars, listed, wild>>, NEW p, NEW r, Leads(r, heap),
         NEW size \in Nat, NEW n \in Nat, NEW e,
         Return(Advance([Call(p) EXCEPT !.ref = r], Delivered(size, heap[r.id].offset, n)), e),
         \A q \in pids : \A fd \in Open(q) : files[q][fd].id = r.id => listed[q][fd] = <<>>
  PROVE  Fine
<1> DEFINE s == heap[r.id]
           d == Delivered(size, s.offset, n)
<1>1. r.id \in DOMAIN heap /\ s \in States /\ s.offset \in Nat /\ Heap(heap)
  BY DEF Leads, States, FatStates, ProcStates, Inv, TypeInv
<1>2. PICK k : k = s.offset + d
  OBVIOUS
<1>3. k \in Nat
  BY <1>1, <1>2 DEF Delivered
<1>4. PICK m : m = Advance([Call(p) EXCEPT !.ref = r], d)
  OBVIOUS
<1>5. m.heap = [heap EXCEPT ![r.id].offset = k] /\ m.bad = FALSE
  BY <1>1, <1>2, <1>4 DEF Advance, Call
<1>6. PICK g : g = m.heap
  OBVIOUS
<1>7. ListIn(g)'
  <2>1. ASSUME NEW q \in pids, NEW fd \in Open(q)
        PROVE  Listing(listed[q][fd], g[files[q][fd].id])
    <3>1. CASE files[q][fd].id = r.id
      BY <3>1 DEF Listing
    <3>2. CASE files[q][fd].id # r.id
      <4>1. files[q][fd].id \in DOMAIN heap
        BY DEF Inv, HeldIn, Leads
      <4>2. g[files[q][fd].id] = heap[files[q][fd].id]
        BY <1>5, <1>6, <3>2, <4>1
      <4> QED BY <4>2 DEF Inv, ListIn
    <3> QED BY <3>1, <3>2
  <2> QED BY <2>1 DEF ListIn, Open, fileVars
<1>8. listed' \in [Procs -> [Fds -> Seq(Nat)]]
  BY DEF Inv, TypeInv
<1>9. Return(m, e)
  BY <1>4
<1> QED BY <1>3, <1>5, <1>6, <1>7, <1>8, <1>9, OffsetFine

(* A call on a descriptor that is in use. *)
LEMMA OnFdLeads ==
  ASSUME Inv, NEW p \in pids, UsesTable(p), NEW fd \in Fds, NEW ref \in Resolved(p, fd),
         ref # NoRef
  PROVE  fd \in Open(p) /\ ref = files[p][fd] /\ Leads(ref, heap) /\ ref.id \in DOMAIN heap
<1>1. fd \in Open(p) /\ ref = files[p][fd]
  BY DEF Resolved, Open, UsesTable
<1> QED BY <1>1 DEF Inv, HeldIn, Leads

LEMMA AskedIs ==
  ASSUME NEW p, NEW ref
  PROVE  LET m == [Call(p) EXCEPT !.ref = ref]
         IN  StateOf(m) = heap[ref.id] /\ m.ref = ref /\ m.bad = FALSE /\ m.heap = heap
BY DEF Call, StateOf

LEMMA ReadFine ==
  ASSUME Inv, DriveWorks, NEW p, NEW fd \in Fds, NEW n \in Nat, SysRead(p, fd, n)
  PROVE  Fine
<1>1. p \in pids /\ UsesTable(p)
  BY DEF SysRead, OnFd, Ready
<1>2. PICK ref \in Resolved(p, fd) :
        \/ Refuse
        \/ ref # NoRef /\ ref.id \notin DOMAIN heap
        \/ ref # NoRef /\ ReadRef(p, [Call(p) EXCEPT !.ref = ref], n)
  BY DEF SysRead, OnFd
<1>3. CASE Refuse
  BY <1>3, Same DEF Refuse
<1>4. CASE ref # NoRef /\ ReadRef(p, [Call(p) EXCEPT !.ref = ref], n)
  <2> DEFINE m == [Call(p) EXCEPT !.ref = ref]
             s == heap[ref.id]
  <2>1. Leads(ref, heap) /\ ref.id \in DOMAIN heap
    BY <1>1, <1>4, OnFdLeads
  <2>2. StateOf(m) = s
    BY AskedIs
  <2>3. \/ Accept \/ Refuse \/ GoWild \/ TraceCwd(p, s.at[1])
        \/ /\ s.node = "self" /\ UNCHANGED <<cwd, fileVars, listed>>
           /\ Return(Advance(m, Delivered(SelfSize, s.offset, n)), "ok")
    <3> HIDE DEF m, s
    <3> QED BY <1>4, <2>2 DEF ReadRef, m
  <2>4. CASE Accept \/ Refuse
    BY <2>4, Same DEF Accept, Refuse
  <2>5. CASE GoWild
    BY <2>5, Wild
  <2>6. CASE TraceCwd(p, s.at[1])
    <3>1. PICK q : q = s.at[1]
      OBVIOUS
    <3>2. TraceCwd(p, q)
      BY <2>6, <3>1
    <3> QED BY <1>1, <3>2, TraceFine
  <2>7. CASE /\ s.node = "self" /\ UNCHANGED <<cwd, fileVars, listed>>
             /\ Return(Advance(m, Delivered(SelfSize, s.offset, n)), "ok")
    <3>1. UNCHANGED <<pids, wild>>
      BY <2>7 DEF Return
    <3>2. SelfSize \in Nat
      BY FileCallsAssumption DEF SelfSize
    <3>3. \A q \in pids : \A f \in Open(q) : files[q][f].id = ref.id => listed[q][f] = <<>>
      BY <2>7 DEF Inv, ListIn, Listing, IsDirectory
    <3> QED BY <2>1, <2>7, <3>1, <3>2, <3>3, AdvanceFine
  <2> QED BY <2>3, <2>4, <2>5, <2>6, <2>7
<1> QED BY <1>1, <1>2, <1>3, <1>4, OnFdLeads

LEMMA PlainFine ==
  ASSUME Inv, NEW p, NEW fd \in Fds, SysWrite(p, fd) \/ SysFstat(p, fd)
  PROVE  Fine
<1>1. p \in pids /\ UsesTable(p)
  BY DEF SysWrite, SysFstat, OnFd, Ready
<1>2. PICK ref \in Resolved(p, fd) :
        Accept \/ Refuse \/ (ref # NoRef /\ ref.id \notin DOMAIN heap)
  <2>1. CASE SysWrite(p, fd)
    BY <2>1 DEF SysWrite, OnFd
  <2>2. CASE SysFstat(p, fd)
    BY <2>2 DEF SysFstat, OnFd
  <2> QED BY <2>1, <2>2
<1>3. CASE Accept \/ Refuse
  BY <1>3, Same DEF Accept, Refuse
<1> QED BY <1>1, <1>2, <1>3, OnFdLeads

LEMMA MkdirFine ==
  ASSUME Inv, NEW ref, NEW name, MkdirIn(ref, name)
  PROVE  Fine
<1>1. UNCHANGED <<heap, pids, cwd, fileVars, listed, bad, wild>>
  BY DEF MkdirIn, Accept, Refuse
<1> QED BY <1>1, Same

LEMMA MakesFine ==
  ASSUME Inv, NEW p, NEW fd \in Fds, NEW name, SysMkdir(p, name) \/ SysMkdirat(p, fd, name)
  PROVE  Fine
<1>1. CASE SysMkdir(p, name)
  <2>1. PICK ref : ref = cwd[p]
    OBVIOUS
  <2>2. MkdirIn(ref, name)
    BY <1>1, <2>1 DEF SysMkdir
  <2> QED BY <2>2, MkdirFine
<1>2. CASE SysMkdirat(p, fd, name)
  <2>1. p \in pids /\ UsesTable(p)
    BY <1>2 DEF SysMkdirat, OnFd, Ready
  <2>2. PICK ref \in Resolved(p, fd) :
          \/ Refuse
          \/ ref # NoRef /\ ref.id \notin DOMAIN heap
          \/ ref # NoRef /\ MkdirIn([Call(p) EXCEPT !.ref = ref].ref, name)
    BY <1>2 DEF SysMkdirat, OnFd
  <2>3. [Call(p) EXCEPT !.ref = ref].ref = ref
    BY AskedIs
  <2>4. CASE Refuse
    BY <2>4, Same DEF Refuse
  <2>5. CASE MkdirIn(ref, name)
    BY <2>5, MkdirFine
  <2> QED BY <2>1, <2>2, <2>3, <2>4, <2>5, OnFdLeads
<1> QED BY <1>1, <1>2

LEMMA ReadlinkFine ==
  ASSUME Inv, DriveWorks, NEW p, NEW name, NEW n \in Nat, SysReadlink(p, name, n)
  PROVE  Fine
<1> DEFINE m == [Call(p) EXCEPT !.ref = cwd[p]]
           s == heap[cwd[p].id]
<1>1. p \in pids
  BY DEF SysReadlink, Ready
<1>2. StateOf(m) = s
  BY AskedIs
<1>3. \/ Accept \/ Refuse \/ GoWild \/ TraceCwd(p, s.at[1])
      \/ /\ cwd[p].driver = "proc" /\ UNCHANGED <<cwd, fileVars, listed>>
         /\ Return(Advance(m, Delivered(2, s.offset, n)), "ok")
  <2> HIDE DEF m
  <2> QED BY <1>2 DEF SysReadlink, m
<1>4. CASE Accept \/ Refuse
  BY <1>4, Same DEF Accept, Refuse
<1>5. CASE GoWild
  BY <1>5, Wild
<1>6. CASE TraceCwd(p, s.at[1])
  <2>1. PICK q : q = s.at[1]
    OBVIOUS
  <2>2. TraceCwd(p, q)
    BY <1>6, <2>1
  <2> QED BY <1>1, <2>2, TraceFine
<1>7. CASE /\ cwd[p].driver = "proc" /\ UNCHANGED <<cwd, fileVars, listed>>
           /\ Return(Advance(m, Delivered(2, s.offset, n)), "ok")
  <2>1. PICK ref : ref = cwd[p]
    OBVIOUS
  <2>2. ref.driver # "none" /\ Leads(ref, heap)
    BY <1>1, <1>7, <2>1 DEF Inv, HeldIn, RootRef
  <2>3. UNCHANGED <<pids, wild>>
    BY <1>7 DEF Return
  <2>4. ASSUME NEW q \in pids, NEW f \in Open(q)
        PROVE  files[q][f].id # ref.id
    <3>1. f \in Fds /\ f # 0
      BY FileCallsAssumption DEF Open, Fds
    <3>2. /\ <<q, f>> \in Holders /\ <<p, 0>> \in Holders /\ <<q, f>> # <<p, 0>>
          /\ RefOf(<<q, f>>) = files[q][f] /\ RefOf(<<p, 0>>) = ref
      BY <1>1, <2>1, <3>1 DEF Holders, RefOf
    <3> QED BY <2>2, <3>2 DEF Inv, Apart
  <2>5. Return(Advance([Call(p) EXCEPT !.ref = ref], Delivered(2, heap[ref.id].offset, n)), "ok")
    BY <1>7, <2>1
  <2> QED BY <1>7, <2>2, <2>3, <2>4, <2>5, AdvanceFine
<1> QED BY <1>3, <1>4, <1>5, <1>6, <1>7

LEMMA GetcwdFine ==
  ASSUME Inv, DriveWorks, NEW p, SysGetcwd(p)
  PROVE  Fine
BY TraceFine DEF SysGetcwd, Ready

(* A call on a descriptor moves its state's offset, and what was listed with it. *)
LEMMA PlaceFine ==
  ASSUME Inv, UNCHANGED <<cwd, fileVars>>, NEW p \in pids, NEW fd \in Open(p), NEW ref,
         ref = files[p][fd], NEW k \in Nat, NEW seen \in Seq(Nat), NEW e,
         Listing(seen, [heap[ref.id] EXCEPT !.offset = k]),
         listed' = [listed EXCEPT ![p][fd] = seen],
         Return([[Call(p) EXCEPT !.ref = ref] EXCEPT !.heap[ref.id].offset = k], e)
  PROVE  Fine
<1>1. PICK m : m = [[Call(p) EXCEPT !.ref = ref] EXCEPT !.heap[ref.id].offset = k]
  OBVIOUS
<1>2. m.heap = [heap EXCEPT ![ref.id].offset = k] /\ m.bad = FALSE
  BY <1>1 DEF Call
<1>3. p \in Procs /\ fd \in Fds /\ fd # 0 /\ listed \in [Procs -> [Fds -> Seq(Nat)]]
  BY FileCallsAssumption DEF Inv, TypeInv, Open, Fds
<1>4. listed' \in [Procs -> [Fds -> Seq(Nat)]]
  BY <1>3
<1>5. Leads(ref, heap) /\ ref.id \in DOMAIN heap
  BY DEF Inv, HeldIn, Leads
<1>6. PICK g : g = m.heap
  OBVIOUS
<1>7. pids' = pids /\ wild' = wild /\ cwd' = cwd /\ files' = files /\ exists' = exists
      /\ table' = table
  BY DEF Return, fileVars
<1>8. ListIn(g)'
  <2>1. ASSUME NEW q \in pids, NEW f \in Open(q)
        PROVE  Listing(listed'[q][f], g[files[q][f].id])
    <3>1. CASE q = p /\ f = fd
      <4>1. listed'[q][f] = seen
        BY <1>3, <3>1
      <4>2. g[ref.id] = [heap[ref.id] EXCEPT !.offset = k]
        BY <1>2, <1>5, <1>6
      <4> QED BY <3>1, <4>1, <4>2
    <3>2. CASE ~(q = p /\ f = fd)
      <4>1. q \in Procs /\ f \in Fds /\ f # 0
        BY FileCallsAssumption DEF Inv, TypeInv, Open, Fds
      <4>2. listed'[q][f] = listed[q][f]
        BY <1>3, <3>2, <4>1
      <4>3. /\ <<q, f>> \in Holders /\ <<p, fd>> \in Holders /\ <<q, f>> # <<p, fd>>
            /\ RefOf(<<q, f>>) = files[q][f] /\ RefOf(<<p, fd>>) = ref
        BY <1>3, <3>2, <4>1 DEF Holders, RefOf
      <4>4. ref.driver # "none"
        BY <1>5, LeadsSomewhere
      <4>5. files[q][f].id # ref.id
        BY <4>3, <4>4 DEF Inv, Apart
      <4>6. files[q][f].id \in DOMAIN heap
        BY DEF Inv, HeldIn, Leads
      <4>7. g[files[q][f].id] = heap[files[q][f].id]
        BY <1>2, <1>6, <4>5, <4>6
      <4> QED BY <4>2, <4>7 DEF Inv, ListIn
    <3> QED BY <3>1, <3>2
  <2> QED BY <1>7, <2>1 DEF ListIn, Open
<1>9. Return(m, e) /\ UNCHANGED <<pids, cwd, fileVars, wild>>
  BY <1>1, <1>7 DEF fileVars
<1> QED BY <1>2, <1>4, <1>5, <1>6, <1>8, <1>9, OffsetFine

LEMMA LseekFine ==
  ASSUME Inv, NEW p, NEW fd \in Fds, NEW whence, NEW n \in Nat, SysLseek(p, fd, whence, n)
  PROVE  Fine
<1>1. p \in pids /\ UsesTable(p)
  BY DEF SysLseek, OnFd, Ready
<1> DEFINE to(s) == IF whence = "set" THEN n * EntrySize ELSE s.offset + n * EntrySize
           moves(m, s) ==
             /\ listed' = [listed EXCEPT ![p][fd] = IF to(s) = s.offset THEN @ ELSE <<>>]
             /\ UNCHANGED <<cwd, fileVars>>
             /\ Return([m EXCEPT !.heap[m.ref.id].offset = to(s)], "ok")
<1>2. PICK ref \in Resolved(p, fd) :
        \/ Refuse \/ Accept
        \/ ref # NoRef /\ ref.id \notin DOMAIN heap
        \/ ref # NoRef /\ moves([Call(p) EXCEPT !.ref = ref], StateOf([Call(p) EXCEPT !.ref = ref]))
  BY DEF SysLseek, OnFd
<1>3. CASE Refuse \/ Accept
  BY <1>3, Same DEF Refuse, Accept
<1>4. CASE ref # NoRef
           /\ moves([Call(p) EXCEPT !.ref = ref], StateOf([Call(p) EXCEPT !.ref = ref]))
  <2>1. fd \in Open(p) /\ ref = files[p][fd] /\ Leads(ref, heap) /\ ref.id \in DOMAIN heap
    BY <1>1, <1>4, OnFdLeads
  <2>2. PICK m : m = [Call(p) EXCEPT !.ref = ref]
    OBVIOUS
  <2>3. PICK s : s = heap[ref.id]
    OBVIOUS
  <2>4. StateOf(m) = s /\ m.ref = ref
    BY <2>2, <2>3, AskedIs
  <2>5. s \in States /\ s.offset \in Nat
    BY <2>1, <2>3 DEF Leads, States, FatStates, ProcStates
  <2>6. PICK k : k = to(s)
    OBVIOUS
  <2>7. k \in Nat
    BY <2>5, <2>6, FileCallsAssumption
  <2>8. PICK seen : seen = IF k = s.offset THEN listed[p][fd] ELSE <<>>
    OBVIOUS
  <2>9. /\ listed' = [listed EXCEPT ![p][fd] = seen] /\ UNCHANGED <<cwd, fileVars>>
        /\ Return([m EXCEPT !.heap[ref.id].offset = k], "ok")
    BY <1>4, <2>2, <2>4, <2>6, <2>8
  <2>10. seen \in Seq(Nat)
    BY <1>1, <2>8 DEF Inv, TypeInv
  <2>11. Listing(seen, [s EXCEPT !.offset = k])
    <3>1. CASE k = s.offset
      <4>1. Listing(listed[p][fd], s)
        BY <1>1, <2>1, <2>3 DEF Inv, ListIn
      <4>2. [s EXCEPT !.offset = k] = s
        BY <2>5, <3>1 DEF States, FatStates, ProcStates
      <4> QED BY <2>8, <3>1, <4>1, <4>2
    <3>2. CASE k # s.offset
      BY <2>8, <3>2 DEF Listing
    <3> QED BY <3>1, <3>2
  <2> QED BY <1>1, <2>1, <2>2, <2>3, <2>7, <2>9, <2>10, <2>11, PlaceFine
<1> QED BY <1>1, <1>2, <1>3, <1>4, OnFdLeads

(* The entries a call delivers follow the ones delivered before. *)
Follows(seen, offset, step) ==
  seen # <<>> =>
     /\ offset = seen[Len(seen)] + step
     /\ \A i \in 2 .. Len(seen) : seen[i] = seen[i - 1] + step

LEMMA MoreListed ==
  ASSUME NEW seen \in Seq(Nat), NEW step \in Nat, NEW offset \in Nat, NEW n \in Nat,
         Follows(seen, offset, step), NEW more \in Seq(Nat), Len(more) = n,
         n = 0 => more = <<>>,
         NEW end \in Nat, n > 0 => more[1] = offset /\ end = more[n] + step,
         n = 0 => end = offset,
         \A i \in 2 .. n : more[i] = more[i - 1] + step
  PROVE  seen \o more \in Seq(Nat) /\ Follows(seen \o more, end, step)
<1> DEFINE all == seen \o more
<1>a. /\ all \in Seq(Nat) /\ Len(all) = Len(seen) + Len(more)
      /\ \A i \in 1 .. Len(seen) + Len(more) :
           all[i] = IF i <= Len(seen) THEN seen[i] ELSE more[i - Len(seen)]
  BY ConcatProperties, Zenon
<1>b. Len(seen) \in Nat
  OBVIOUS
<1> HIDE DEF all
<1>1. /\ all \in Seq(Nat) /\ Len(all) = Len(seen) + n /\ Len(seen) \in Nat
      /\ \A i \in 1 .. Len(seen) + n :
           all[i] = IF i <= Len(seen) THEN seen[i] ELSE more[i - Len(seen)]
  BY <1>a, <1>b
<1>2. CASE n = 0
  <2>1. all = seen
    BY <1>2, ConcatEmptySeq DEF all
  <2> QED BY <1>2, <2>1 DEF all
<1>3. CASE n > 0
  <2>1. all[Len(all)] = more[n]
    <3> DEFINE l == Len(seen)
    <3>1. l \in Nat /\ Len(all) = l + n
      BY <1>1
    <3> HIDE DEF l
    <3>2. Len(all) \in 1 .. l + n /\ ~(Len(all) <= l) /\ Len(all) - l = n
      BY <1>3, <3>1
    <3> QED BY <1>1, <3>2 DEF l
  <2>2. ASSUME NEW i \in 2 .. Len(all)
        PROVE  all[i] = all[i - 1] + step
    <3>1. CASE i <= Len(seen)
      <4>1. i \in 2 .. Len(seen) /\ i - 1 <= Len(seen) /\ seen # <<>>
        BY <1>1, <3>1
      <4>2. seen[i] = seen[i - 1] + step
        BY <4>1 DEF Follows
      <4>3. i \in 1 .. Len(seen) + n /\ i - 1 \in 1 .. Len(seen) + n
        BY <1>1
      <4> QED BY <1>1, <3>1, <4>1, <4>2, <4>3
    <3>2. CASE i = Len(seen) + 1
      <4>1. Len(seen) >= 1 /\ seen # <<>>
        BY <1>1, <3>2
      <4> DEFINE l == Len(seen)
      <4>a. l \in Nat /\ l >= 1 /\ i = l + 1
        BY <1>1, <3>2, <4>1
      <4> HIDE DEF l
      <4>b. i - 1 = l /\ i - l = 1 /\ i - 1 \in 1 .. l + n /\ i \in 1 .. l + n /\ ~(i <= l)
        BY <1>3, <4>a
      <4>2. i - 1 = Len(seen) /\ i - Len(seen) = 1 /\ i - 1 \in 1 .. Len(seen) + n
            /\ i \in 1 .. Len(seen) + n /\ ~(i <= Len(seen))
        BY <4>b DEF l
      <4>c. \A k \in 1 .. Len(seen) + n :
              all[k] = IF k <= Len(seen) THEN seen[k] ELSE more[k - Len(seen)]
        BY <1>1
      <4>d. all[i] = more[i - Len(seen)]
        BY <4>2, <4>c
      <4>e. all[i - 1] = seen[i - 1]
        <5> DEFINE k == i - 1
        <5>1. k \in 1 .. Len(seen) + n /\ k <= Len(seen)
          BY <4>2, <4>a DEF l
        <5> HIDE DEF k
        <5> QED BY <4>c, <5>1 DEF k
      <4>3. all[i] = more[1] /\ all[i - 1] = seen[Len(seen)]
        BY <4>2, <4>d, <4>e
      <4> QED BY <1>3, <4>1, <4>3 DEF Follows
    <3>3. CASE i > Len(seen) + 1
      <4> DEFINE j == i - Len(seen)
      <4>1. j \in 2 .. n /\ j - 1 = (i - 1) - Len(seen)
        BY <1>1, <3>3
      <4>2. i \in 1 .. Len(seen) + n /\ i - 1 \in 1 .. Len(seen) + n
            /\ ~(i <= Len(seen)) /\ ~(i - 1 <= Len(seen))
        BY <1>1, <3>3
      <4>3. all[i] = more[j] /\ all[i - 1] = more[j - 1]
        BY <1>1, <4>1, <4>2
      <4> HIDE DEF j
      <4> QED BY <4>1, <4>3
    <3> QED BY <1>1, <3>1, <3>2, <3>3
  <2> QED BY <1>1, <1>3, <2>1, <2>2 DEF Follows, all
<1> QED BY <1>2, <1>3

(* What is listed of a directory, in whole entries. *)
LEMMA DirSizeIs ==
  ASSUME Inv, NEW s
  PROVE  \E k \in Nat : DirSize(s) = k * EntrySize
<1>1. Cardinality(pids) \in Nat
  <2>1. pids \subseteq 1 .. 2
    BY FileCallsAssumption DEF Inv, TypeInv
  <2>2. IsFiniteSet(1 .. 2)
    <3>1. 1 \in Int /\ 2 \in Int
      OBVIOUS
    <3> QED BY <3>1, FS_Interval
  <2> QED BY <2>1, <2>2, FS_Subset, FS_CardinalityType
<1> QED BY <1>1 DEF DirSize

LEMMA Division ==
  ASSUME NEW a \in Nat, NEW b \in Nat, NEW e \in Nat \ {0}, b * e <= a * e
  PROVE  b <= a /\ (a * e - b * e) \div e = a - b
<1>1. b <= a
  OBVIOUS
<1>2. a * e - b * e = (a - b) * e
  OBVIOUS
<1>3. \A k \in Nat : (k * e) \div e = k
  OBVIOUS
<1> QED BY <1>1, <1>2, <1>3

LEMMA Multiple ==
  ASSUME NEW x \in Nat, NEW e \in Nat \ {0}, x % e = 0
  PROVE  \E k \in Nat : x = k * e
OBVIOUS

(* Where a listing of a directory ends, and the places it delivers. *)
Entries(s, n) == [i \in 1 .. n |-> s.offset + (i - 1) * EntrySize]
Fit(s, room) == IF Left(s) < room THEN Left(s) ELSE room

LEMMA DentsEndIs ==
  ASSUME Inv, NEW s, s.offset \in Nat, s.offset <= DirSize(s), s.offset % EntrySize = 0,
         NEW room \in Nat
  PROVE  /\ Fit(s, room) \in Nat /\ DentsEnd(s, room) \in Nat
         /\ DentsEnd(s, room) = s.offset + Fit(s, room) * EntrySize
<1>1. PICK a \in Nat : DirSize(s) = a * EntrySize
  BY DirSizeIs
<1>2. EntrySize \in Nat \ {0}
  BY FileCallsAssumption
<1>3. PICK b \in Nat : s.offset = b * EntrySize
  BY <1>2, Multiple
<1>4. b <= a /\ Left(s) = a - b
  <2>1. b <= a /\ (a * EntrySize - b * EntrySize) \div EntrySize = a - b
    BY <1>1, <1>2, <1>3, Division
  <2> QED BY <1>1, <1>3, <2>1 DEF Left
<1>5. a * EntrySize = b * EntrySize + (a - b) * EntrySize
  BY <1>2
<1>6. CASE a - b > room
  <2>1. Fit(s, room) = room /\ DentsEnd(s, room) = s.offset + room * EntrySize
    BY <1>4, <1>6 DEF Fit, DentsEnd
  <2>2. room * EntrySize \in Nat
    BY <1>2
  <2> QED BY <2>1, <2>2
<1>7. CASE a - b <= room
  <2>1. Fit(s, room) = a - b /\ DentsEnd(s, room) = a * EntrySize
    BY <1>1, <1>4, <1>7 DEF Fit, DentsEnd
  <2>2. a * EntrySize \in Nat /\ a - b \in Nat
    BY <1>2, <1>4
  <2> QED BY <1>3, <1>5, <2>1, <2>2
<1> QED BY <1>4, <1>6, <1>7

LEMMA EntriesAre ==
  ASSUME NEW s, s.offset \in Nat, NEW n \in Nat
  PROVE  /\ Entries(s, n) \in Seq(Nat) /\ Len(Entries(s, n)) = n
         /\ n = 0 => Entries(s, n) = <<>>
         /\ n > 0 => /\ Entries(s, n)[1] = s.offset
                     /\ s.offset + n * EntrySize = Entries(s, n)[n] + EntrySize
         /\ \A i \in 2 .. n : Entries(s, n)[i] = Entries(s, n)[i - 1] + EntrySize
<1> DEFINE more == Entries(s, n)
<1>1. EntrySize \in Nat
  BY FileCallsAssumption
<1>2. \A i \in 1 .. n : s.offset + (i - 1) * EntrySize \in Nat
  <2>1. \A k \in Nat : k * EntrySize \in Nat
    BY <1>1
  <2> QED BY <2>1
<1>3. \A i \in 1 .. n : more[i] = s.offset + (i - 1) * EntrySize
  BY DEF Entries
<1>4. more \in Seq(Nat) /\ Len(more) = n
  BY <1>2 DEF Entries
<1> HIDE DEF more
<1>5. \A k \in Nat : (k + 1) * EntrySize = k * EntrySize + EntrySize
  BY <1>1
<1>6. ASSUME n > 0
      PROVE  more[1] = s.offset /\ s.offset + n * EntrySize = more[n] + EntrySize
  <2>1. n - 1 \in Nat /\ n \in 1 .. n /\ 1 \in 1 .. n
    BY <1>6
  <2>2. n * EntrySize = (n - 1) * EntrySize + EntrySize
    BY <1>5, <2>1
  <2>3. more[1] = s.offset + 0 * EntrySize /\ 0 * EntrySize = 0
    BY <1>1, <1>3, <2>1
  <2>4. (n - 1) * EntrySize \in Nat
    BY <1>1, <2>1
  <2> QED BY <1>1, <1>3, <2>1, <2>2, <2>3, <2>4
<1>7. ASSUME NEW i \in 2 .. n
      PROVE  more[i] = more[i - 1] + EntrySize
  <2>1. i - 2 \in Nat /\ i \in 1 .. n /\ i - 1 \in 1 .. n
    OBVIOUS
  <2>2. (i - 1) * EntrySize = (i - 2) * EntrySize + EntrySize
    BY <1>5, <2>1
  <2>3. (i - 2) * EntrySize \in Nat
    BY <1>1, <2>1
  <2>4. more[i] = s.offset + (i - 1) * EntrySize
    BY <1>3, <2>1
  <2>5. more[i - 1] = s.offset + (i - 2) * EntrySize
    <3> DEFINE j == i - 1
    <3>1. j \in 1 .. n /\ j - 1 = i - 2
      BY <2>1
    <3> HIDE DEF j
    <3>2. more[j] = s.offset + (i - 2) * EntrySize
      BY <1>3, <3>1
    <3> QED BY <3>2 DEF j
  <2> QED BY <1>1, <2>2, <2>3, <2>4, <2>5
<1>8. n = 0 => more = <<>>
  BY <1>4, EmptySeq
<1> QED BY <1>4, <1>6, <1>7, <1>8 DEF more

LEMMA GetdentsFine ==
  ASSUME Inv, NEW p, NEW fd \in Fds, NEW room \in Nat, SysGetdents(p, fd, room)
  PROVE  Fine
<1>1. p \in pids /\ UsesTable(p)
  BY DEF SysGetdents, OnFd, Ready
<1> DEFINE lists(m, s) ==
             /\ IsDirectory(s) /\ s.offset <= DirSize(s) /\ s.offset % EntrySize = 0
             /\ listed' = [listed EXCEPT ![p][fd] = @ \o Entries(s, Fit(s, room))]
             /\ UNCHANGED <<cwd, fileVars>>
             /\ \E e : Return([m EXCEPT !.heap[m.ref.id].offset = DentsEnd(s, room)], e)
<1>2. PICK ref \in Resolved(p, fd) :
        \/ Refuse \/ Accept \/ GoWild
        \/ ref # NoRef /\ ref.id \notin DOMAIN heap
        \/ /\ ref # NoRef /\ StateOf([Call(p) EXCEPT !.ref = ref]).fs # "fat"
           /\ lists([Call(p) EXCEPT !.ref = ref], StateOf([Call(p) EXCEPT !.ref = ref]))
  BY DEF SysGetdents, OnFd, Entries, Fit
<1>3. CASE Refuse \/ Accept
  BY <1>3, Same DEF Refuse, Accept
<1>4. CASE GoWild
  BY <1>4, Wild
<1>5. CASE /\ ref # NoRef /\ StateOf([Call(p) EXCEPT !.ref = ref]).fs # "fat"
           /\ lists([Call(p) EXCEPT !.ref = ref], StateOf([Call(p) EXCEPT !.ref = ref]))
  <2>1. fd \in Open(p) /\ ref = files[p][fd] /\ Leads(ref, heap) /\ ref.id \in DOMAIN heap
    BY <1>1, <1>5, OnFdLeads
  <2>2. PICK m : m = [Call(p) EXCEPT !.ref = ref]
    OBVIOUS
  <2>3. PICK s : s = heap[ref.id]
    OBVIOUS
  <2>4. StateOf(m) = s /\ m.ref = ref
    BY <2>2, <2>3, AskedIs
  <2>5. /\ s.fs # "fat" /\ IsDirectory(s) /\ s.offset <= DirSize(s) /\ s.offset % EntrySize = 0
        /\ listed' = [listed EXCEPT ![p][fd] = @ \o Entries(s, Fit(s, room))]
        /\ UNCHANGED <<cwd, fileVars>>
        /\ \E e : Return([m EXCEPT !.heap[m.ref.id].offset = DentsEnd(s, room)], e)
    BY <1>5, <2>2, <2>4
  <2>6. s \in ProcStates /\ s.offset \in Nat
    BY <2>1, <2>3, <2>5 DEF Leads, States, FatStates, ProcStates
  <2>7. PICK n : n = Fit(s, room)
    OBVIOUS
  <2>8. PICK k : k = DentsEnd(s, room)
    OBVIOUS
  <2>9. n \in Nat /\ k \in Nat /\ k = s.offset + n * EntrySize
    BY <2>5, <2>6, <2>7, <2>8, DentsEndIs
  <2>10. PICK old : old = listed[p][fd]
    OBVIOUS
  <2>11. old \in Seq(Nat) /\ Listing(old, s)
    BY <1>1, <2>1, <2>3, <2>10 DEF Inv, TypeInv, ListIn
  <2>12. PICK more : more = Entries(s, n)
    OBVIOUS
  <2>13. PICK seen : seen = old \o more
    OBVIOUS
  <2>14. seen \in Seq(Nat) /\ Follows(seen, k, EntrySize)
    <3>1. Follows(old, s.offset, EntrySize)
      BY <2>11 DEF Listing, Follows
    <3>2. /\ more \in Seq(Nat) /\ Len(more) = n /\ (n = 0 => more = <<>>)
          /\ n > 0 => more[1] = s.offset /\ k = more[n] + EntrySize
          /\ \A i \in 2 .. n : more[i] = more[i - 1] + EntrySize
      BY <2>6, <2>9, <2>12, EntriesAre
    <3>3. n = 0 => k = s.offset
      BY <2>6, <2>9, FileCallsAssumption
    <3>4. EntrySize \in Nat
      BY FileCallsAssumption
    <3>5. PICK off : off = s.offset
      OBVIOUS
    <3>6. PICK step : step = EntrySize
      OBVIOUS
    <3>7. /\ off \in Nat /\ step \in Nat /\ Follows(old, off, step) /\ (n = 0 => k = off)
          /\ n > 0 => more[1] = off /\ k = more[n] + step
          /\ \A i \in 2 .. n : more[i] = more[i - 1] + step
      BY <2>6, <3>1, <3>2, <3>3, <3>4, <3>5, <3>6
    <3>8. old \in Seq(Nat) /\ more \in Seq(Nat) /\ Len(more) = n /\ (n = 0 => more = <<>>)
          /\ n \in Nat /\ k \in Nat
      BY <2>9, <2>11, <3>2
    <3>9. old \o more \in Seq(Nat) /\ Follows(old \o more, k, step)
      BY <3>7, <3>8, MoreListed
    <3> QED BY <2>13, <3>6, <3>9
  <2>15. PICK t : t = [s EXCEPT !.offset = k]
    OBVIOUS
  <2>16. t.fs = "proc" /\ t.node = s.node /\ t.offset = k
    BY <2>6, <2>15 DEF ProcStates
  <2>17. Listing(seen, t)
    BY <2>5, <2>14, <2>16 DEF Listing, Follows, IsDirectory
  <2>18. listed' = [listed EXCEPT ![p][fd] = seen]
    BY <2>5, <2>7, <2>10, <2>12, <2>13
  <2>19. PICK e : Return([m EXCEPT !.heap[ref.id].offset = k], e)
    BY <2>4, <2>5, <2>8
  <2>20. Listing(seen, [heap[ref.id] EXCEPT !.offset = k])
    BY <2>3, <2>15, <2>17
  <2>21. Return([[Call(p) EXCEPT !.ref = ref] EXCEPT !.heap[ref.id].offset = k], e)
    BY <2>2, <2>19
  <2>22. UNCHANGED <<cwd, fileVars>>
    BY <2>5
  <2> QED BY <1>1, <2>1, <2>9, <2>14, <2>18, <2>20, <2>21, <2>22, PlaceFine
<1> QED BY <1>1, <1>2, <1>3, <1>4, <1>5, OnFdLeads

-----------------------------------------------------------------------------
(* The specification. *)
LEMMA InitInv ==
  ASSUME Init
  PROVE  Inv
<1>1. /\ RootRef \in Refs /\ NoRef \in Refs /\ <<>> \in Seq(Nat) /\ DOMAIN NoStates = {}
      /\ RootRef.driver = "none"
  BY DEF NoRef, RootRef, Refs, NoStates
<1>2. TypeInv
  BY <1>1 DEF Init, TypeInv, Heap, EachProc, EachFd, NoStates
<1>3. \A p \in pids : p \in Procs /\ cwd[p] = RootRef
  BY DEF Init, EachProc
<1>4. \A p \in pids : Open(p) = {}
  BY <1>3 DEF Init, Open, EachFd, EachProc
<1>5. \A x \in Holders : RefOf(x) = RootRef
  BY <1>3, <1>4 DEF Holders, RefOf
<1>6. Apart
  BY <1>1, <1>5 DEF Apart
<1> QED BY <1>2, <1>3, <1>4, <1>6 DEF Inv, HeldIn, CwdIn, ListIn

LEMMA NextFine ==
  ASSUME Inv, DriveWorks, Next
  PROVE  Fine
<1>1. Callers \subseteq Procs /\ 0 \in Nat /\ 2 \in Nat /\ SelfSize \in Nat
  BY FileCallsAssumption DEF SelfSize
<1>2. \A a \in Paths : Starts(a) \subseteq 0 .. MaxFiles
  BY FileCallsAssumption DEF Starts
<1>3. ASSUME NEW p \in Procs, Kill(p) PROVE Fine
  BY <1>3, KillFine
<1>4. ASSUME NEW p \in Callers, SysGetcwd(p) PROVE Fine
  BY <1>4, GetcwdFine
<1>5. ASSUME NEW p \in Callers, NEW name, SysReadlink(p, name, 2) PROVE Fine
  BY <1>1, <1>5, ReadlinkFine
<1>6. ASSUME NEW p \in Callers, NEW name, SysMkdir(p, name) PROVE Fine
  <2>1. \E fd : fd \in Fds
    <3>1. 1 \in Fds
      BY FileCallsAssumption DEF Fds
    <3> QED BY <3>1
  <2> QED BY <1>6, <2>1, MakesFine
<1>7. ASSUME NEW p \in Callers, NEW a \in Paths, NEW from \in Starts(a), NEW flags,
             SysOpen(p, from, a.absolute, a.path, flags)
      PROVE  Fine
  <2>1. from \in 0 .. MaxFiles
    BY <1>2
  <2> QED BY <1>7, <2>1, OpenFine
<1>8. ASSUME NEW p \in Callers, NEW a \in Paths, NEW flags, SysStat(p, a.absolute, a.path, flags)
      PROVE  Fine
  BY <1>8, StatFine
<1>9. ASSUME NEW p \in Callers, NEW a \in Paths, NEW from \in Starts(a), NEW rmdir,
             SysRemove(p, from, a.absolute, a.path, rmdir)
      PROVE  Fine
  <2>1. from \in 0 .. MaxFiles
    BY <1>2
  <2> QED BY <1>9, <2>1, RemoveFine
<1>10. ASSUME NEW p \in Callers, NEW a \in Paths, SysChdir(p, a.absolute, a.path) PROVE Fine
  BY <1>1, <1>10, ChdirFine
<1>11. ASSUME NEW p \in Callers, NEW fd \in Fds, SysClose(p, fd) PROVE Fine
  BY <1>1, <1>11, CloseFine
<1>12. ASSUME NEW p, NEW fd \in Fds, SysWrite(p, fd) \/ SysFstat(p, fd) PROVE Fine
  BY <1>12, PlainFine
<1>13. ASSUME NEW p, NEW fd \in Fds, SysRead(p, fd, SelfSize) PROVE Fine
  BY <1>1, <1>13, ReadFine
<1>14. ASSUME NEW p, NEW fd \in Fds, NEW whence, SysLseek(p, fd, whence, 0) PROVE Fine
  BY <1>1, <1>14, LseekFine
<1>15. ASSUME NEW p, NEW fd \in Fds, NEW room \in {0, 2}, SysGetdents(p, fd, room) PROVE Fine
  BY <1>1, <1>15, GetdentsFine
<1>16. ASSUME NEW p, NEW fd \in Fds, NEW name, SysMkdirat(p, fd, name) PROVE Fine
  BY <1>16, MakesFine
<1> HIDE DEF Fine
<1> QED BY <1>3, <1>4, <1>5, <1>6, <1>7, <1>8, <1>9, <1>10, <1>11, <1>12, <1>13, <1>14, <1>15,
           <1>16 DEF Next

LEMMA InvNext ==
  ASSUME Inv, DriveWorks, [Next]_vars
  PROVE  Inv'
<1>1. CASE Next
  BY <1>1, NextFine DEF Fine
<1>2. CASE UNCHANGED vars
  BY <1>2, Same DEF vars, fileVars, Fine
<1> QED BY <1>1, <1>2

(* Whatever sequence of calls the processes make, and whatever call fails,   *)
(* the invariant holds: of types, of references and states, of where the     *)
(* working directories are and of what has been listed.  (A FAT drive that   *)
(* works is assumed: Update leaves a reference without a state otherwise.)   *)
THEOREM InvHolds ==
  ASSUME DriveWorks
  PROVE  Spec => []Inv
<1>1. Init => Inv
  BY InitInv
<1>2. Inv /\ [Next]_vars => Inv'
  BY InvNext
<1> QED BY <1>1, <1>2, PTL DEF Spec

(* Every reference a process can reach leads to a driver state of its own,   *)
(* of the driver mounted at its node, and no state was used or freed after   *)
(* it was freed: vfs_open, vfs_update, vfs_trace, vfs_close and sys_chdir    *)
(* together close each state once.                                           *)
THEOREM ReferencesHeld ==
  ASSUME DriveWorks
  PROVE  Spec => []RefsHeld
<1>1. Inv => RefsHeld
  <2> SUFFICES ASSUME Inv PROVE RefsHeld
    OBVIOUS
  <2>1. ~bad
    BY DEF Inv, TypeInv
  <2>2. ASSUME NEW x \in Holders, RefOf(x).driver # "none"
        PROVE  /\ RefOf(x).id \in DOMAIN heap
               /\ heap[RefOf(x).id].fs = RefOf(x).driver
               /\ RefOf(x).driver = Mounted[RefOf(x).node]
    <3>1. RefOf(x) = RootRef \/ Leads(RefOf(x), heap)
      BY HoldersLead
    <3> QED BY <2>2, <3>1 DEF Leads, RootRef
  <2> QED BY <2>1, <2>2 DEF RefsHeld, Inv, Apart
<1> QED BY <1>1, InvHolds, PTL

(* From wherever a process is, an open that succeeds leads to what the path  *)
(* names, read section by section: the walk of vfs_open over mounts, depths  *)
(* and driver states, for a path of any length.                              *)
THEOREM OpensWhatIsNamed ==
  ASSUME DriveWorks
  PROVE  Spec => []OpensWhatItNames
<1>1. Inv => OpensWhatItNames
  <2> SUFFICES ASSUME Inv, Room, NEW p \in pids \cap Callers, NEW a \in Paths, NEW flags \in Flags
               PROVE  LET m == VfsOpen(Call(p), cwd[p], a.absolute, a.path, flags)
                      IN  (m.err = "ok" /\ ~StateOf(m).linked) =>
                            Place(StateOf(m)) =
                              Named(IF a.absolute THEN <<>> ELSE PlaceOf(cwd[p]), a.path, p,
                                    flags)[Len(a.path)]
    BY DEF OpensWhatItNames
  <2> DEFINE m == VfsOpen(Call(p), cwd[p], a.absolute, a.path, flags)
             at == IF a.absolute THEN <<>> ELSE PlaceOf(cwd[p])
  <2>1. cwd[p] = RootRef \/ Leads(cwd[p], heap)
    BY DEF Inv, HeldIn
  <2>2. Opens(m, cwd[p], heap, a.absolute, a.path, flags, p)
    BY <2>1, CallOpens
  <2>3. StartsAt(cwd[p], heap, a.absolute, at)
    <3>1. CASE a.absolute
      BY <3>1 DEF StartsAt
    <3>2. CASE ~a.absolute /\ cwd[p] = RootRef
      BY <3>2 DEF StartsAt, PlaceOf, RootRef
    <3>3. CASE ~a.absolute /\ cwd[p] # RootRef
      <4>1. PlaceOf(cwd[p]) = Place(heap[cwd[p].id])
        BY <2>1, <3>3, LeadsSomewhere DEF PlaceOf
      <4>2. Sits(cwd[p], heap[cwd[p].id], Place(heap[cwd[p].id]))
        BY <3>3 DEF Inv, CwdIn
      <4> QED BY <3>3, <4>1, <4>2 DEF StartsAt
    <3> QED BY <3>1, <3>2, <3>3
  <2> HIDE DEF m, at
  <2>4. m.err = "ok" => Sits(m.ref, StateOf(m), Named(at, a.path, p, flags)[Len(a.path)])
    BY <2>2, <2>3 DEF Opens
  <2>5. (m.err = "ok" /\ ~StateOf(m).linked) =>
          Place(StateOf(m)) = Named(at, a.path, p, flags)[Len(a.path)]
    BY <2>4 DEF Sits
  <2> QED BY <2>5 DEF m, at
<1> QED BY <1>1, InvHolds, PTL

(* Calls of getdents that list a directory in pieces deliver every entry     *)
(* once and in order, whatever the size of the buffer.                       *)
THEOREM ListsOnce ==
  ASSUME DriveWorks
  PROVE  Spec => []ListedOnce
<1>1. Inv => ListedOnce
  <2> SUFFICES ASSUME Inv, NEW x \in Holders, x[2] # 0, listed[x[1]][x[2]] # <<>>
               PROVE  LET seen == listed[x[1]][x[2]]
                      IN  /\ \A i \in 2 .. Len(seen) : seen[i] = seen[i - 1] + EntrySize
                          /\ heap[RefOf(x).id].offset = seen[Len(seen)] + EntrySize
    BY DEF ListedOnce
  <2>1. x[1] \in pids /\ x[2] \in Open(x[1])
    BY DEF Holders
  <2>2. RefOf(x) = files[x[1]][x[2]]
    BY DEF RefOf
  <2>3. Listing(listed[x[1]][x[2]], heap[RefOf(x).id])
    BY <2>1, <2>2 DEF Inv, ListIn
  <2> QED BY <2>3 DEF Listing
<1> QED BY <1>1, InvHolds, PTL

(* A system call that succeeds leaves no driver state behind that nobody     *)
(* reaches, whatever the calls before it have lost.                          *)
THEOREM LeaksNothing ==
  ASSUME DriveWorks
  PROVE  Spec => NothingLeaks
<1>1. Inv /\ [Next]_vars =>
        [(result' = "ok" /\ pids' = pids /\ table' = table) => Lost' \subseteq Lost]_vars
  BY NextFine DEF Fine
<1> QED BY <1>1, InvHolds, PTL DEF Spec, NothingLeaks

-----------------------------------------------------------------------------
(* What vfs_trace writes. *)

(* From the root of procfs one turn leads to the root of all. *)
LEMMA UpMount ==
  ASSUME NEW m, NEW h, NEW p, Owned(m, h, p), DriveWorks, m.ref.node = "proc", m.ref.offset = 0
  PROVE  AtRoot(Ignore(Enter(m, "..", {})))
<1> DEFINE k == Update([m EXCEPT !.ref.node = "root"])
<1>1. Enter(m, "..", {}) = k
  BY DEF Enter, Parent, Children
<1> HIDE DEF k
<1>2. Makes(k, m, "root", 0, IF "root" = m.ref.node THEN StateOf(m) ELSE RootState[Mounted["root"]],
            h, p)
  BY MoveOwned DEF k
<1>3. Ignore(k).ref = k.ref /\ k.ref.node = "root" /\ k.ref.offset = 0
  BY <1>2, FailOwned DEF Makes, Ignore
<1> QED BY <1>1, <1>3 DEF AtRoot

(* From the directory of a process one turn leads to the root of procfs. *)
LEMMA UpProc ==
  ASSUME NEW m, NEW h, NEW p, Owned(m, h, p), p \in {1, 2}, m.err = "ok", m.ref.node = "proc",
         m.ref.offset = 1, StateOf(m).node = "proc"
  PROVE  LET n == Ignore(Enter(m, "..", {}))
         IN  /\ Owned(n, h, p) /\ n.err = "ok" /\ n.ref.node = "proc" /\ n.ref.offset = 0
             /\ StateOf(n).node = "root"
<1> DEFINE below == m.ref.offset - 1
           k == Update([m EXCEPT !.ref.offset = below])
           s == StateOf(m)
           t == ProcTo(k, s, "..", {})
<1>1. Enter(m, "..", {}) = DriverOpen(k, "..", {})
  BY DEF Enter
<1>2. below = 0
  OBVIOUS
<1>3. Makes(k, m, "proc", 0, s, h, p)
  <2>1. 0 \in Nat
    OBVIOUS
  <2> QED BY <1>2, <2>1, ShiftOwned
<1> HIDE DEF k, below
<1>4. /\ Owned(k, h, p) /\ k.err = "ok" /\ k.ref.node = "proc" /\ k.ref.offset = 0
      /\ StateOf(k) = s
  BY <1>3 DEF Makes
<1>5. k.ref.driver = "proc" /\ Live(k) /\ s \in ProcStates /\ k.pids \subseteq {1, 2}
      /\ k.pid \in {1, 2}
  BY <1>4, MountedIs DEF Owned, Leads, Live, StateOf, States, FatStates
<1>6. DriverOpen(k, "..", {}) = ProcOpen(k, s, "..", {})
  BY <1>4, <1>5 DEF DriverOpen
<1>7. ProcNext(k, s, "..", {}) = "root"
  BY DEF ProcNext
<1>8. ProcOpen(k, s, "..", {}) = PutState(k, t)
  BY <1>7 DEF ProcOpen, ProcTo
<1>9. t \in States /\ t.fs = k.ref.driver /\ t.node = "root"
  <2>1. ".." \in Names
    BY DEF Names
  <2>2. Moved(t, s, "..", {}, k.pid)
    BY <1>5, <1>7, <2>1, ProcMoves
  <2> QED BY <1>5, <2>2 DEF Moved, States
<1> HIDE DEF t, s
<1>10. Makes(PutState(k, t), k, k.ref.node, k.ref.offset, t, h, p)
  BY <1>4, <1>9, PutOwned
<1> DEFINE n == PutState(k, t)
<1>11. Owned(n, h, p) /\ StateOf(n) = t /\ n.ref.node = "proc" /\ n.ref.offset = 0
  BY <1>4, <1>10 DEF Makes
<1> HIDE DEF n
<1>12. /\ Owned(Ignore(n), h, p) /\ Ignore(n).err = "ok" /\ Ignore(n).ref = n.ref
       /\ StateOf(Ignore(n)) = StateOf(n)
  BY <1>11, FailOwned DEF Ignore
<1> QED BY <1>1, <1>6, <1>8, <1>9, <1>11, <1>12 DEF n

(* At the root, or on its way into the unset pointer, a trace stays. *)
LEMMA TraceEnds ==
  ASSUME NEW m, NEW j \in 0 .. MaxResolves, TraceUp(m)[j].wild \/ AtRoot(TraceUp(m)[j].m)
  PROVE  TraceUp(m)[MaxResolves] = TraceUp(m)[j]
<1> DEFINE turn == TraceUp(m)
           E == {k \in 0 .. MaxResolves : k >= j => turn[k] = turn[j]}
<1>1. MaxResolves \in Nat
  BY FileCallsAssumption
<1>2. \A k \in 0 .. MaxResolves :
        turn[k] = IF k = 0 THEN [m |-> m, names |-> <<>>, wild |-> FALSE]
                  ELSE Climb(turn[k - 1])
  BY TraceTurn
<1> HIDE DEF turn
<1>3. 0 \in E
  BY <1>1
<1>4. ASSUME NEW k \in 1 .. MaxResolves, k - 1 \in E PROVE k \in E
  <2>1. k \in 0 .. MaxResolves /\ turn[k] = Climb(turn[k - 1])
    BY <1>1, <1>2
  <2>2. CASE k = j
    BY <2>1, <2>2
  <2>3. CASE k < j
    BY <2>1, <2>3
  <2>4. CASE k > j
    <3>1. turn[k - 1] = turn[j]
      BY <1>4, <2>4
    <3>2. Climb(turn[j]) = turn[j]
      BY DEF Climb, turn
    <3> QED BY <2>1, <3>1, <3>2
  <2> QED BY <2>2, <2>3, <2>4
<1> HIDE DEF E
<1>5. \A k \in 0 .. MaxResolves : k \in E
  BY <1>1, <1>3, <1>4, Turns
<1>6. MaxResolves \in E
  BY <1>1, <1>5
<1> QED BY <1>1, <1>6 DEF E, turn

(* A turn that is neither at the root nor in FAT. *)
LEMMA ClimbsOn ==
  ASSUME NEW m, NEW names, ~AtRoot(m), m.ref.driver # "fat"
  PROVE  Climb([m |-> m, names |-> names, wild |-> FALSE]) =
           [m |-> Ignore(Enter(m, "..", {})), names |-> <<LookupName(m)>> \o names, wild |-> FALSE]
BY DEF Climb

LEMMA JoinOnes ==
  ASSUME NEW a, NEW b
  PROVE  <<a>> \o <<b>> = <<a, b>>
<1> DEFINE S == {a, b}
           s == <<a>>
           t == <<b>>
           x == s \o t
           y == <<a, b>>
<1>1. /\ s \in Seq(S) /\ Len(s) = 1 /\ s[1] = a /\ t \in Seq(S) /\ Len(t) = 1 /\ t[1] = b
      /\ y \in Seq(S) /\ Len(y) = 2 /\ y[1] = a /\ y[2] = b
  OBVIOUS
<1> HIDE DEF S, s, t, y
<1>2. /\ x \in Seq(S) /\ Len(x) = Len(s) + Len(t)
      /\ \A i \in 1 .. Len(s) + Len(t) : x[i] = IF i <= Len(s) THEN s[i] ELSE t[i - Len(s)]
  BY <1>1, ConcatProperties
<1> HIDE DEF x
<1>3. Len(x) = 2 /\ x[1] = a /\ x[2] = b
  BY <1>1, <1>2
<1>4. \A i \in 1 .. 2 : x[i] = y[i]
  BY <1>1, <1>3
<1>5. x = y
  BY <1>1, <1>2, <1>3, <1>4, SeqEqual
<1> QED BY <1>5 DEF x, y, s, t

(* The trace of a call whose reference is where its state is. *)
LEMMA TraceNames ==
  ASSUME NEW m, NEW h, NEW p, Owned(m, h, p), p \in {1, 2}, m.err = "ok", DriveWorks,
         MaxResolves >= 2, Sits(m.ref, StateOf(m), Place(StateOf(m))), ~StateOf(m).linked,
         Followed(StateOf(m)), StateOf(m).node # "cwd", Place(StateOf(m)) # <<>>
  PROVE  LET t == TraceUp(m)[MaxResolves]
         IN  ~t.wild => t.names = Place(StateOf(m))
<1> DEFINE s == StateOf(m)
           turn == TraceUp(m)
           t0 == [m |-> m, names |-> <<>>, wild |-> FALSE]
<1>1. MaxResolves \in Nat /\ 0 \in 0 .. MaxResolves /\ 1 \in 0 .. MaxResolves
      /\ 2 \in 0 .. MaxResolves
  BY FileCallsAssumption
<1>2. turn[0] = t0 /\ turn[1] = Climb(turn[0]) /\ turn[2] = Climb(turn[1])
  BY <1>1, TraceTurn
<1>3. /\ s \in States /\ s.fs = m.ref.driver /\ m.ref.driver = Mounted[m.ref.node]
      /\ m.ref.node \in {"root", "proc"} /\ m.ref.offset = Depth(s)
  BY DEF Owned, Leads, Refs, StateOf, Sits
<1>4. CASE s.fs = "fat"
  <2>1. s.at # <<>> /\ s.at \in Seq(STRING) /\ Depth(s) = Len(s.at)
    BY <1>3, <1>4 DEF Place, Depth, States, FatStates, ProcStates
  <2>2. Len(s.at) # 0
    BY <2>1, EmptySeq
  <2>3. ~AtRoot(m)
    BY <1>3, <2>1, <2>2 DEF AtRoot
  <2>4. turn[1] = [t0 EXCEPT !.wild = TRUE]
    BY <1>2, <1>3, <1>4, <2>3 DEF Climb
  <2>5. turn[1].wild
    BY <2>4
  <2>6. turn[MaxResolves] = turn[1]
    BY <1>1, <2>5, TraceEnds
  <2> QED BY <2>5, <2>6
<1>5. CASE s.fs = "proc" /\ s.node = "root"
  <2>1. m.ref.node = "proc" /\ m.ref.offset = 0 /\ Place(s) = <<"proc">>
    BY <1>3, <1>5, MountedIs DEF Depth, Place
  <2>2. turn[1] = [m |-> Ignore(Enter(m, "..", {})), names |-> <<LookupName(m)>> \o <<>>,
                   wild |-> FALSE]
    BY <1>2, <1>3, <1>5, <2>1, ClimbsOn DEF AtRoot
  <2>3. AtRoot(turn[1].m)
    BY <2>1, <2>2, UpMount
  <2>4. turn[MaxResolves] = turn[1]
    BY <1>1, <2>3, TraceEnds
  <2>5. LookupName(m) = "proc"
    BY <1>5, <2>1 DEF LookupName
  <2>6. turn[1].names = <<"proc">>
    BY <2>2, <2>5
  <2> QED BY <2>1, <2>4, <2>6
<1>6. CASE s.fs = "proc" /\ s.node = "proc"
  <2> DEFINE n == Ignore(Enter(m, "..", {}))
             X == NameOf(s.at[1])
  <2>1. m.ref.node = "proc" /\ m.ref.offset = 1 /\ Place(s) = <<"proc", X>>
    BY <1>3, <1>6, MountedIs DEF Depth, Place
  <2>2. turn[1] = [m |-> n, names |-> <<LookupName(m)>> \o <<>>, wild |-> FALSE]
    BY <1>2, <1>3, <1>6, <2>1, ClimbsOn DEF AtRoot
  <2>3. LookupName(m) = X
    BY <1>6 DEF LookupName
  <2>4. /\ Owned(n, h, p) /\ n.err = "ok" /\ n.ref.node = "proc" /\ n.ref.offset = 0
        /\ StateOf(n).node = "root"
    BY <1>6, <2>1, UpProc
  <2> HIDE DEF n
  <2>5. n.ref.driver = "proc" /\ ~AtRoot(n)
    BY <2>4, MountedIs DEF Owned, Leads, AtRoot
  <2> HIDE DEF X
  <2>6. turn[1] = [m |-> n, names |-> <<X>>, wild |-> FALSE]
    BY <2>2, <2>3
  <2>7. turn[2] = [m |-> Ignore(Enter(n, "..", {})), names |-> <<LookupName(n)>> \o <<X>>,
                   wild |-> FALSE]
    BY <1>2, <2>5, <2>6, ClimbsOn
  <2>8. AtRoot(turn[2].m)
    BY <2>4, <2>7, UpMount
  <2>9. turn[MaxResolves] = turn[2]
    BY <1>1, <2>8, TraceEnds
  <2>10. LookupName(n) = "proc"
    BY <2>4 DEF LookupName
  <2>11. turn[2].names = <<"proc", X>>
    <3>1. turn[2].names = <<LookupName(n)>> \o <<X>>
      BY <2>7
    <3>2. <<"proc">> \o <<X>> = <<"proc", X>>
      BY JoinOnes
    <3> QED BY <2>10, <3>1, <3>2, Zenon
  <2> QED BY <2>1, <2>9, <2>11
<1>7. s.fs = "proc" \/ s.fs = "fat"
  BY <1>3 DEF States, FatStates, ProcStates
<1>8. s.fs = "proc" => s.node \in {"root", "proc"}
  BY <1>3 DEF States, FatStates, ProcStates, ProcNodes, Followed
<1> QED BY <1>4, <1>5, <1>6, <1>7, <1>8

(* vfs_trace of a working directory writes the path that leads to it; a      *)
(* trace through FAT never comes to an end.  (The code's limit on resolving  *)
(* is 64.)                                                                   *)
THEOREM TracedBack ==
  ASSUME DriveWorks, MaxResolves >= 2
  PROVE  Spec => []TracesBack
<1>1. Inv => TracesBack
  <2> SUFFICES ASSUME Inv, Room, NEW p \in pids, Straight(cwd[p]), PlaceOf(cwd[p]) # <<>>,
                      heap[cwd[p].id].node # "cwd", ~Trace(Call(p), cwd[p]).wild
               PROVE  Trace(Call(p), cwd[p]).names = PlaceOf(cwd[p])
    BY DEF TracesBack
  <2> DEFINE r == cwd[p]
             s == heap[r.id]
             up == Update(Refcpy(Call(p), r))
             start == Ignore(up)
             t == TraceUp(start)[MaxResolves]
  <2>1. r # RootRef /\ Leads(r, heap)
    BY DEF Inv, HeldIn, PlaceOf, RootRef
  <2>2. /\ PlaceOf(r) = Place(s) /\ ~s.linked /\ Followed(s) /\ Sits(r, s, Place(s))
    <3>1. r.driver # "none"
      BY <2>1, LeadsSomewhere
    <3> QED BY <2>1, <3>1 DEF PlaceOf, Straight, Inv, CwdIn
  <2>3. Bare(Call(p), heap, p) /\ p \in {1, 2}
    BY CallIs
  <2>4. Makes(up, Call(p), r.node, r.offset, s, heap, p)
    BY <2>1, <2>3, CopyOwned
  <2> HIDE DEF up
  <2>5. Owned(up, heap, p) /\ StateOf(up) = s /\ up.ref.offset = r.offset
    BY <2>4 DEF Makes
  <2>6. /\ Owned(start, heap, p) /\ start.err = "ok" /\ StateOf(start) = s
        /\ start.ref.offset = r.offset
    BY <2>5, FailOwned DEF Ignore
  <2> HIDE DEF start
  <2>7. Sits(start.ref, s, Place(s))
    <3> HIDE DEF r, s
    <3> QED BY <2>2, <2>6 DEF Sits
  <2>8. ~t.wild => t.names = Place(s)
    <3> HIDE DEF t
    <3>1. s.node # "cwd" /\ Place(s) # <<>>
      BY <2>2
    <3> HIDE DEF s, r
    <3> QED BY <2>2, <2>3, <2>6, <2>7, <3>1, TraceNames DEF t
  <2>9. Trace(Call(p), r) = IF t.wild THEN t ELSE [t EXCEPT !.m = VfsClose(t.m)]
    BY DEF Trace, start, up
  <2>10. Trails(t, heap, p)
    BY <2>3, <2>6, TraceTrails
  <2> HIDE DEF t
  <2>11. Trace(Call(p), r).names = t.names /\ Trace(Call(p), r).wild = t.wild
    BY <2>9, <2>10 DEF Trails
  <2> QED BY <2>2, <2>8, <2>11
<1> QED BY <1>1, InvHolds, PTL
=============================================================================
