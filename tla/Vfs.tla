--------------------------------- MODULE Vfs ---------------------------------
(***************************************************************************)
(* References into the tree of mounted file systems (src/src/kernel/vfs.c) *)
(* and the process file system (procfs.c).  start() mounts FAT on the root *)
(* and procfs on "proc".  A reference names a mount node, a depth below it *)
(* and a driver state; the states are blocks of the heap that a driver     *)
(* makes in root() and clone() and frees in close().                       *)
(*                                                                         *)
(* A call works on a record m: the heap of driver states, the FAT tree,    *)
(* the processes, the caller, the reference being made, the error, and     *)
(* whether a block was used or freed after it had been freed.              *)
(***************************************************************************)
EXTENDS Integers, Sequences, FiniteSets

CONSTANTS MaxResolves,   \* PATH_MAX_RESOLVES, 64 in the code
          DirNames,      \* the names that FAT directories have; other names are files'
          MaxDepth,      \* bound: the length of a path made in the FAT file system
          EntrySize,     \* sizeof(vEntry), in the unit of procfs's offsets
          MaxStates,     \* bound: driver states alive at once
          DriveWorks     \* whether floppy_init and fat_init succeed

\* vfs_init, and the two vfs_mount of start(); the root is its own parent.
Mounted == [root |-> "fat", proc |-> "proc"]
Children(node) == IF node = "root" THEN {"proc"} ELSE {}
Parent(node) == "root"
RootRef == [node |-> "root", offset |-> 0, driver |-> "none", id |-> 0]

RootState == [fat  |-> [fs |-> "fat", node |-> "dir", at |-> <<>>, offset |-> 0, linked |-> FALSE],
              proc |-> [fs |-> "proc", node |-> "root", at |-> <<0>>, offset |-> 0, linked |-> FALSE]]

\* What a state no reference leads to any more holds does not matter.
Unreached == [fs |-> "none", node |-> "none", at |-> <<>>, offset |-> 0, linked |-> FALSE]

\* The errors vfs_open returns as they are; every other one it returns negated.
Positive == {"ENAMETOOLONG", "ELOOP"}

Fail(m, e) == [m EXCEPT !.err = e]
Live(m) == m.ref.id \in DOMAIN m.heap
StateOf(m) == m.heap[m.ref.id]
PutState(m, s) == [m EXCEPT !.heap[m.ref.id] = s]

Smallest(S) == CHOOSE i \in S : \A j \in S : i <= j
FreshId(heap) == Smallest(1 .. MaxStates \ DOMAIN heap)
With(heap, id, s) == [i \in DOMAIN heap \cup {id} |-> IF i = id THEN s ELSE heap[i]]
NewState(m, id, s) == [m EXCEPT !.heap = With(@, id, s), !.ref.id = id]

\* A driver's close: kfree(vref->state).
CloseState(m) == [m EXCEPT !.heap = [i \in DOMAIN m.heap \ {m.ref.id} |-> m.heap[i]],
                           !.bad = @ \/ ~Live(m)]

\* vfs_close: a reference without a driver has nothing to close.
VfsClose(m) == IF m.ref.driver = "none" THEN m ELSE CloseState(m)

\* The root() of the driver the mount node names.  FAT starts the drive.
Root(m) ==
  LET driver == Mounted[m.ref.node]
  IN  IF driver = "fat" /\ ~DriveWorks THEN Fail([m EXCEPT !.ref.driver = driver], "EIO")
      ELSE NewState([m EXCEPT !.ref.driver = driver], FreshId(m.heap), RootState[driver])

UpdateNoClose(m) ==
  IF m.ref.driver # Mounted[m.ref.node] THEN Root(m) ELSE m

\* vfs_update
Update(m) ==
  CASE m.ref.driver = "none" -> Root(m)
    [] m.ref.driver \notin {"none", Mounted[m.ref.node]} -> Root(CloseState(m))
    [] OTHER -> m

RefcpyShared(m, src) == [m EXCEPT !.ref = src]

\* vfs_refcpy: the new reference gets a copy of the other one's state.
Refcpy(m, src) ==
  IF src.driver = "none" THEN [m EXCEPT !.ref = [src EXCEPT !.id = 0]]
  ELSE IF src.id \notin DOMAIN m.heap
  THEN [NewState([m EXCEPT !.ref = src], FreshId(m.heap), Unreached) EXCEPT !.bad = TRUE]
  ELSE NewState([m EXCEPT !.ref = src], FreshId(m.heap), m.heap[src.id])

---------------------------------------------------------------------------
(* open() of the two drivers.                                              *)

\* str_to_uint and uint_to_str for the names of processes.
PidOf(name) == CASE name = "1" -> 1 [] name = "2" -> 2 [] OTHER -> 0
NameOf(pid) == <<"1", "2">>[pid]

\* The node procfs_open leads to, or "none".
ProcNext(m, s, name, flags) ==
  CASE s.node = "root" /\ name = "self" -> IF "nofollow" \in flags THEN "self" ELSE "proc"
    [] s.node = "root" /\ PidOf(name) \in m.pids -> "proc"
    [] s.node = "proc" /\ name = ".." -> "root"
    [] s.node = "proc" /\ name \in {"fd", "exe"} -> IF "nofollow" \in flags THEN name ELSE "proc"
    [] s.node = "proc" /\ name = "cwd" -> "cwd"
    [] s.node = "fd" /\ name = ".." -> "proc"
    [] OTHER -> "none"

\* procfs_open.  A link that is to be followed is not: the state stays.  The
\* process a state keeps when it goes back to the root is never looked at.
ProcOpen(m, s, name, flags) ==
  IF ProcNext(m, s, name, flags) = "none"
  THEN Fail(m, IF s.node \in {"root", "proc", "fd"} THEN "ENOENT" ELSE "EIO")
  ELSE PutState(m, [s EXCEPT !.node = ProcNext(m, s, name, flags), !.offset = 0,
                             !.at = CASE s.node = "root" -> <<IF name = "self" THEN m.pid ELSE PidOf(name)>>
                                      [] s.node = "proc" /\ name = ".." -> <<0>>
                                      [] OTHER -> @,
                             !.linked = @ \/ (s.node = "proc" /\ name \in {"fd", "exe"}
                                              /\ "nofollow" \notin flags)])

FatAt(s, name) == IF name = ".." THEN SubSeq(s.at, 1, Len(s.at) - 1) ELSE Append(s.at, name)
FatDir(m, path) == path = <<>> \/ (path \in m.tree /\ path[Len(path)] \in DirNames)

\* fatfs_open: directories and files are opened, and files created, by the
\* flags; the FAT driver itself is the module Fat.
FatOpen(m, s, name, flags) ==
  IF s.node # "dir" THEN Fail(m, "ENOTDIR")
  ELSE CASE "dir" \in flags /\ FatDir(m, FatAt(s, name)) /\ (name = ".." => s.at # <<>>) ->
              PutState(m, [s EXCEPT !.at = FatAt(s, name)])
         [] /\ "dir" \notin flags /\ name # ".." /\ name \notin DirNames
            /\ FatAt(s, name) \in m.tree \/ ("creat" \in flags /\ Len(s.at) < MaxDepth) ->
              [PutState(m, [s EXCEPT !.at = FatAt(s, name), !.node = "file"])
                 EXCEPT !.tree = @ \cup {FatAt(s, name)}]
         [] OTHER -> Fail(m, "EIO")

\* The driver's open(): fatfs_open looks for a missing state, procfs_open does not.
DriverOpen(m, name, flags) ==
  CASE m.err # "ok" -> m
    [] m.err = "ok" /\ Live(m) ->
         IF m.ref.driver = "fat" THEN FatOpen(m, StateOf(m), name, flags)
                                 ELSE ProcOpen(m, StateOf(m), name, flags)
    [] OTHER -> [Fail(m, "EIO") EXCEPT !.bad = @ \/ m.ref.id # 0]

---------------------------------------------------------------------------
(* Walking.                                                                *)

EnterAnyDepth(m, name, flags) ==
  CASE name = "." -> m
    [] name = ".." /\ m.ref.offset > 0 ->
         DriverOpen(Update([m EXCEPT !.ref.offset = @ - 1]), name, flags)
    [] name = ".." /\ m.ref.offset <= 0 -> Update([m EXCEPT !.ref.node = Parent(@)])
    [] name \in Children(m.ref.node) -> Update([m EXCEPT !.ref.node = name])
    [] OTHER -> DriverOpen(Update([m EXCEPT !.ref.offset = @ + 1]), name, flags)

\* vfs_enter; a node without children has none of the name (vfs_findchld).
Enter(m, name, flags) ==
  CASE name = "." -> m
    [] name = ".." /\ m.ref.offset > 0 ->
         DriverOpen(Update([m EXCEPT !.ref.offset = @ - 1]), name, flags)
    [] name = ".." /\ m.ref.offset <= 0 -> Update([m EXCEPT !.ref.node = Parent(@)])
    [] m.ref.offset = 0 /\ name \in Children(m.ref.node) -> Update([m EXCEPT !.ref.node = name])
    [] OTHER -> DriverOpen(Update([m EXCEPT !.ref.offset = @ + 1]), name, flags)

\* A turn of the loop of vfs_open that has resolved the k-th section: the
\* section before it is entered, unless the new one is too long.
Section(m, path, k, flags) ==
  CASE m.err # "ok" -> m
    [] m.err = "ok" /\ path[k] = "long" -> Fail(m, "ENAMETOOLONG")
    [] OTHER -> LET n == IF k = 1 THEN m ELSE Enter(m, path[k - 1], {"dir"} \cup (flags \cap {"nofollow"}))
                IN  IF n.err = "ok" /\ k > MaxResolves THEN Fail(n, "ELOOP") ELSE n

\* The loop, turn by turn.
Sections(m, path, flags) ==
  LET turn[k \in 0 .. Len(path)] ==
        IF k = 0 THEN m ELSE Section(turn[k - 1], path, k, flags)
  IN  turn

Ignore(m) == [m EXCEPT !.err = "ok"]

\* vfs_open: an absolute path starts at the root, another one at "base";
\* what the first vfs_update returns is ignored.
VfsOpen(m, base, absolute, path, flags) ==
  LET start == Ignore(Update(Refcpy(m, IF absolute THEN RootRef ELSE base)))
      n == Sections(start, path, flags)[Len(path)]
  IN  IF n.err = "ok" /\ path # <<>> THEN Enter(n, path[Len(path)], flags) ELSE n

---------------------------------------------------------------------------
(* Tracing.                                                                *)

LookupNodeName(m) == m.ref.node

\* procfs_lookup; the node's own name where it fails.
LookupName(m) ==
  CASE StateOf(m).node = "root" -> m.ref.node
    [] StateOf(m).node = "proc" -> NameOf(StateOf(m).at[1])
    [] OTHER -> StateOf(m).node

AtRoot(m) == m.ref.node = "root" /\ m.ref.offset = 0

\* A turn of the loop of vfs_trace, which ignores what vfs_enter returns.
\* fatfs_load leaves the driver's lookup unset: a trace through FAT calls it.
Climb(t) ==
  CASE t.wild \/ AtRoot(t.m) -> t
    [] ~t.wild /\ ~AtRoot(t.m) /\ t.m.ref.driver = "fat" -> [t EXCEPT !.wild = TRUE]
    [] OTHER -> [m |-> Ignore(Enter(t.m, "..", {})),
                 names |-> <<LookupName(t.m)>> \o t.names, wild |-> FALSE]

TraceUp(m) ==
  LET turn[k \in 0 .. MaxResolves] ==
        IF k = 0 THEN [m |-> m, names |-> <<>>, wild |-> FALSE] ELSE Climb(turn[k - 1])
  IN  turn

\* vfs_trace: a copy of the reference is led to the root and closed.
Trace(m, ref) ==
  LET t == TraceUp(Ignore(Update(Refcpy(m, ref))))[MaxResolves]
  IN  IF t.wild THEN t ELSE [t EXCEPT !.m = VfsClose(t.m)]

---------------------------------------------------------------------------
(* Where a reference is, and where it should be.                           *)

\* The depth of a state below the root of its file system.
Depth(s) ==
  CASE s.fs = "fat" -> Len(s.at)
    [] s.fs = "proc" /\ s.node = "root" -> 0
    [] s.fs = "proc" /\ s.node \in {"proc", "self"} -> 1
    [] OTHER -> 2

\* The absolute path of what a state stands for.
Place(s) ==
  CASE s.fs = "fat" -> s.at
    [] s.fs = "proc" /\ s.node = "root" -> <<"proc">>
    [] s.fs = "proc" /\ s.node = "proc" -> <<"proc", NameOf(s.at[1])>>
    [] s.fs = "proc" /\ s.node = "self" -> <<"proc", "self">>
    [] OTHER -> <<"proc", NameOf(s.at[1]), s.node>>

\* The absolute path a path means, section by section, with no mounts, depths
\* or states: what walking is measured against.
Meant(from, name, pid, flags) ==
  CASE name = "." -> from
    [] name = ".." -> IF from = <<>> THEN from ELSE SubSeq(from, 1, Len(from) - 1)
    [] from = <<"proc">> /\ name = "self" /\ "nofollow" \notin flags -> <<"proc", NameOf(pid)>>
    [] OTHER -> Append(from, name)

Named(from, path, pid, flags) ==
  LET at[k \in 0 .. Len(path)] ==
        IF k = 0 THEN from ELSE Meant(at[k - 1], path[k], pid, flags)
  IN  at
=============================================================================
