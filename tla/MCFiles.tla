------------------------------- MODULE MCFiles -------------------------------
(***************************************************************************)
(* Paths for the system calls on files, and what the runs check.           *)
(***************************************************************************)
EXTENDS FileCalls

At(path) == [absolute |-> TRUE, path |-> path]
From(path) == [absolute |-> FALSE, path |-> path]

MCPaths == {At(<<>>), At(<<"d">>), At(<<"d", "..", "f">>), At(<<"proc">>), At(<<"proc", "self">>),
            At(<<"proc", "2">>), At(<<"proc", "self", "fd">>), At(<<"d", "..", "proc">>),
            At(<<"proc", "..", ".", "f">>), At(<<"d", "long">>),
            From(<<"..">>), From(<<"..", "d">>), From(<<"self", "cwd">>), From(<<"f">>),
            From(<<"proc", "1", ".">>)}

---------------------------------------------------------------------------
\* Every reference a process can reach leads to a driver state of its own,
\* allocated, and of the driver mounted at its node; and no call has used or
\* freed a state after it was freed: vfs_open, vfs_update, vfs_trace and
\* sys_chdir together close each state once.
RefsHeld ==
  /\ ~bad
  /\ \A h \in Holders :
       RefOf(h).driver # "none" =>
          /\ RefOf(h).id \in DOMAIN heap
          /\ heap[RefOf(h).id].fs = RefOf(h).driver
          /\ RefOf(h).driver = Mounted[RefOf(h).node]
  /\ \A g, h \in Holders : (g # h /\ RefOf(g).driver # "none") => RefOf(g).id # RefOf(h).id

PlaceOf(ref) == IF ref.driver = "none" THEN <<>> ELSE Place(heap[ref.id])
Straight(ref) == ref.driver = "none" \/ ~heap[ref.id].linked

\* From wherever a process is, vfs_open that succeeds leads to what the path
\* names, as read section by section from the place it starts at.
OpensWhatItNames ==
  (Room /\ ~wild) =>
  \A p \in pids \cap Callers, a \in Paths, flags \in Flags :
     Straight(cwd[p]) =>
       LET m == VfsOpen(Call(p), cwd[p], a.absolute, a.path, flags)
       IN  (m.err = "ok" /\ ~StateOf(m).linked) =>
             Place(StateOf(m)) =
               Named(IF a.absolute THEN <<>> ELSE PlaceOf(cwd[p]), a.path, p, flags)[Len(a.path)]

\* vfs_trace of a working directory writes the path that leads to it.
TracesBack ==
  (Room /\ ~wild) =>
  \A p \in pids :
     (Straight(cwd[p]) /\ PlaceOf(cwd[p]) # <<>>) =>
       LET t == Trace(Call(p), cwd[p])
       IN  (~t.wild /\ heap[cwd[p].id].node # "cwd") => t.names = PlaceOf(cwd[p])

\* A system call that succeeds leaves no driver state behind that nobody
\* reaches.  Closing a file is excepted, and so is ending a process.
NothingLeaks ==
  [][(result' = "ok" /\ pids' = pids /\ table' = table) => Lost' \subseteq Lost]_vars

\* Calls that list a directory in pieces deliver every entry once and in
\* order, whatever the size of the caller's buffer.
ListedOnce ==
  \A h \in {g \in Holders : g[2] # 0} :
     LET seen == listed[h[1]][h[2]]
     IN  seen # <<>> =>
           /\ \A i \in 2 .. Len(seen) : seen[i] = seen[i - 1] + EntrySize
           /\ heap[RefOf(h).id].offset = seen[Len(seen)] + EntrySize
=============================================================================
