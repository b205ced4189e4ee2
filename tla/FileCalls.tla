------------------------------ MODULE FileCalls ------------------------------
(***************************************************************************)
(* The system calls on files (src/src/kernel/syscall.c) with the working   *)
(* directories and the descriptor tables of the processes (scheduler.c).   *)
(* A system call runs with the interrupts off: it is one step.             *)
(***************************************************************************)
EXTENDS Vfs

CONSTANTS Procs,           \* the processes there are at first
          Callers,         \* bound: those of them that make calls
          MaxFiles,        \* MAX_FILES_PER_PROCESS, 1024 in the code
          Paths            \* the paths given to calls: [absolute, path]

ASSUME FileCallsAssumption ==
  /\ {MaxResolves, MaxDepth, EntrySize, MaxStates, MaxFiles} \subseteq Nat \ {0}
  /\ Procs \subseteq {1, 2} /\ Callers \subseteq Procs
  /\ \A a \in Paths : a.absolute \in BOOLEAN /\ a.path \in Seq(STRING)

VARIABLES heap,      \* the driver states that are allocated
          tree,      \* the paths of the FAT file system
          pids,      \* the processes that exist
          cwd,       \* the working directory of each process
          files,     \* its table of references
          exists,    \* its table of the descriptors in use
          table,     \* where fileExists points: its "own" table, or "null"
          listed,    \* history: the places in a directory that were delivered
          result,    \* "ok" or "error", what the last call returned
          bad,       \* history: a state was used or freed after it was freed
          wild       \* the kernel has called through a pointer nobody set, or
                     \* used a reference nobody filled in

fileVars == <<files, exists, table>>
vars == <<heap, tree, pids, cwd, files, exists, table, listed, result, bad, wild>>

Fds == 1 .. MaxFiles
NoRef == [RootRef EXCEPT !.node = "none"]

NoStates == [i \in {} |-> Unreached]
EachProc(v) == [p \in Procs |-> v]
EachFd(v) == EachProc([fd \in Fds |-> v])

\* scheduler_new_entry: the working directory is the root, without a driver.
Init ==
  /\ heap = NoStates
  /\ tree = {<<"d">>, <<"f">>}
  /\ pids = Procs /\ cwd = EachProc(RootRef) /\ table = EachProc("own")
  /\ files = EachFd(NoRef) /\ exists = EachFd(FALSE) /\ listed = EachFd(<<>>)
  /\ result = "ok" /\ bad = FALSE /\ wild = FALSE

\* The descriptors through which a process reaches its files.
Open(p) == {fd \in Fds : table[p] = "own" /\ exists[p][fd]}
Holders == {<<p, 0>> : p \in pids} \cup {h \in pids \X Fds : h[2] \in Open(h[1])}
RefOf(h) == IF h[2] = 0 THEN cwd[h[1]] ELSE files[h[1]][h[2]]
Held == {RefOf(h).id : h \in Holders}
Lost == DOMAIN heap \ Held

Call(p) == [heap |-> heap, tree |-> tree, pids |-> pids, pid |-> p, ref |-> RootRef,
            err |-> "ok", bad |-> FALSE]

Ready(p) == ~wild /\ p \in pids
Room == Cardinality(DOMAIN heap) < MaxStates

\* The end of a call: m holds the heap and the tree it leaves.
Return(m, r) ==
  /\ UNCHANGED <<pids, wild>>
  /\ tree' = m.tree /\ bad' = (bad \/ m.bad) /\ result' = r
  /\ heap' = [i \in DOMAIN m.heap |-> IF i \in Held' THEN m.heap[i] ELSE Unreached]

Refuse == result' = "error" /\ UNCHANGED <<heap, tree, pids, cwd, fileVars, listed, bad, wild>>
Accept == result' = "ok" /\ UNCHANGED <<heap, tree, pids, cwd, fileVars, listed, bad, wild>>

\* From here on anything may happen, and nothing more is followed.
GoWild ==
  /\ wild' = TRUE
  /\ heap' = NoStates /\ tree' = {} /\ pids' = {} /\ cwd' = EachProc(NoRef)
  /\ files' = EachFd(NoRef) /\ listed' = EachFd(<<>>)
  /\ UNCHANGED <<exists, table, result, bad>>

\* fd_resolve and scheduler_fget.
Resolved(p, fd) == {IF exists[p][fd] THEN files[p][fd] ELSE NoRef}

\* Bound: a process that has closed a file uses no descriptor any more.  Its
\* fileExists is null, and what the code finds there is in Scheduler.
UsesTable(p) == table[p] = "own"

\* The directory a call with a path starts from: the working directory, or a
\* descriptor's for the calls with "at" in their name.
Bases(p, from) == IF from = 0 THEN {cwd[p]} ELSE Resolved(p, from)

---------------------------------------------------------------------------
(* open, openat, creat, close.                                             *)

\* The slots scheduler_fput finds free.
FreeSlots(p) == {fd \in Fds : ~exists[p][fd]}

\* fd_open, after vfs_open: a positive error counts as success, and when no
\* slot is free the reference is dropped.
FdOpen(p, m, free) ==
  IF m.err \in {"ok"} \cup Positive /\ free # {}
  THEN /\ m.ref.offset <= MaxResolves
       /\ files' = [files EXCEPT ![p][Smallest(free)] = m.ref]
       /\ exists' = [exists EXCEPT ![p][Smallest(free)] = TRUE]
       /\ listed' = [listed EXCEPT ![p][Smallest(free)] = <<>>]
       /\ UNCHANGED <<cwd, table>>
       /\ Return(m, "ok")
  ELSE UNCHANGED <<cwd, fileVars, listed>> /\ Return(m, "error")

SysOpen(p, from, absolute, path, flags) ==
  /\ Ready(p) /\ Room /\ UsesTable(p)
  /\ \E base \in Bases(p, from) :
       \/ base = NoRef /\ Refuse
       \/ /\ base # NoRef
          /\ \E m \in {VfsOpen(Call(p), base, absolute, path, flags)}, free \in {FreeSlots(p)} :
               FdOpen(p, m, free)

\* sys_close: scheduler_fremove clears the pointer to the table, not an entry.
\* What the table held counts only for a process that goes on using it.
SysClose(p, fd) ==
  /\ Ready(p) /\ UsesTable(p)
  /\ \E ref \in Resolved(p, fd) :
       \/ ref = NoRef /\ Refuse
       \/ /\ ref # NoRef
          /\ table' = [table EXCEPT ![p] = "null"]
          /\ listed' = [listed EXCEPT ![p] = [f \in Fds |-> <<>>]]
          /\ files' = [files EXCEPT ![p] = [f \in Fds |-> NoRef]]
          /\ UNCHANGED <<cwd, exists>>
          /\ Return(VfsClose([Call(p) EXCEPT !.ref = ref]), "ok")

---------------------------------------------------------------------------
(* Calls that open a path and close it again.                              *)

\* stat: the nine calls differ in the layout they fill and in the flags.
SysStat(p, absolute, path, flags) ==
  /\ Ready(p) /\ Room
  /\ UNCHANGED <<cwd, fileVars, listed>>
  /\ \E m \in {VfsOpen(Call(p), cwd[p], absolute, path, flags)} :
       IF m.err # "ok" THEN Return(m, "error") ELSE Return(VfsClose(m), "ok")

Below(tr, path) == {t \in tr : Len(t) >= Len(path) /\ SubSeq(t, 1, Len(path)) = path}

\* What the removal would take away is not in use, and is not the root (as in Fat).
Removable(m) ==
  (StateOf(m).fs = "fat") =>
     /\ StateOf(m).at # <<>>
     /\ \A i \in (Held \ {0}) \cap DOMAIN heap :
          heap[i].fs = "fat" => heap[i].at \notin Below(m.tree, StateOf(m).at)

\* A file is removed either way; a directory with what is in it.
Removed(m) == [m EXCEPT !.tree = @ \ Below(@, StateOf(m).at)]

\* sys_unlink, sys_rmdir and sys_unlinkat.
SysRemove(p, from, absolute, path, rmdir) ==
  /\ Ready(p) /\ Room /\ (from # 0 => UsesTable(p))
  /\ UNCHANGED <<cwd, fileVars, listed>>
  /\ \E base \in Bases(p, from) :
       \/ base = NoRef /\ result' = "error" /\ UNCHANGED <<heap, tree, pids, bad, wild>>
       \/ /\ base # NoRef
          /\ \E m \in {VfsOpen(Call(p), base, absolute, path,
                               {"nofollow"} \cup IF rmdir THEN {"dir"} ELSE {})} :
               IF m.err # "ok" THEN Return(m, "error")
               ELSE /\ Removable(m)
                    /\ IF StateOf(m).fs = "proc" \/ (StateOf(m).node = "dir" /\ ~rmdir)
                       THEN Return(VfsClose(m), "error")
                       ELSE Return(VfsClose(Removed(m)), "ok")

\* sys_chdir: the new directory takes the place of the old one, which is closed.
SysChdir(p, absolute, path) ==
  /\ Ready(p) /\ Room
  /\ UNCHANGED <<fileVars, listed>>
  /\ \E m \in {VfsOpen(Call(p), cwd[p], absolute, path, {"dir"})} :
       IF m.err # "ok" THEN UNCHANGED cwd /\ Return(m, "error")
       ELSE /\ m.ref.offset <= MaxResolves
            /\ cwd' = [cwd EXCEPT ![p] = m.ref]
            /\ Return(VfsClose([m EXCEPT !.ref = cwd[p]]), "ok")

---------------------------------------------------------------------------
(* Calls on a reference that is already there.                             *)

\* proc_sread: the bytes that are left are delivered, as far as they fit.
Delivered(size, offset, want) == IF size - offset < want THEN size - offset ELSE want
Advance(m, n) == [m EXCEPT !.heap[m.ref.id].offset = @ + n]

\* vfs_trace of a process's working directory.  The descriptor of a process
\* that does not exist is not filled in.
TraceCwd(p, q) ==
  /\ Room
  /\ IF q \notin pids THEN GoWild
     ELSE \E t \in {Trace(Call(p), cwd[q])} :
            IF t.wild THEN GoWild
            ELSE UNCHANGED <<cwd, fileVars, listed>> /\ Return(t.m, "ok")

SelfSize == EntrySize + 1   \* tmp[16]; sizeof(vEntry) is no multiple of it

\* fatfs_read and procfs_read.
ReadRef(p, m, n) ==
  LET s == StateOf(m)
  IN  CASE s.fs = "fat" -> IF s.node = "file" THEN Accept ELSE Refuse
        [] s.fs = "proc" /\ s.node = "cwd" -> TraceCwd(p, s.at[1])
        [] s.fs = "proc" /\ s.node = "exe" -> GoWild
        [] s.fs = "proc" /\ s.node = "self" ->
             /\ UNCHANGED <<cwd, fileVars, listed>>
             /\ Return(Advance(m, Delivered(SelfSize, s.offset, n)), "ok")
        [] OTHER -> Refuse

\* A call on a descriptor: Do is what it does with a reference to a state.
OnFd(p, fd, Do(_)) ==
  /\ Ready(p) /\ UsesTable(p)
  /\ \E ref \in Resolved(p, fd) :
       CASE ref = NoRef -> Refuse
         [] ref # NoRef /\ ref.id \notin DOMAIN heap ->
              bad' = TRUE /\ UNCHANGED <<heap, tree, pids, cwd, fileVars, listed, result, wild>>
         [] OTHER -> Do([Call(p) EXCEPT !.ref = ref])

SysRead(p, fd, n) == OnFd(p, fd, LAMBDA m : ReadRef(p, m, n))

\* fatfs_write (the file's contents are in Fat) and procfs_write.
SysWrite(p, fd) ==
  OnFd(p, fd, LAMBDA m : IF StateOf(m).fs = "fat" /\ StateOf(m).node = "file" THEN Accept ELSE Refuse)

\* The three fstat calls: every state has something to report.
SysFstat(p, fd) == OnFd(p, fd, LAMBDA m : Accept)

\* The size, in procfs's unit, of what a directory lists.
DirSize(s) ==
  CASE s.node = "root" -> (3 + Cardinality(pids)) * EntrySize
    [] s.node = "proc" -> 5 * EntrySize
    [] OTHER -> 2 * EntrySize

IsDirectory(s) == s.node \in {"root", "proc", "fd"}

\* sys_lseek: a place within a procfs directory, or an error; FAT's is in Fat.
SysLseek(p, fd, whence, n) ==
  OnFd(p, fd, LAMBDA m :
    LET s == StateOf(m)
        to == IF whence = "set" THEN n * EntrySize ELSE s.offset + n * EntrySize
    IN  CASE s.fs = "fat" -> Accept
          [] s.fs = "proc" /\ whence \notin {"set", "cur"} -> Refuse
          [] OTHER -> /\ to <= (IF IsDirectory(s) THEN DirSize(s) ELSE SelfSize)
                      /\ listed' = [listed EXCEPT ![p][fd] = IF to = s.offset THEN @ ELSE <<>>]
                      /\ UNCHANGED <<cwd, fileVars>>
                      /\ Return([m EXCEPT !.heap[m.ref.id].offset = to], "ok"))

\* The whole entries there are from an offset on.
Left(s) == (DirSize(s) - s.offset) \div EntrySize

DentsNoUndo(s, room) ==
  IF Left(s) > room THEN s.offset + (room + 1) * EntrySize ELSE DirSize(s)

\* Where a listing leaves the offset when "room" entries fit into the caller's
\* buffer: one entry more is read and undone by a seek to its own place.
DentsEnd(s, room) ==
  IF Left(s) > room THEN s.offset + room * EntrySize ELSE DirSize(s)

\* sys_getdents, sys_getdents64 and sys_old_readdir: the loop over vfs_list.
\* fatfs_list writes through pointers nobody set, then says it found nothing;
\* procfs_list fails on a leaf with a positive number, taken for that many
\* entries, and the loop copies one that nobody filled.
SysGetdents(p, fd, room) ==
  OnFd(p, fd, LAMBDA m :
    LET s == StateOf(m)
        n == IF Left(s) < room THEN Left(s) ELSE room
    IN  CASE s.fs = "fat" -> IF s.node = "dir" THEN Accept \/ GoWild ELSE Refuse
          [] s.fs # "fat" /\ ~IsDirectory(s) -> GoWild
          [] OTHER ->
               /\ s.offset <= DirSize(s) /\ s.offset % EntrySize = 0
               /\ listed' = [listed EXCEPT ![p][fd] = @ \o [i \in 1 .. n |-> s.offset + (i - 1) * EntrySize]]
               /\ UNCHANGED <<cwd, fileVars>>
               /\ Return([m EXCEPT !.heap[m.ref.id].offset = DentsEnd(s, room)],
                         IF room = 0 /\ Left(s) > 0 THEN "error" ELSE "ok"))

\* vfs_mkdir: nothing happens without a driver, procfs refuses.
MkdirIn(ref, name) ==
  CASE ref.driver = "none" -> Accept
    [] ref.driver = "proc" -> Refuse
    [] OTHER -> IF /\ heap[ref.id].node = "dir" /\ Len(heap[ref.id].at) < MaxDepth
                   /\ Append(heap[ref.id].at, name) \notin tree
                THEN /\ tree' = tree \cup {Append(heap[ref.id].at, name)} /\ result' = "ok"
                     /\ UNCHANGED <<heap, pids, cwd, fileVars, listed, bad, wild>>
                ELSE Refuse

SysMkdir(p, name) == Ready(p) /\ MkdirIn(cwd[p], name)
SysMkdirat(p, fd, name) == OnFd(p, fd, LAMBDA m : MkdirIn(m.ref, name))

\* vfs_readlink on the working directory: the state's offset counts for the
\* name of "self" too.
SysReadlink(p, name, n) ==
  /\ Ready(p)
  /\ LET m == [Call(p) EXCEPT !.ref = cwd[p]]
         is(node) == cwd[p].driver = "proc" /\ heap[cwd[p].id].node = node
     IN  CASE cwd[p].driver = "none" -> Accept
           [] is("proc") /\ name = "cwd" -> TraceCwd(p, StateOf(m).at[1])
           [] is("proc") /\ name = "exe" -> GoWild
           [] is("root") /\ name = "self" ->
                /\ UNCHANGED <<cwd, fileVars, listed>>
                /\ Return(Advance(m, Delivered(2, StateOf(m).offset, n)), "ok")
           [] OTHER -> Refuse

SysGetcwd(p) == Ready(p) /\ TraceCwd(p, p)

\* scheduler_kill_process: the open files are not closed.  The descriptor
\* that is left counts for nothing.
Kill(p) ==
  /\ ~wild /\ p \in pids
  /\ pids' = pids \ {p}
  /\ listed' = [listed EXCEPT ![p] = [f \in Fds |-> <<>>]]
  /\ cwd' = [cwd EXCEPT ![p] = NoRef]
  /\ files' = [files EXCEPT ![p] = [f \in Fds |-> NoRef]]
  /\ UNCHANGED <<tree, exists, table, wild, result>>
  /\ \E m \in {VfsClose([Call(p) EXCEPT !.ref = cwd[p]])} :
       /\ heap' = [i \in DOMAIN m.heap |-> IF i \in Held' THEN m.heap[i] ELSE Unreached]
       /\ bad' = (bad \/ m.bad)

\* Where an absolute path starts from does not matter.
Starts(a) == IF a.absolute THEN {0} ELSE 0 .. MaxFiles

Flags == {{}, {"dir"}, {"nofollow"}, {"creat"}}

Next ==
  \/ \E p \in Procs : Kill(p)
  \/ \E p \in Callers :
    \/ SysGetcwd(p)
    \/ \E name \in {"self", "cwd", "exe", "x"} : SysReadlink(p, name, 2)
    \/ \E name \in DirNames : SysMkdir(p, name)
    \/ \E a \in Paths :
         \/ \E from \in Starts(a), flags \in Flags : SysOpen(p, from, a.absolute, a.path, flags)
         \/ \E flags \in {{}, {"nofollow"}} : SysStat(p, a.absolute, a.path, flags)
         \/ \E from \in Starts(a), rmdir \in BOOLEAN : SysRemove(p, from, a.absolute, a.path, rmdir)
         \/ SysChdir(p, a.absolute, a.path)
    \/ \E fd \in Fds :
         \/ SysClose(p, fd) \/ SysWrite(p, fd) \/ SysFstat(p, fd) \/ SysRead(p, fd, SelfSize)
         \/ \E whence \in {"set", "cur", "end"} : SysLseek(p, fd, whence, 0)
         \/ \E room \in {0, 2} : SysGetdents(p, fd, room)
         \/ \E name \in DirNames : SysMkdirat(p, fd, name)

Spec == Init /\ [][Next]_vars
=============================================================================
