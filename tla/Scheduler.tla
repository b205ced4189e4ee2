----------------------------- MODULE Scheduler -----------------------------
(***************************************************************************)
(* The process table and its round robin (src/src/kernel/scheduler.c) with *)
(* the file descriptors that hang from it (sys_open and sys_close reach    *)
(* them through scheduler_fput, fget and fremove).                         *)
(*                                                                         *)
(* The table is a piece of heap: what no process wrote reads as the heap   *)
(* left it.  The count of the processes runs ahead of the table's size,    *)
(* and the code reads past the table then, where any flag may be found, or *)
(* writes there: from such a write on, and from a jump to a stack nobody   *)
(* saved, nothing more is said.  The timer and the system calls run with   *)
(* interrupts off, one at a time, so each call is a step.                  *)
(***************************************************************************)
EXTENDS Integers, FiniteSetsExt

CONSTANTS
  InitialSize,  \* INITIAL_PROCESS_TABLE_SIZE
  MaxFiles,     \* MAX_FILES_PER_PROCESS
  MaxCreated,   \* bound: the processes created in a behaviour
  MaxOpened,    \* bound: the files opened in a behaviour
  ZeroBytes,    \* the bytes of the first gates (address 0 on) that are zero
  NULL

ASSUME SizesAssumption ==
  /\ InitialSize \in Nat \ {0} /\ MaxFiles \in Nat \ {0}
  /\ MaxCreated \in Nat /\ MaxOpened \in Nat

ASSUME NullAssumption == NULL \notin Int

Process == 1..MaxCreated
Start == 0                    \* the context of start(), entry.c
Slot == 0..(2 * MaxCreated)   \* a creation adds two to process_count at most
Fd == 0..(MaxFiles - 1)       \* one less than the number a program sees
File == 1..MaxOpened

VARIABLES
  exists, stack,  \* of each descriptor: the flag; whose context is saved
  count, size,    \* process_count, process_table_size
  running,        \* process_running
  cpu,            \* the context that executes
  born,           \* the processes created so far
  home,           \* the slot of each process alive (history)
  clean,          \* the table's memory read as zero at first (history)
  astray,         \* a descriptor past the table was written, or a stack that
                  \* nobody saved was taken for a process's
  fileExists,     \* of each descriptor: the array's contents, or NULL
  files,          \* of each descriptor: the files opened
  low,            \* the bytes at address 0 on: TRUE for not zero
  opened,         \* the files opened so far
  held            \* what each process opened and did not close (history)

procs == <<exists, stack, count, size, running, cpu, born, home, clean>>
descs == <<fileExists, files, low, opened, held>>
vars == <<procs, descs, astray>>

Alive == {p \in Process : home[p] # NULL}

Init ==
  /\ exists \in {e \in [Slot -> BOOLEAN] : \A i \in Slot : e[i] => i < InitialSize}
  /\ clean = (\A i \in Slot : ~exists[i]) /\ astray = FALSE
  /\ stack = [i \in Slot |-> NULL] /\ count = 0 /\ size = InitialSize /\ running = -1
  /\ cpu = Start /\ born = 0 /\ home = [p \in Process |-> NULL]
  /\ fileExists = [i \in Slot |-> NULL]
  /\ files = [i \in Slot |-> [f \in Fd |-> NULL]]
  /\ low = [f \in Fd |-> f \notin ZeroBytes]
  /\ opened = 0 /\ held = [p \in Process |-> [f \in Fd |-> NULL]]

-----------------------------------------------------------------------------
(* The table. *)

(* The flags that an index into the table reads: past it, those of a       *)
(* memory that is not the scheduler's.                                     *)
Read(past) == [i \in Slot |-> IF i < size THEN exists[i] ELSE i \in past]

(* The first descriptor below process_count that is not in use, or the one *)
(* at process_count.                                                       *)
Vacant(flag) == Min({i \in Slot : i < count /\ ~flag[i]} \cup {count})

Stray == astray' = TRUE /\ UNCHANGED <<procs, descs>>

(* Slips of the code, each used to show that a property can tell, stand    *)
(* before the definition they are slips of.                                *)
NoFilesUncleared(i) ==
  IF fileExists[i] = NULL THEN [f \in Fd |-> FALSE] ELSE fileExists[i]

NoFiles(i) == [f \in Fd |-> FALSE]

(* scheduler_new_entry: a descriptor past the last counts twice, and the   *)
(* table grows only when the count is its very size.                       *)
NewEntry(flag) ==
  LET i == Vacant(flag)
      grown == IF i = count /\ size = count THEN 2 * size ELSE size
      p == born + 1
  IN  /\ ~astray /\ born < MaxCreated
      /\ \/ i >= grown /\ Stray
         \/ /\ i < grown
            /\ size' = grown
            /\ count' = IF i = count THEN count + 2 ELSE count + 1
            /\ exists' = [j \in Slot |-> j = i \/ (j < grown /\ flag[j])]
            /\ stack' = [stack EXCEPT ![i] = p]
            /\ fileExists' = [fileExists EXCEPT ![i] = NoFiles(i)]
            /\ born' = p /\ home' = [home EXCEPT ![p] = i]
            /\ UNCHANGED <<running, cpu, clean, files, low, opened, held, astray>>

CreateProcess ==
  \E past \in SUBSET {i \in Slot : size <= i} : NewEntry(Read(past))

KillProcessFlagKept(p) ==
  /\ ~astray /\ p \in Alive /\ p # cpu /\ home[p] # 0
  /\ home' = [home EXCEPT ![p] = NULL]
  /\ UNCHANGED <<exists, stack, count, size, running, cpu, born, clean, descs, astray>>

(* scheduler_kill_process: no caller yet, and here none that kills itself  *)
(* or the first process.                                                   *)
KillProcess(p) ==
  /\ ~astray /\ p \in Alive /\ p # cpu /\ home[p] # 0
  /\ exists' = [exists EXCEPT ![home[p]] = FALSE]
  /\ home' = [home EXCEPT ![p] = NULL]
  /\ UNCHANGED <<stack, count, size, running, cpu, born, clean, descs, astray>>

NextSlotStaying(flag) ==
  LET found == Min({i \in Slot : running <= i /\ i < count /\ flag[i]} \cup {count})
  IN  IF found = count THEN 0 ELSE found

(* The search of scheduler_context_switch ends at the count or, past it,   *)
(* at the first byte that is not zero: it begins anew then.                *)
NextSlot(flag) ==
  LET found == Min({i \in Slot : running < i /\ i < count /\ flag[i]} \cup {count})
  IN  IF found = count THEN 0 ELSE found

SwitchToLate(next) ==
  /\ ~astray /\ count # 0
  /\ \/ stack[next] = NULL /\ Stray
     \/ /\ stack[next] # NULL
        /\ stack' = [i \in Slot |-> IF i = next THEN cpu ELSE stack[i]]
        /\ running' = next /\ cpu' = stack[next]
        /\ UNCHANGED <<exists, count, size, born, home, clean, descs, astray>>

(* The old stack is saved, the first time before the table, and the next   *)
(* one taken.                                                              *)
SwitchTo(next) ==
  LET saved == [i \in Slot |-> IF i = running THEN cpu ELSE stack[i]]
  IN  /\ ~astray /\ count # 0
      /\ \/ saved[next] = NULL /\ Stray
         \/ /\ saved[next] # NULL
            /\ stack' = saved /\ running' = next /\ cpu' = saved[next]
            /\ UNCHANGED <<exists, count, size, born, home, clean, descs, astray>>

(* scheduler_context_switch. *)
ContextSwitch ==
  \E past \in SUBSET (size..count) : SwitchTo(NextSlot(Read(past)))

-----------------------------------------------------------------------------
(* The descriptors of the process at process_running. *)

(* The flags an index into fileExists reads: of the null pointer, memory   *)
(* from address 0 on, which is the interrupt table's (MEMORY_MAP_IDT).     *)
Flags(i) == IF fileExists[i] = NULL THEN low ELSE fileExists[i]

(* scheduler_fput, for sys_open. *)
Open ==
  LET free == {f \in Fd : ~Flags(running)[f]}
      fd == Min(free)
      file == opened + 1
  IN  /\ ~astray /\ cpu \in Process /\ exists[running] /\ opened < MaxOpened
      /\ free # {}
      /\ files' = [files EXCEPT ![running][fd] = file]
      /\ IF fileExists[running] = NULL
           THEN low' = [low EXCEPT ![fd] = TRUE] /\ UNCHANGED fileExists
           ELSE fileExists' = [fileExists EXCEPT ![running][fd] = TRUE] /\ UNCHANGED low
      /\ opened' = file /\ held' = [held EXCEPT ![cpu][fd] = file]
      /\ UNCHANGED <<procs, astray>>

(* scheduler_fget and fremove, for sys_close: the pointer is cleared, not  *)
(* the flag.                                                               *)
Close(fd) ==
  /\ ~astray /\ cpu \in Process /\ exists[running]
  /\ Flags(running)[fd]
  /\ fileExists' = [fileExists EXCEPT ![running] = NULL]
  /\ held' = [held EXCEPT ![cpu][fd] = NULL]
  /\ UNCHANGED <<procs, files, low, opened, astray>>

-----------------------------------------------------------------------------
(* Whatever goes on from there is not followed.                            *)
Lost == astray /\ UNCHANGED vars

Next == \/ CreateProcess \/ ContextSwitch \/ Open
        \/ \E p \in Process : KillProcess(p)
        \/ \E fd \in Fd : Close(fd)
        \/ Lost

(* The timer goes on ticking. *)
Spec == Init /\ [][Next]_vars /\ WF_vars(ContextSwitch)

-----------------------------------------------------------------------------
(* Descriptors hold flags, contexts and files, and the processor executes  *)
(* a context somebody saved.                                               *)
TypeOK ==
  /\ exists \in [Slot -> BOOLEAN]
  /\ stack \in [Slot -> Process \cup {Start, NULL}]
  /\ count \in 0..(2 * MaxCreated) /\ size \in Nat
  /\ running \in Slot \cup {-1} /\ cpu \in Process \cup {Start}
  /\ born \in 0..MaxCreated /\ home \in [Process -> Slot \cup {NULL}]
  /\ fileExists \in [Slot -> [Fd -> BOOLEAN] \cup {NULL}]
  /\ files \in [Slot -> [Fd -> File \cup {NULL}]]
  /\ low \in [Fd -> BOOLEAN] /\ opened \in 0..MaxOpened
  /\ held \in [Process -> [Fd -> File \cup {NULL}]]
  /\ clean \in BOOLEAN /\ astray \in BOOLEAN

(* The processes have a descriptor of the table each.  On memory that      *)
(* reads as zero no other descriptor is in use, so that process_list,      *)
(* which reads one past the count, lists the processes and nothing else of *)
(* the table; and it takes a creation for every descriptor of the table    *)
(* before the scheduler can write past it or jump to a stack that it reads *)
(* there, however the count has run ahead.                                 *)
OneDescriptorEach ==
  /\ \A p, q \in Alive : p # q => home[p] # home[q]
  /\ \A p \in Alive : home[p] < size /\ exists[home[p]]
  /\ clean => {i \in Slot : i <= count /\ exists[i]} = {home[p] : p \in Alive}
  /\ clean /\ born < InitialSize => ~astray

(* A process that is not executing will go on where it was stopped: its    *)
(* descriptor holds its own stack, and no switch or creation since has     *)
(* put another's there.                                                    *)
ContextsKept == \A p \in Alive : p = cpu \/ stack[home[p]] = p

(* The process that executes is alive and process_running is its slot, so  *)
(* that the calls it makes work on its own descriptor                      *)
(* (scheduler_get_current_pid).                                            *)
CallerIsRunning == cpu # Start => cpu \in Alive /\ running = home[cpu]

(* Until it closes one, a process finds behind its descriptors the files   *)
(* it opened: none is given out again while in use, and a descriptor of    *)
(* the table used anew inherits none.                                      *)
FilesKept ==
  \A p \in Alive :
    fileExists[home[p]] # NULL
      => \A f \in Fd : /\ fileExists[home[p]][f] <=> held[p][f] # NULL
                       /\ held[p][f] # NULL => files[home[p]][f] = held[p][f]

(* The inductive invariant behind these four.  The count is past every     *)
(* process's descriptor, and at most twice the number of creations.  A     *)
(* descriptor that reads as in use and is no process's has no stack saved  *)
(* in it; the first one, where the search ends unchecked, is a process's   *)
(* once there is one.  On clean memory the table keeps its size: the count *)
(* is one ahead from the first creation on, so that the search always      *)
(* finds a hole before it comes to compare the two.  And before the first  *)
(* switch nothing is running.                                              *)
CountIsPast ==
  /\ count <= 2 * born
  /\ \A p \in Alive : p <= born /\ home[p] < count /\ home[p] < size
  /\ \A i \in Slot : exists[i] => i < size
Used(i) == \E p \in Alive : home[p] = i
InUse ==
  /\ \A p, q \in Alive : p # q => home[p] # home[q]
  /\ \A p \in Alive : exists[home[p]]
  /\ \A i \in Slot : (exists[i] \/ size <= i) /\ ~Used(i) => stack[i] = NULL
  /\ count # 0 => Used(0)
Steady ==
  clean => /\ \A i \in Slot : exists[i] => Used(i)
           /\ size = InitialSize
           /\ count = IF born = 0 THEN 0 ELSE born + 1
           /\ count # 0 /\ count <= size => \E i \in Slot : i < count /\ ~exists[i]
           /\ astray => born >= InitialSize
Unborn == \A p \in Process : p > born => held[p] = [f \in Fd |-> NULL]
NothingRuns == cpu = Start => running = -1

SInv == /\ TypeOK /\ CountIsPast /\ InUse /\ Steady /\ Unborn /\ NothingRuns
        /\ ContextsKept /\ CallerIsRunning /\ FilesKept

(* The round robin forgets no process while it keeps to the table. *)
EveryoneRuns ==
  \A p \in Process : p \in Alive ~> (cpu = p \/ p \notin Alive \/ astray)

(* Opening and closing files leaves the gates at MEMORY_MAP_IDT alone,     *)
(* which isr_init filled with valid pointers (routine.h).                  *)
GatesKept == \A f \in Fd : low[f] <=> f \notin ZeroBytes

=============================================================================
