# NEOS: a verification development

TLA+ modules, model-checking runs and machine-checked proofs for the NEOS kernel
(`src/src/kernel`), a single-processor 32-bit x86 kernel: a buddy allocator and the interrupt
path in assembly; a scheduler, Linux-style system calls, a small virtual file system with a FAT
and a process driver, a floppy driver and an ELF loader in C.

## 1. The system

Everything runs in one address space and in ring 0. The only concurrency is between the
program being executed, the interrupt handlers and the devices. Every gate is an interrupt gate
(`isr_wrap` writes 0xEE), so a handler, system calls included, runs with interrupts off until its
`iret`; only the devices move beside it.

| Part | Source | State | Operations | Talks to |
|---|---|---|---|---|
| Memory allocator | kmalloc.asm | the buddy tree (one table of `l+1`-bit nodes per level), arena offset and size | kmalloc, kfree, krealloc, kmsz | called by the scheduler, GDT, loader, VFS and its drivers, brk |
| Arena set-up | mem.c, kmalloc.asm, math.c | the BIOS map, then the tree | mem_init, kset, initializetree, kmres | reads what the boot loader left, feeds the allocator |
| Interrupts | routine.asm, interrupt.c, pic.asm, switch.asm | the gates, the service table, `key`/`locked`, the PICs' IRR and ISR, the stacks | isr_tail, int_lock/int_wait, pic_*; isr_stub_stack, isr_into_stack | calls the scheduler on a tick and sys_linux on gate 0x80 |
| Scheduler | scheduler.c | the process table (a block of heap), `process_count`, `process_table_size`, `process_running` | create, kill, context switch, fput/fget/fremove, chdir, move, process_list | kmalloc, VFS, loader |
| System calls | syscall.c | none of its own | one handler per call | scheduler (descriptors, caller), VFS, kmalloc (brk) |
| VFS, procfs | vfs.c, procfs.c | tree of mount nodes, references with driver state and depth | open, close, read, write, seek, list, mkdir, remove, trace, ... | drivers, scheduler (procfs) |
| FAT, fatfs | fat.c, fatfs.c | the table and its one-sector cache, directories, handles | fopen, fread, fwrite, fremove, create, dirremove, ... | floppy |
| Floppy | floppy.c | controller state, sector buffer | read, write, seek, reset, motor | ports |
| Loader | rivendell.c | the program image | elf_load | VFS, kmalloc |
| Console, printing | console.c, print.c | cursor, attributes, escape buffer | con_write | video memory |
| Descriptor table, helpers, boot, build | gdt.c, util.asm, boot/, util/ | the GDT | gput, grm, gad | |

What is hard here:

* **long call sequences over shared summaries** (allocator): a call touches one node and then
  recomputes its ancestors one by one; the next call trusts the result for other areas.
* **stack discipline over several routines and several stacks** (interrupts): the words pushed
  in `isr_tail` are popped after the handler, which may have gone over to another process's stack.
* **devices against the processor**: requests between two instructions, requests withdrawn,
  the lost wake-up of `int_wait`, the mask for the end-of-interrupt carried in a register.
* **memory nobody wrote**: the process table has holes, its count runs past its size, and
  `process_running` starts at -1.
* **numeric edges**: wrapping addresses, signed comparison, size 0, trees that end in the middle
  of a block, numbers in a control sequence that an int does not hold.
* **partial failure**: an open that cannot be given a descriptor, a disk that fills up, a seek
  that must be retried.

`PROJECT.json` lists these hazards one by one, at the line where each bites, with the properties
that would catch it.

What makes each part correct: the allocator hands out no memory twice and fails only when full;
set-up keeps all reserved memory out; the tail restores what it saved and ends each interrupt
once; the scheduler runs every process, each on its own stack; descriptors stay with the process
that opened them; a driver state is closed as often as opened; cluster chains stay disjoint and
end; an image is the file's segments with
the rest zeroed; a transfer touches the bytes it was given and no others; the console writes on the
screen only and shows the cursor where it is.

## 2. Modules

| Module | Models | Used by |
|---|---|---|
| `BuddyNodes` | the nodes of the tree and the segments below them: pure operators | `Kmalloc`, `BuddyHeap` |
| `BuddyHeap` | **abstract specification**: a set of areas in use, one call at a time | refined by `Kmalloc` |
| `Kmalloc` | kmalloc, kfree, krealloc, kmsz, one step per loop round of the assembly | |
| `KmallocProps` | what is promised, and the refinement mapping to `BuddyHeap` | |
| `KmallocInv` | the inductive invariant | |
| `Kmalloc_proofs` | the facts about the tree, the theorems about the allocator | |
| `KmallocBoot` | mem_init, kset, initializetree, kmres | leaves the tree `Kmalloc` starts from |
| `KmallocBoot_proofs` | the theorems about set-up | |
| `Interrupts` | controllers, gates, isr_tail, the fence, stack switching | |
| `Interrupts_proofs` | the theorems about the tail | |
| `Scheduler` | table, round robin, descriptors | |
| `Scheduler_proofs` | the theorems about the scheduler | |
| `FileStore` | **abstract specification**: a map from paths to contents | refined by `MCFat` |
| `FatDisk` | the table, its cache, chains; fat_fread, fat_fwrite: pure operators | `FatDir` |
| `FatDisk_proofs` | the theorems about chains, reads and writes | |
| `FatDir` | directory entries and long names; find, create, open, remove: pure operators | `Fat` |
| `Fat` | the volume with its handles: one action per call of fatfs.c, and the restart | |
| `MCFat` | what must be true of the volume, the refinement mapping to `FileStore` | |
| `Floppy` | requests, seeks, transfers, resets, against the diskette | |
| `Floppy_proofs` | the theorems about transfers | |
| `Vfs` | mounts, references, vfs_open and vfs_trace, procfs and FAT as drivers: pure operators | `FileCalls` |
| `FileCalls` | the system calls on files: one action per call | |
| `MCFiles` | paths, and the properties of the calls | |
| `FileCalls_proofs` | the theorems about the calls on files | |
| `Console`, `Console_proofs` | the console, and the theorems about it | |
| `Loader` | elf_load | |
| `MC*` | instances for TLC | |

### 2.1 `Kmalloc`

A node is `<<level, index>>`; its value, `level + 1` bits in the code, is the set of its set bits:
bit *k* set says that no free area of 2^k segments lies in the node. The packing into bytes
(`gettreeelement`, `settreeelement`) is abstracted to this set; the masking it does (a write of
all ones keeps the bits the node has) is `Ones`. Variables `cur`, `need`, `seg`, `lvl`, `ret` are
registers; `pc` is the point of the code and `back` the return address of `full_buddify`, which
kmalloc, kfree and both halves of krealloc share. Actions:

| Action | Code |
|---|---|
| `Kmalloc(n)`, `Kfree(b, s)`, `Krealloc(b, n)`, `Kmsz(b, s)` | entry; the size is rounded up to `2^n` segments |
| `ReadRoot` | the test of the root's bit, which decides failure |
| `Descend` | one call of the recursive `allocate` |
| `Mark` | the node found is set to all ones |
| `ClearLeaf` | kfree's write: only the leaf under the pointer, whatever the area's size |
| `Buddify` | one round of `full_buddify` |
| `Climb`, `ClimbEnds` | finding an area's size from its first leaf; krealloc frees when done |
| `Probe` | krealloc's search at the old place and its ancestors, then anywhere |
| `Move` | memmove: recorded by which segments it writes |
| `Return` | the result goes to the caller |

Callers are constrained as kmalloc.h says: a pointer into an area they hold, the first byte for
krealloc. Kernel code calls the allocator with interrupts off or before the timer runs a second
context, so calls do not overlap; within a call every step is visible to the properties.
A request is given by its exponent, 0..MaxLevel for one that fits. A larger
one, which no run makes, would stand for every size above the arena's and for size 0, which wraps
(finding 1).

### 2.2 `KmallocBoot`

Addresses are words (`Word` for 2^32), so sums wrap and `clamp`, which takes `int`s, compares
them as signed. Powers of two come as a function `Power` with its recurrence.

| Action | Code |
|---|---|
| `Scan` | mem_init's loop over the map and its bounds |
| `Kset` | kset's sizes and the start of initializetree: a zero tree, the leaves' table |
| `LayTable` | one round of its loop over the levels; `top` is where the tables end so far |
| `TakeEnd` | the leaves under the tables and past the arena are marked, if there are any |
| `LevelUp` | one round of `areafull_buddify`, its last one included: that is over a level that has no table and writes the null pointer (`nullWrite` records it, nothing reads it) |
| `TakeEntry`, `SkipEntry`, `Finish` | mem_init's loop over the map, with kmres |
| `StrayEntry` | kmres of an entry that has a segment without a leaf |
| `StrayTables` | fewer than eight leaves: their table gets 0 bytes, an eighth of the leaves (kmalloc.asm:1010) |

After the last two the model stops (`pc = "astray"`). With fewer than eight leaves level 1's table lies on
the leaves', so that a mark in either changes both. `StrayEntry` came up while proving `KeptOut`. If the arena's blocks are a power of two and the
arena ends inside the block after them, an entry that reaches this rest is clamped to the arena's last
byte, whose segment is one past the leaves: the mark goes behind the leaves' table, into
level 1's first node. That the case is narrow is a property (`StraysOnlyAtEnd`); what the write does to
the node is not followed.

`TreeExact` says that what set-up leaves is the initial state of
`Kmalloc` (`TreeOver`): this is how the two modules compose.

### 2.3 `Interrupts`

`irr` and `isr` are the hardware's registers, both chips' in one set of lines, with line 2 the
slave's at the master. Request, priority, acknowledge and end-of-interrupt are modelled from how
pic.asm uses the 8259 (external). `stack` holds, word by word, what the tail pushed on the stack
in use; `saved` the stacks of the other contexts. The actions follow the tail: `Enter` (gate, head
and pushes), `CheckIrq` (pic_irq, pic_isr, the mask), `CommonHandle`, one of the handlers
(`HandleQuietly`, `Exit`, `Panic`, `Switch`), then `Leave`. `LeaveLost` is the same code when what
it pops is not what was pushed: where the processor goes is anyone's guess, so the behaviour stops
there. `CreateProcess` builds a stub stack; `Lock`, `Sleep`, `WakeUp` are int_lock and int_wait.
EBX matters: it carries the mask over the handler, is restored from the *new* context's frame
only after the end-of-interrupt, and at a system call it is whatever the program had in it.

`Switch` chooses any process; which one the real scheduler takes is `Scheduler`'s matter.

### 2.4 `Scheduler`

The table is a block of heap. `exists` is the flag byte of each descriptor in it, which until a process
is put there reads as the heap left it: the run and the theorems start from any contents, and `clean` records
whether all of it read as zero. `stack[i]` names the context whose stack pointer the descriptor holds.
`CreateProcess` counts a new descriptor twice, as the code does, and grows the table only when the count is
its very size. An index past the table reads memory that is not the scheduler's (`Read`): any flag may be
found there. `NextSlot` is the search of scheduler_context_switch, its run past the count included.

Two steps leave what the program's own memory decides, and the model stops there (`astray`): a creation
that writes a descriptor past the table, and a switch to a stack that nobody saved. Two creations fill a table of two, and the
third writes past it, since the count is then one ahead of the processes and never equals the size:
slots 0, 1 and, past the table, 2 or 3 (finding 4).

`fileExists[i] = NULL` is the null pointer that scheduler_fremove stores: flags are
then read and written at address 0 (`low`), where the interrupt table is. `home`, `held`
and `born` are history. What a gate corrupted this way does to interrupts is not fed back into
the module.

### 2.5 `FatDisk`, `FatDir`, `Fat`

The disk is a record of the table (one entry per cluster), its backup and the clusters' contents, in
units of 32 bytes: one directory entry, one part of a long name, or one unit of a file. `FatDisk` keeps what
fat.c keeps in `fat_cache`: a sector of the table, read through by `Cached` and emptied by
`Invalidate` where the code does; a walk along a chain (`CachedWalk`) sees the cache, so that a stale
sector shows as wrong data. `FWrite` is fat_fwrite with its three parts: the chain is followed, extended
by the first free entry (`FreeFrom`, `Link`, the clearing of the new cluster), and the entry is
written back (`UpdateEntry`). `FatDir` has the search of fat_find_full over live, removed, long
and end entries, the alias numbering of fat_create, which looks for a name that is taken in a form that
only an alias of six characters and an extension reads as (`FreeAlias`, `Extended`; finding 13), its slot
search and the growth of the directory, and removal, with the way fat_dirremove passes over entries while it removes them.
`Fat` has one action per call of the binding (`Open`, `Close`, `Read`, `Write`, `Seek`, `MakeDir`,
`Remove`, `RemoveDirectory`) and `Restart`: the handles go, the table and the data stay, the cache
is empty.

`MCFat` reads the tree of files straight from the table and the clusters, with none of the driver's
walks, and compares. The mapping to `FileStore` is that tree.

### 2.6 `Floppy`

A request is a range of bytes. `Seeking`/`SeekTo`/`SeekTimeout` are floppy_seek, `ReadSector`,
`WriteSector` and their failures the transfer of one sector, `Copy` and `Fill` the loops of
floppy_read and floppy_write over the sectors of the range, with the read of a sector that is to be
written in part. A transfer that fails may have moved a part of the sector (`Halves`); the drive
may miss the cylinder or not answer at all at any wait. A transfer is made where the arm is
(`Under`), so that one after a seek that missed would meet another sector. `WriteLate` is the path of floppy.c:331,
which reports success (finding 8). The diskette and the controller are external, modelled from the
commands the driver sends. Ports and motor delays are left out; so is the command byte that
floppy_send_command drops when its wait times out (floppy.c:121), after which the controller would take
the following bytes for others, and the byte after the 512th that the loops of a transfer admit
(`i > 512`, floppy.c:215 and 311).

### 2.7 `Vfs`, `FileCalls`

`Vfs` follows one open. The loop of vfs_open is `Sections`, a function of the number of turns taken, each
turn a `Section`: what vfs_resolve has cut off is looked at, and the section before it entered. `Enter` is
vfs_enter (child node, driver, depth), `Update` vfs_update (the swap of driver states at a mount point),
`Ignore` stands where the code drops a result, and `Refcpy` and `VfsClose` make and close a reference. The loop of
vfs_trace is `TraceUp`, likewise turn by turn (`Climb`), and `Named` is the path a path means, section
by section, without mounts or states. Driver states are objects of a heap
with an identity; `bad` becomes true when a state is used or freed after it was freed, so that the
properties see double closes. procfs is modelled in full as a driver (numbers, names, `self`, `cwd`,
`exe`, `fd`, the offsets of its reads); FAT, below the binding, is a tree of paths: what it does with
clusters is `Fat`'s matter.

`FileCalls` has one action per system call, error paths included: open, creat, openat, close, read,
write, lseek, stat and its kin, getdents and its kin, mkdir, mkdirat, readlink, unlink, unlinkat,
rmdir, chdir, getcwd, and a process's end. Calls run under an interrupt gate and do not interleave;
what makes them hard is the sequence. `table[p] = "null"` says that scheduler_fremove has set the pointer
to the flags to null: from then on calls that take a descriptor read the interrupt table, and the
model lets that process use no descriptor any more (`scheduler_gates` is about what happens
then). `wild` records a use of a pointer or a reference nobody set: fatfs_list's pointers, the `lookup`
that fatfs_load leaves out, the `exe` reference; so does getdents on a leaf of procfs, where the
positive error counts as entries that nobody wrote (finding 10). Behaviours end there.

### 2.8 `Console`

One action, `Write(b)`, per byte; it is the lexer's step, which may execute a whole sequence. The
screen is a function from cells to attributes, with one row of video memory behind it, so that a
write past the end shows. Numbers are parsed from the gathered bytes (`Written`) and are what an int keeps of
them (`Wrap`): the kernel is built without optimisation (makefile:39), so that they and their sums wrap. Such a number
may put the cursor off the screen (finding 14). `Write` then has no step, and `Lost` takes its place: the
next glyph would be written outside the screen. Glyphs are not told apart from one another. `shown` is
what the hardware cursor was last told.

### 2.9 `Loader`

elf_load step by step: header checks (`Refuse`, `Accept`), one program header at a time, the allocation
of the span of all segments, one `CopySegment` per segment with the bytes read and the bytes
cleared. A read may be short, or negative, which passes for success, and one of 0 bytes fails: a segment
without bytes in the file cannot be loaded. Addresses are taken modulo a small word. `good` says
that every read brought all it was asked for.

## 3. Runs

| Run | Question | Result |
|---|---|---|
| `kmalloc` | is the allocator safe, exact, terminating, and an implementation of `BuddyHeap`? | holds |
| `kmalloc_boot` | does set-up keep reserved memory and the tree itself out and leave an exact tree? | holds |
| `interrupts` | stacks, end-of-interrupt, fence | holds |
| `interrupts_glitches` | with requests that may be withdrawn, do the devices' handlers run for lines in service only? | holds |
| `interrupts_spurious` | does the tail survive a withdrawn request? | **no** |
| `scheduler` | until a step leaves the table: one descriptor each, contexts, files, fairness of the round robin; and how late that step is | holds |
| `scheduler_gates` | does closing files leave the interrupt table alone? | **no** |
| `disk` | is the volume, with its cache, chains, long names, a full disk and restarts, a store of named files? | holds |
| `floppy` | with missed seeks, time-outs and failed transfers, does a request touch its own bytes only, tell the truth, and end? | holds |
| `files` | does each path open what it names and each reference keep a driver state of its own, over mounts, links and failing calls? | holds |
| `console` | whatever bytes come, does the cursor stay on the screen but for numbers that overflow, is the memory behind it and the buffer safe, the cursor shown, the text kept, and does each sequence end? | holds |
| `loader_zero_fill` | is a segment the file's bytes followed by null bytes? | **no** |

Where the answer is *no*, the code does something a header, a comment or the configuration says it
does not. `PROJECT.json` ("findings") quotes the line for these and for the other disagreements met
while modelling; the ones without a run of their own were read off the code that the modules translate, and the modules do
what the code does (or, where the code leaves defined behaviour, exclude the case by an assumption below):

1. *kmalloc.asm:457.* A request wider than the arena tests a bit the root does not have, reads 0,
   and `allocate` descends below the leaves. Size 0 wraps to such a request.
2. *math.c:14.* The signed `clamp` moves reserved regions of an arena that crosses 2 GB to one of
   its ends; their own segments stay free.
3. *routine.asm:136.* On a spurious interrupt the tail jumps past the `add esp, 4` that drops
   pic_irq's argument, so everything is popped one word off. (A spurious interrupt of the slave is
   not ended at the master either.)
4. *scheduler.c:212, 112.* The first switch stores a stack pointer in descriptor -1. The count, one
   ahead of the processes, never equals the table's size: the creation after the table is full writes past it.
5. *scheduler.c:297.* Closing a file clears the pointer to the flags instead of the flag. The next
   open of that process looks for a zero byte from address 0 on and writes 1 there.
6. *rivendell.c:140.* The bytes of a segment that are in no file are cleared at its start.
7. *rivendell.c:136, 168, 237.* A negative result of vfs_read counts as read, and so does a short one; a segment with
   no bytes in the file fails to load (136).
8. *floppy.c:331.* A write is reported as done when the drive does not answer after it. `WriteExact`
   leaves out requests in which that happened.
9. *fat.c:862, 866.* Removing a directory with several entries leaves every second one's clusters
   taken, and a directory's own long name stays behind. `NothingLost` excepts that call.
10. *vfs.c:202, 215; procfs.c:363.* Error codes come back positive and count as success: open
    then hands out a descriptor for a reference to where the walk stopped, getdents counts entries.
11. *fatfs.c:172.* fatfs_list works through uninitialised pointers.
12. *console.c.* SGR 0 keeps the inversion (110); erasing keeps the last cell (272); CPL is tested for as
    CNL (237); a tab goes one cell past the stop (404); a sequence too long for the buffer is not ignored, its
    rest is printed (492).
13. *fat.c:1004.* The alias of a long name is unique only if the name has an extension and six characters
    or more before it.
14. *console.c:89.* Numbers in a sequence overflow: `ESC [ 4294967000 A` reads as -296, moves the cursor below
    the screen, and the next glyph is written there.

1, 2 and 4 have no run: the first two need requests or memory maps that the passing runs leave out, the
third is a write in front of the table, or one that the `scheduler` run ends at. 14 is what `InBounds`
leaves open in so many words. Smaller things seen on the way, which no document contradicts:
failed opens and a full descriptor table lose a driver state (syscall.c:118), as does the end of a
process (scheduler.c:153); the result of vfs_update is ignored (vfs.c:192); a mount
point's driver is looked for among the children of a node without any, in the interrupt table (vfs.c:99); `fd` and `exe` links
of procfs are not followed (procfs.c:180); readlink of `self` moves the directory's offset
(procfs.c:453); a failed load keeps its memory (rivendell.c:168); a table longer than the disk hands out
clusters past its end (fat.c:398); a reserved region that reaches the
rest of an arena whose blocks are a power of two is marked behind the leaves' table (kmalloc.asm:137); an arena of
fewer than eight leaves has no room for their table (kmalloc.asm:1010); a command byte is dropped without a
word when the controller is not ready (floppy.c:121), and a transfer may go one byte past its buffer (floppy.c:215, 311); a record of
getdents64 is as long as the other structure says (syscall.c:568); a read that ends where the disk ends asks for one more sector
(floppy.c:414).

### Bounds

* `kmalloc`: eight segments, three levels above the leaves: the smallest tree with a node that
  has both a proper ancestor other than the root and a proper descendant other than a leaf, so
  that stale summaries can lie above and below fresh ones. Requests of every size that fits; any
  number of calls; one or two segments taken out at boot. All 51,521 states.
* `kmalloc_boot`: 256 addresses and blocks of 8 bytes, with an arena of eight leaves (with room, with
  none, and with the whole tree in one rest that an entry may reach) or sixteen; a reserved region
  before, in or across the arena; the firmware at the top; either order; and one map that leaves an arena of
  four leaves. 7,468 states.
* `interrupts`: lines 0 (timer, switches), 1 (left to int_debug_handle, panics), 6 (null handler),
  14 (a slave's line with a handler); start and two processes, enough to leave a stack, run on
  another and come back to the first; EBX empty, a master's bit or a slave's bit. The
  glitch run has lines 7 and 15, the two that a withdrawn request looks like, and one process.
* `scheduler`: a table of three slots, one more than config.h's two, so that a hole can lie between
  processes; four creations, enough to fill the table, reuse a slot after a kill and step past the table; three
  files over three descriptors per process, one zero byte in the gates; memory of any contents, in the table and past
  it. 70,853 states.
* `disk`: five clusters of two sectors, four units each; three names in the root, one of them
  long (its entry has a part of its own before it, its alias is of the form that is found), one directory; one open file. Writes of 3 and 6 units
  cross and fill clusters; sizes up to 9 need three. Three creations fill the disk and the root's
  first cluster. 43,322 states.
* `floppy`: four sectors of three bytes on two cylinders and two heads; every range of bytes that fits;
  three tries of a seek for ten. One request: the driver keeps no state between requests but the
  position of the arm, and seeks before every transfer. 51,832 states.
* `files`: the root, `/proc` and `/` on FAT with one directory; two processes, one of them calling; one
  descriptor; fifteen paths that go into and out of mount points, through links and past the root;
  three resolutions for sixty-four; at most three driver states beside those in a call. 47,630 states.
* `console`: a screen of 2 by 2, so that every move meets an edge; a buffer of four bytes, so that sequences
  with two numbers fit and longer ones overflow. Ints from -28 to 27 and the digits 2, 7 and 8: 8 and 22 fit, 27 does and its sum with a coordinate does not,
  28 is the smallest int, and others wrap to either sign. 215,136 states.
* `loader_zero_fill`: two headers, two addresses and two sizes.

### Fairness

* `Kmalloc`: weak fairness of the steps inside a call: the processor goes on executing. Nobody
  must call.
* `Interrupts`: weak fairness of the tail. Between interrupts, only a strong fairness of the
  instruction that follows when *no* request is pending: after an `iret` with a request pending
  the processor takes the next interrupt first, and a timer fast enough would starve any program. So
  `WaitEnds` is claimed of behaviours that come back again and again to a point with nothing
  pending. Each device with a handler raises its line again and again (the timer runs freely, and
  the awaited device has been told to work), and a request that is the controllers' choice
  again and again is taken.
* `Scheduler`: weak fairness of the timer.
* `Floppy`: weak fairness of the driver's steps inside a request: every wait has a count. Whether the drive
  answers is not assumed.
* `Console`: weak fairness of `Next`: a sequence ends if bytes keep coming, whichever they are.
* `Fat`, `FileCalls`, `Loader`: none; no liveness is claimed.

### Assumptions of the passing runs

* `kmalloc_boot`: all memory lies in the lower half of the address space (`LowMemory`), where `clamp`'s signed
  comparison is right (finding 2).
* Nothing kills the first or the running process. scheduler_kill_process has no caller in the
  kernel; killing slot 0 would leave the wrap-around to go there unchecked.
* The table is as long as was asked for. kmalloc rounds the request up to a block of 1 KB, which holds fifteen
  descriptors, so that the first ones past the table meet slack that nobody else has; and krealloc is taken
  not to fail.
* `interrupts` has requests that stay until acknowledged; only start() waits, before any process
  exists: no code after that point calls int_wait, and a system call that did would sleep with
  interrupts off.
* `disk`: the table is exactly as long as the disk, and the first data sector lies
  between one and two clusters from the start. One handle per file, no seek past the end of a file, no
  directories in directories, and the root's first entry stays. After a write that ran out of room
  half-way, a chain leads to a free cluster; the disk is followed up to there (`Whole`).
* `floppy`: the disk is one whose sectors lie below the cylinder the remainder of `lba_to_chs` wraps at.
* `files`: the drive works (`DriveWorks`); with one that does not, chdir to `/` keeps a reference with a
  driver and no state. Nobody removes a directory another process is in, or uses a descriptor after
  a close.
* `files`, below a mount without children: vfs_findchld finds no name at address 16, in the interrupt table (vfs.c:99). That
  it does is not ruled out by the code, only unlikely: the name would have to stand there, byte by byte.
* `console`: an int's overflow wraps, as in a build without optimisation; in the language it is undefined.
* `kmalloc`: the requests fit the arena. `StaysInTree` and `NeverWild` say nothing of others (finding 1).
* Processor exceptions are not raised. All of them end in int_debug_handle, as `Panic` does.

## 4. Proofs

The theorems hold for every value of the constants that satisfies the named assumptions of the
modules; where a theorem needs more (`Steady`, `LowMemory`, `DriveWorks`, a limit of two or more
resolutions, requests that fit, a sound disk), it is a hypothesis in its statement. TLC checked every inductive invariant on the run's instance first.

### 4.1 The allocator

`Kmalloc_proofs` has the facts about the tree (levels, ancestors, nesting, leaves) and the theorems, for every number of levels, every set of requests and every choice
of reserved sets:

| Theorem | States |
|---|---|
| `TypeCorrect` | `[]TypeOK` |
| `Inductive` | `[]IInv` |
| `NeverOverlaps` | `[]NoOverlap`: no memory is handed out twice, none that boot took out |
| `NoFalseFailure` | `[]FailsOnlyWhenFull` |
| `ClimbCorrect` | `ClimbFindsBlock`: kmsz and krealloc find the very area |
| `NeverWild` | `[]StaysInTree`, if no request is wider than the arena |
| `MovesInBounds` | `[]MoveInBounds`: krealloc's copy reads and writes no area but the one it moves and the one it got |
| `HeapRefined` | each step of the allocator is a step of `BuddyHeap` or a stutter |

*The inductive invariant.* `NoOverlap` alone is not inductive: `Mark` keeps it only if the node found
is free, which rests on what the tree says of it, which rests on every summary between that node
and the areas in use. `IInv` says what each node means:

* an area in use is full at its node and empty below it (`TakenIsFull`, `TakenIsHollow`);
* no node above an area in use is empty (`TakenIsSeen`), one that is empty is empty all the way down
  (`EmptyBelow`), and one that is not has its top bit (`TopBit`);
* any other inner node is what `buddify` makes of its children (`Combined`);
* a bit is set only where every area of its size meets one in use (`BitsAreDue`), which gives
  `FailsOnlyWhenFull` at the root.

While `full_buddify` is on its way up, the proper ancestors of `cur` are stale and exempt;
`PointInv` adds what each point of the code knows. `ResultInv` is what the copy and the refinement need
besides: at every point of krealloc which area is to be replaced (`AtGrow`, `AtGiveUp`), that after the early
free nothing in use lies in it (`GivenUp`), that nothing else in use meets what memmove reads or
writes (`AtMove`), and that a call has no result before the heap has changed for it (`Unanswered`).

Each action has a lemma: `Mark`, `ClearLeaf` and `Buddify` change the tree (`MarkTreeInv`, `ClearTreeInv`, `BuddifyTreeInv`); all others leave it
alone (`QuietTreeInv`) and only have their point to account for. The induction over levels that these
arguments seem to need is avoided: `EmptyBelow` and `BitsAreDue` speak of all
descendants at once, so that a step up needs only the two children.

`HeapRefined` is `ImplementsHeap` without its fairness: the initial states map to initial
states; an entry maps to a call of the heap, `Mark` to `Grant`, a failed test of the root to `Refuse`,
`ClearLeaf` to `Release` or, in krealloc, `GiveUp`, `ClimbEnds` to `Measure` or `Keep`, `Return` to
`Answer`; all other steps stutter, the recomputation of ancestors above all. `Refuse` says that no free area
was large enough, which is where the exactness of the tree comes in.

The assumption on the constants that carries weight is that powers of two are given as a function
`Width` with its recurrence; the run evaluates it for the instance.

### 4.2 The interrupt tail

`Interrupts_proofs`, for every set of lines with their handlers and every number of processes. The
first four have the hypothesis `Steady == ~Glitches`: without it `interrupts_spurious` refutes them. The
last two hold with withdrawn requests too.

| Theorem | States |
|---|---|
| `TailInductive` | `[]TailInv` |
| `FramesIntact` | `[]FrameIntact`: what is popped is what was pushed, over switches as well |
| `NothingStuck` | `[]NothingLeftInService` |
| `EndsCorrectly` | `EndsItsOwn`, an action property |
| `ServedOnly` | `[]HandlesServedOnly`: a device's handler runs only while its line is in service; nothing is said of the system calls' number |
| `WaitsLongEnough` | `WaitsForIt`, an action property: int_wait returns after its interrupt only |

`FrameIntact` speaks of one point and one stack. Its inductive form `TailInv` says at every point of
the tail what the stack in use holds, and that every stack put aside is a whole frame, those
`isr_stub_stack` builds included: this is what makes a switch land on a frame. For the
controllers it says that the number on the stack, the lines in service and, from `CheckIrq` on,
the mask in EBX belong together; a system call has nothing in service, which is why the
commands that a program's EBX may cause end nothing. `LeaveLost` is never enabled then.

`WaitsForIt` needs an invariant of the fence (`FenceInv`): only start() is ever between int_lock and the
end of int_wait, and while it is there either the fence is up or the interrupt it was raised for has
come. A switch in between must not lose that, so it speaks of start's own point, whichever
context runs.

### 4.3 The scheduler

`Scheduler_proofs`, for every initial size of the table, every number of processes, descriptors and
files, and memory of any contents. The code leaves its table in the end, whatever its size; so the theorems
speak of all states up to the step that does (`astray`), after which the model has no other, and say how late it is.

| Theorem | States |
|---|---|
| `SchedulerInductive` | `[]SInv` |
| `DescriptorsDisjoint` | `[]OneDescriptorEach`; on memory that reads as zero the table is not left before there were as many creations as it has descriptors |
| `ContextsSafe` | `[]ContextsKept` |
| `CallerCorrect` | `[]CallerIsRunning` |
| `FilesSafe` | `[]FilesKept`, for as long as the process has closed nothing |

`SInv` adds to these properties why the search finds processes only, although `process_count`
counts a new descriptor twice and memory may hold any flag. Each process has a descriptor of the table to itself, below the
count, which is at most twice the number of creations (`CountIsPast`), so that a vacant slot is never
one in use. A descriptor that reads as in use and is nobody's holds no saved stack (`InUse`): going over to it is the
step that leaves the table, never a resumption of a process on another's stack. Slot 0, where the search
ends unchecked, is in use once there is a process. Nothing runs before the first switch (`NothingRuns`), and
a process not yet created holds no file (`Unborn`).

`Steady` is the part about memory that reads as zero: the flags set are the processes', the table
keeps its size, the count is one more than the number of creations, and below it there is always a hole, so that a new descriptor at
the count, which alone could grow the table, is taken by the first creation only.

### 4.4 The console

`Console_proofs`, for every width, height, tab distance, size of the buffer, largest int and set of bytes.

| Theorem | States |
|---|---|
| `ConsoleInvariant` | `[]CInv`, with `CInv == HasRoom /\ BehindIntact /\ SavedOnScreen /\ CursorShown` |
| `ConsoleInBounds` | `InBounds`: room in the buffer, nothing behind the screen written, the saved cursor on the screen; and the cursor leaves it by an overflowing number only |
| `ConsoleCursorShown` | `[]CursorShown` |
| `ConsoleTextKept` | `TextKept`, an action property |

`InBounds` has an action in it, `LeavesByNumber`: a step that takes the cursor off the screen is the last byte
of a sequence whose number is not within an int, less a margin for its sum with a coordinate (`Fits`). The code keeps no more
than that: it never looks at what con_next_int returns. So every other byte, and every other use of such a
number, must bring a cursor that is on the screen back onto it: the placing of the cursor and the scroll do, because
they clamp on both sides, the scroll by the smallest int included, whose `abs` is negative.

The parts of `CInv` are inductive only together: con_cursor tells the hardware of changes only, so
that the cursor shown is right after a step only if it was before, and a restored cursor is on the screen only if the saved
one was. The products of row and width are nonlinear, so the facts
about them (`RowsInArea`, `CellInArea`) are lemmas of their own; above them, `EraseBehind` and
`ScrollBehind` say that erasing and scrolling write nothing behind the screen, `GoOnInBounds` and
`AdjustInBounds` bring a cursor that left the screen in mid-step back, and there is one lemma per lexer.

### 4.5 Set-up of the arena

`KmallocBoot_proofs`, for every word and block size, kernel size, depth of the tree and set of memory maps
with free memory above the kernel. With fewer than eight leaves both say what holds up to `StrayTables`.

| Theorem | States |
|---|---|
| `TreeIsExact` | `[]TreeExact`: the tree `Kmalloc` starts from |
| `RegionsKeptOut` | `[]KeptOut`, under `LowMemory` |

*The tree.* Whenever nothing is under way each node is what its leaves make it (`Due`). While
`areafull_buddify` is on its way up, `Right` says which nodes are so already: all levels passed, and above
them every node that is no ancestor of a node between the first and the last. One round keeps it
because the parents of a span are the span of the halves (`SpanHalves`), and because what two exact
children combine to is exact (`CombineIsDue`). A span whose first leaf lies behind its last, which the
code does not exclude, is covered.

*What is kept out.* `KeptInv` has three parts. `TablesInv`: the tables laid so far fit, by a closed form of
their sum with its rounding (`Laid`); four bits per leaf are enough at the last level (`AllLaid`). `EndInv`:
each segment that holds a byte behind `end` is taken. `ReservedInv`: so is each segment that holds a byte of
an entry mem_init has passed (`Kept`). An entry's segments bracket its bytes because in the lower half
`clamp` brings an address to the nearest one of the arena (`SegmentsBracket`); a segment has no leaf
only past a power of two (`StrayAtEnd`); what is taken stays taken (`BlockedStays`).

### 4.6 Transfers of the floppy

`Floppy_proofs`, for every sector size, geometry, number of tries and of requests. The geometry's
assumption is that the disk's sectors lie below where `lba_to_chs` wraps.

| Theorem | States |
|---|---|
| `TransfersInductive` | `[]FloppyInv` |
| `WritesPreserve` | `[]Preserved`: a write that is to preserve leaves all other bytes alone |
| `ReadsAreExact` | `[]ReadExact` |
| `WritesAreExact` | `[]WriteExact` |

`FloppyInv` says where a request is and what its buffers hold there: the sector at hand is one of the
request's and `index` is where its part begins (`PositionInv`); a transfer finds the arm on that sector's cylinder
(`ArmInv`), which floppy_seek alone brings about and from which `UnderTheArm` concludes that the transfer meets
that sector; what was read so far is the disk's
(`ReadInv`); what was written so far is on the disk, and from `Fill` on `tmp` holds the caller's
bytes in the sector's part (`WriteInv`) and the disk's around it (`KeepInv`). That the parts of
the sectors follow one another without gap or overlap is `Parts`, and that the place `lba_to_chs` names is the
sector meant is `PlaceIsIdentity`. A transfer that breaks off has written some bytes of the part, or the disk's
own around it, which is why a failure preserves too.

### 4.7 The calls on files

`FileCalls_proofs`, for paths of any length and any names, any number of descriptors, driver states and
calls, and any limit on resolving; two processes, as in `Vfs`. All theorems have the hypothesis
`DriveWorks`: with a drive that fails, chdir to `/` keeps a reference that names a driver and has no state.

| Theorem | States |
|---|---|
| `InvHolds` | `[]Inv` |
| `ReferencesHeld` | `[]RefsHeld`: each reference has a live driver state of its own, and none is used or freed twice |
| `OpensWhatIsNamed` | `[]OpensWhatItNames`: vfs_open ends where the path leads |
| `ListsOnce` | `[]ListedOnce`: getdents on procfs passes no entry over and lists none twice |
| `LeaksNothing` | `NothingLeaks`, an action property: a call that succeeds loses no state |
| `TracedBack` | `[]TracesBack`: vfs_trace writes the path of the working directory, if `MaxResolves >= 2` (64 in the code) |

*The inductive invariant.* `RefsHeld` is not inductive: that each reference has *a* live state says nothing of
what a walk does from it. `Inv` has five parts: the types (`TypeInv`); each open file and each working
directory leads to a state of the driver mounted at its node (`HeldIn`); no two of them lead to the same
one (`Apart`), without which a close would take another reference's state away; a working
directory is no link, and its offset is the depth of its state below the mount, unless it was reached over a link
that procfs does not follow (`CwdIn`), which is what `..` and vfs_trace go by; and the offset of a directory being
listed is one entry past the last one listed (`ListIn`).

*A call.* Inside a call the heap is the one before it and at most one state more, the one the call's own
reference leads to: `Owned(m, h, p)` says that, `Bare(m, h, p)` that there is none, and each operation of
`Vfs` has a lemma that says which of the two it needs and which it leaves. `Update` is the one that
matters: it closes the old driver's state before it asks the new driver for one. So a call ends in the
heap it started from, with one state more if it succeeded, and `NothingLeaks` and `Apart`
follow. There is one lemma per action of `FileCalls` (`OpenFine`, `ChdirFine`, ...), error paths included.

*The walks.* What vfs_open and vfs_trace do for a path of any length is an induction over the turns of
their loops (`Turns`, from the least-number principle `LeastNatural`): `Sits` relates the
reference at each turn to the path that the sections so far name. For vfs_trace two turns are
enough in this system of mounts, whatever the path: a trace that meets FAT below the mount is stopped (`wild`), and procfs is
two levels deep.

### 4.8 The chains of the disk

`FatDisk_proofs`, for every geometry, every table, chain, cursor and number of units. These are theorems about the
operators of `FatDisk`, the functions of fat.c one call of the volume is made of; what they need of the state is a
hypothesis.

| Theorem | States |
|---|---|
| `WalksTheChain` | fat_fread and fat_file_cluster_count follow the chain that is in the table, whatever an earlier call left in the cache |
| `ReadsTheFile` | fat_fread returns the file's own units from the cursor on, no further than its end, moves the cursor by as many and changes nothing on the disk |
| `WritesTheFile` | fat_fwrite's loop puts the units at the cursor, in the file's clusters and then in clusters that were free, as few as needed; nothing else is touched, not even when the disk runs full half way |
| `WritesNoOtherFile` | a chain that shares no cluster with the file written shares none afterwards, is the chain it was and holds what it held |
| `FWriteWritesThrough` | fat_fwrite of an open file leaves an open file, its entry in the directory equal to the driver's copy of it; cut short, it leaves both as they were |
| `ReadsBackTheWrite` | what fat_fwrite wrote, fat_fread returns from the same place |
| `RemovesTheChain` | fat_remove_fat_chain frees the clusters of the chain and no other |

*The hypotheses.* `Disk`: the table and its backup agree and the clusters hold what a cluster holds. `IsChain`: distinct
clusters of the disk, each entry naming the next, the last one an end. `Fills`: a file's size ends in its last
cluster, which fat_fread's arithmetic on unsigned numbers relies on. `Separate`: two chains have no cluster in common.
`OpenFile`: a handle with its chain, its size, and its entry at its place in the directory, which is another chain.
Two more are about the geometry. The search for a free cluster is bounded by the sectors of the whole disk, reserved ones and
tables included, so that it may find an entry past the last cluster; and a write that closes a chain clears "cluster"
0x0FFFFFFF, which wraps round to sectors before the data area and may zero entries of a table. `Unwiped` says that the entries
so zeroed are free ones, `HasRoom` that the write fits the clusters of the file or comes to no cluster past the last and
to none of those entries. They are hypotheses on the state and the call, not assumptions on the constants:
an image whose table is larger than its disk satisfies both until the disk is nearly full.

*The argument.* The loops are functions of their turns, and each proof is an induction over them (`Turns`, from
`LeastNatural`). A walk has passed the first *k* clusters of the chain, through a cache that agrees with the table
(`Passed`, `Coherent`); the search has seen no free entry so far (`Sought`); a read has the file's units up to the end
of the *i*-th cluster (`Got`). A write is in one of three states (`WriteState`): `AtWork` at the *k*-th cluster of a
chain that extends the file's by clusters that were free, with the units so far laid over what the file held; `Finished`; or `OutOfRoom`. One
lemma for each branch of the loop (`WriteFollows`, `WriteCloses`, `WriteExtends`) takes a turn. That the
turns are enough is the pigeonhole: the clusters of a chain are distinct, and there are fewer than the table has entries.

These are the parts of `ChainsApart`, `HandlesAgree` and `ReadsBack` that a read or a write through a handle can
disturb: the chains stay apart, the entry stays in step with the handle, and what was written is read. They say nothing of
the calls that create, open or remove by name, and are not composed into theorems of `Fat`'s specification.

### 4.9 Only model-checked

* Liveness under fairness, which is beyond the prover: `CallsReturn`, `WaitEnds`,
  `EveryoneRuns`, `RequestEnds`, `SequenceEnds`, and the fairness in `ImplementsHeap`.
* The disk as a whole: `ChainsApart`, `HandlesAgree`, `ReadsBack`, `NothingLost`, and the refinement `StoreSpec`.
  Finding, making and removing a directory entry (`FatDir`), and the tree of directories that `MCFat` reads off the disk, are
  recursive operators, which the prover cannot reason about; 4.8 has the part that is about chains.
* `Loader`: its property is violated.

## 5. Not modelled, and what is left

* sys_brk and scheduler_move_process: they move the memory of a running program, registers and saved
  stack pointers included. A model needs the program's own addresses; none of the modules has them.
* The failing paths of create_process (interrupts stay off), which only start() can meet, just before it
  halts.
* The layouts of stat and getdents records, uname, dates, attributes and the printing helpers of fat.c and
  vfs.c: no state that a property is about.
* Formatted printing; the boot loader (16-bit straight-line code against the BIOS); the image builder, the
  disk viewer and the sample program; gput and grm, which have no caller.

Worth doing next:

1. Proofs about directories: the recursive operators of `FatDir` and `MCFat` as functions of the turns of
   their loops, as in `FatDisk`, and an invariant of table, directories and handles together, with which the theorems
   of 4.8 become theorems of `Fat`'s specification.
2. A composition of `Interrupts` and `Scheduler`, in which `Switch` takes the scheduler's choice and a
   corrupted gate is a gate.
3. `Fat` on `Floppy`: a failed or half-done sector in the middle of a call of the volume.
