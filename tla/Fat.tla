-------------------------------- MODULE Fat ----------------------------------
(***************************************************************************)
(* The FAT volume as its binding drives it (src/src/kernel/fatfs.c): what  *)
(* the virtual file system's open, close, read, write, seek, mkdir, unlink *)
(* and rmdir do to the disk, and a restart, which loses the cache and the  *)
(* handles and keeps the disk.  A call runs to its end: interrupts are off *)
(* in system calls.                                                        *)
(***************************************************************************)
EXTENDS FatDir

CONSTANTS ShortNames, DirNames, Handles, Values, Lengths, MaxSize, MaxMade,
          None       \* a model value: no file

VARIABLES disk,      \* the volume and the driver's cached sector
          handles,   \* per reference of the virtual file system, the file it holds
          made       \* bound: entries created so far, at most MaxMade

vars == <<disk, handles, made>>

Names == ShortNames \cup LongNames
Kept == "readme"                     \* the image's first entry; never removed
Datum(v) == [t |-> "data", v |-> v]

\* The image: the root's chain ends in the mark mkfs writes, and its first
\* entry is a file with a short name.
ImageEntry == [Entry(<<Kept, 0>>, FALSE, Root + 1) EXCEPT !.size = 1]
ImageTable ==
  [c \in 0 .. Entries - 1 |->
     CASE c \in {0, 1, Root} -> OtherEnd [] c = Root + 1 -> End [] OTHER -> Free]
ImageUnit(c, i) ==
  IF i = 1 /\ c = Root THEN ImageEntry
  ELSE IF i = 1 /\ c = Root + 1 THEN Datum(CHOOSE v \in Values : TRUE) ELSE Zero

Init ==
  /\ disk = [fat |-> ImageTable, backup |-> ImageTable, cache |-> NoCache,
             data |-> [c \in Root .. Last |-> [i \in 1 .. PerCluster |-> ImageUnit(c, i)]]]
  /\ handles = [h \in Handles |-> None]
  /\ made = 0

---------------------------------------------------------------------------
\* fat_opendir: the root, or a directory in it.
Dir(d, where) == IF where = "" THEN [disk |-> d, found |-> TRUE, file |-> RootDir]
                 ELSE Find(d, Root, where, TRUE)

OpenHandles == {h \in Handles : handles[h] # None}

\* The file is open already.
Busy(f) == \E h \in OpenHandles : handles[h].parent = f.parent /\ handles[h].pos = f.pos

\* Bound: a disk is followed up to the first write that ran out of room half
\* way, which leaves a chain that leads to a free cluster, and to the first
\* use of a cluster that is not on the disk.
Used(d) == {c \in DOMAIN d.fat : c >= Root /\ d.fat[c] # Free}
Whole(d) == \A c \in Used(d) : c <= Last /\ (d.fat[c] >= Root => d.fat[d.fat[c]] # Free)

Open(h, where, name, mode) ==
  /\ Whole(disk) /\ handles[h] = None
  /\ \E p \in {Dir(disk, where)} : p.found /\
     \E old \in {Find(p.disk, p.file.entry.first, name, FALSE)} :
     \E r \in {OpenFound(old, p.file, name, mode)} :
       /\ ~(old.found /\ Busy(old.file))
       /\ disk' = r.disk
       /\ handles' = IF r.ok THEN [handles EXCEPT ![h] = r.file] ELSE handles
       /\ made' = IF old.found \/ mode = "r" THEN made ELSE made + 1
       /\ made' <= MaxMade

Close(h) ==
  /\ h \in OpenHandles
  /\ handles' = [handles EXCEPT ![h] = None]
  /\ UNCHANGED <<disk, made>>

Read(h, n) ==
  /\ Whole(disk) /\ h \in OpenHandles
  /\ \E r \in {FRead(disk, handles[h], n)} :
       disk' = r.disk /\ handles' = [handles EXCEPT ![h] = r.file]
  /\ UNCHANGED made

Write(h, units) ==
  /\ Whole(disk) /\ h \in OpenHandles
  /\ handles[h].cursor + Len(units) <= MaxSize
  /\ \E r \in {FWrite(disk, handles[h], units)} :
       disk' = r.disk /\ handles' = [handles EXCEPT ![h] = r.file]
  /\ UNCHANGED made

\* fat_fseek; a cursor past the end of the file is left out.
Seek(h, to) ==
  /\ h \in OpenHandles /\ to <= handles[h].entry.size
  /\ handles' = [handles EXCEPT ![h].cursor = to]
  /\ UNCHANGED <<disk, made>>

MakeDir(name) ==
  /\ Whole(disk)
  /\ made < MaxMade
  /\ disk' = CreateDir(Find(disk, Root, name, TRUE), RootDir, name).disk
  /\ made' = made + 1
  /\ UNCHANGED handles

Remove(where, name) ==
  /\ Whole(disk)
  /\ \E p \in {Dir(disk, where)} : p.found /\
     \E r \in {Find(p.disk, p.file.entry.first, name, FALSE)} :
       /\ r.found /\ ~Busy(r.file)
       /\ disk' = RemoveFile(r.disk, r.file)
  /\ UNCHANGED <<handles, made>>

RemoveDirectory(name) ==
  /\ Whole(disk)
  /\ \E p \in {Dir(disk, name)} :
       /\ p.found
       /\ \A h \in OpenHandles : handles[h].parent # p.file.entry.first
       /\ disk' = RemoveDir(p.disk, p.file, 0)
  /\ UNCHANGED <<handles, made>>

Restart ==
  /\ disk' = Invalidate(disk)
  /\ handles' = [h \in Handles |-> None]
  /\ UNCHANGED made

\* Bound: where files are made, as <<directory, name>>.
Spots == ({""} \X ((LongNames \ DirNames) \cup {"b"})) \cup (DirNames \X ShortNames)
Transfers == UNION {[1 .. n -> {Datum(v) : v \in Values}] : n \in Lengths}

Next ==
  \/ \E h \in Handles :
       \/ \E p \in Spots, mode \in {"r", "w", "a"} : Open(h, p[1], p[2], mode)
       \/ Close(h)
       \/ \E n \in Lengths : Read(h, n)
       \/ \E units \in Transfers : Write(h, units)
       \/ \E to \in {0} \cup Lengths : Seek(h, to)
  \/ \E name \in DirNames : MakeDir(name) \/ RemoveDirectory(name)
  \/ \E p \in Spots : Remove(p[1], p[2])
  \/ Restart

Spec == Init /\ [][Next]_vars
=============================================================================
