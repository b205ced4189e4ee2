------------------------------- MODULE FatDir --------------------------------
(***************************************************************************)
(* The directories of the FAT volume (src/src/kernel/fat.c): finding,      *)
(* creating and removing entries, and opening files.  A name is a model    *)
(* value; a long one takes a single long-name entry before its short       *)
(* entry, whose own name is the alias <<"~", n>>.  All long names share    *)
(* the prefix an alias is made of.                                         *)
(***************************************************************************)
EXTENDS FatDisk

CONSTANTS LongNames,
          Extended    \* the long names with an extension and at least six
                      \* characters before it

Max0(S) == IF S = {} THEN 0 ELSE CHOOSE x \in S : \A y \in S : y <= x
Min0(S) == IF S = {} THEN 0 ELSE CHOOSE x \in S : \A y \in S : x <= y

Dot == "."
DotDot == ".."

Entry(name, isDir, first) ==
  [t |-> "entry", name |-> name, isDir |-> isDir, first |-> first, size |-> 0, gone |-> FALSE]
LongPart(name) == [t |-> "long", name |-> name, gone |-> FALSE]

\* A file or a directory as the driver holds it: its entry, where that entry
\* is, the long name it was found under ("" when it has none), the cursor.
Handle(entry, pos, parent, long) ==
  [entry |-> entry, pos |-> pos, parent |-> parent, long |-> long, cursor |-> 0]
RootDir == Handle(Entry(<<"root", 0>>, TRUE, Root), 0, 0, "")

IsLive(u) == u.t = "entry" /\ ~u.gone

---------------------------------------------------------------------------
(* Scanning a directory.  fat_find_full calls fat_fread for every entry,   *)
(* and each call walks the whole chain: the cache ends as after one walk.  *)

\* A directory as a file: it is as long as its chain.
AsFile(d, first) ==
  Handle([Entry(<<"", 0>>, TRUE, first) EXCEPT !.size = ClusterCount(d, first).count * PerCluster],
         0, 0, "")

\* The units of a directory up to its first zeroed entry.
UpToEnd(r, end) ==
  [disk |-> r.disk, units |-> IF end = 0 THEN r.out ELSE SubSeq(r.out, 1, end - 1)]
Cut(r) == UpToEnd(r, Min0({i \in 1 .. Len(r.out) : r.out[i] = Zero}))
ScanFile(d, f) == Cut(FRead(d, f, f.entry.size))
Scan(d, first) == ScanFile(d, AsFile(d, first))

\* The long name in force at entry i: the last long-name entry met since the
\* live entry before it.  Deleted entries of either kind are passed over.
LongAt(u, i) ==
  LET before == Max0({j \in 1 .. i - 1 : IsLive(u[j])})
      long == Max0({j \in before + 1 .. i - 1 : u[j].t = "long" /\ ~u[j].gone})
  IN IF long = 0 THEN "" ELSE u[long].name

NameAt(u, i) == IF LongAt(u, i) = "" THEN u[i].name[1] ELSE LongAt(u, i)

Opened(u, i, first) == Handle(u[i], i - 1, first, LongAt(u, i))

Found(r, i, first) ==
  [disk |-> r.disk, found |-> i # 0, file |-> IF i = 0 THEN RootDir ELSE Opened(r.units, i, first)]

\* fat_find of one path component.
FindIn(r, u, first, name, isDir) ==
  Found(r, Min0({i \in 1 .. Len(u) :
                   IsLive(u[i]) /\ u[i].isDir = isDir /\ NameAt(u, i) = name}), first)
FindScan(r, first, name, isDir) == FindIn(r, r.units, first, name, isDir)
Find(d, first, name, isDir) == FindScan(Scan(d, first), first, name, isDir)

\* fat_readdir at the directory's cursor, which counts live entries.
LiveBefore(u, i) == Cardinality({j \in 1 .. i - 1 : IsLive(u[j])})
EntryAt(r, u, first, cursor) ==
  Found(r, Min0({i \in 1 .. Len(u) : IsLive(u[i]) /\ LiveBefore(u, i) = cursor}), first)
ReadDirScan(r, first, cursor) == EntryAt(r, r.units, first, cursor)
ReadDir(d, first, cursor) == ReadDirScan(Scan(d, first), first, cursor)

---------------------------------------------------------------------------
(* Creating.                                                               *)

\* The search for the alias of a long name looks at files only, and for a name
\* without an extension, or with fewer characters, at a form no entry reads as:
\* it takes the first number then, whoever has it.
FreeAlias(u, name) ==
  LET taken(n) == name \in Extended /\
        \E i \in 1 .. Len(u) : IsLive(u[i]) /\ ~u[i].isDir /\ u[i].name = <<"~", n>>
  IN <<"~", Min0({n \in 1 .. Len(u) + 1 : ~taken(n)})>>
ShortName(d, first, name) ==
  IF name \in LongNames THEN FreeAlias(Scan(d, first).units, name) ELSE <<name, 0>>

\* The loop that looks for "need" free entries in a row and extends the
\* directory p when it comes to its end.
RECURSIVE Slot(_, _, _, _, _)
SlotAfter(r, p, off, run, need) ==
  IF run >= need THEN [disk |-> r.disk, ok |-> TRUE, pos |-> off]
  ELSE Slot(r.disk, p, off + 1, run, need)
\* A read that yields nothing leaves the buffer as it was zeroed.
IsFree(out) == out = <<>> \/ out[1] = Zero \/ out[1].gone
SlotAt(r, p, off, run, need) ==
  SlotAfter(r, p, off, IF IsFree(r.out) THEN run + 1 ELSE 0, need)
SlotIn(w, off, run, need) ==
  IF w.ok THEN SlotAt(FRead(w.disk, [w.file EXCEPT !.cursor = off], 1), w.file, off, run, need)
  ELSE [disk |-> w.disk, ok |-> FALSE, pos |-> 0]
Slot(d, p, off, run, need) ==
  SlotIn(IF off + 1 > p.entry.size THEN FWrite(d, [p EXCEPT !.cursor = off + 1], <<Zero>>)
         ELSE [disk |-> d, file |-> p, ok |-> TRUE], off, run, need)

\* fat_update_lfn(file, 0): the long name written before the entry.
WriteLong(d, f) ==
  IF f.long = "" THEN d
  ELSE WriteChain(ClusterCount(d, f.parent).disk, f.parent, f.pos - 1, <<LongPart(f.long)>>).disk

\* fat_create in the directory dir: a slot, then a cluster, then the entries.
Claim(d, c) == ClearCluster(WriteEntry(d, c, End), c)
Enter(d, f) ==
  [disk |-> WriteLong(UpdateEntry(Claim(d, f.entry.first), f), f), ok |-> TRUE, file |-> f]
Failed(d) == [disk |-> d, ok |-> FALSE, file |-> RootDir]
CreateWith(free, pos, dir, name, short, isDir) ==
  IF free.cluster = 0 THEN Failed(free.disk)
  ELSE Enter(free.disk, Handle(Entry(short, isDir, free.cluster), pos, dir.entry.first,
                               IF name \in LongNames THEN name ELSE ""))
CreateIn(slot, dir, name, short, isDir) ==
  IF slot.ok
  THEN CreateWith(FreeFrom(Invalidate(slot.disk), Root), slot.pos, dir, name, short, isDir)
  ELSE Failed(slot.disk)
Create(d, dir, name, isDir) ==
  CreateIn(Slot(ClusterCount(d, dir.entry.first).disk,
                [dir EXCEPT !.entry.size = AsFile(d, dir.entry.first).entry.size],
                0, 0, IF name \in LongNames THEN 2 ELSE 1),
           dir, name, ShortName(d, dir.entry.first, name), isDir)

\* fat_create_file, which fails when there is such a file
CreateFile(r, dir, name) ==
  IF r.found THEN Failed(r.disk) ELSE Create(r.disk, dir, name, FALSE)

\* fat_create_dir: the new directory gets its "." and "..".
PutDotDot(w, parent) ==
  IF w.ok THEN FWrite(w.disk, [w.file EXCEPT !.cursor = 1], <<Entry(<<DotDot, 0>>, TRUE, parent)>>)
  ELSE w
PutDots(c) ==
  IF c.ok
  THEN PutDotDot(FWrite(c.disk, c.file, <<Entry(<<Dot, 0>>, TRUE, c.file.entry.first)>>),
                 c.file.parent)
  ELSE c
CreateDir(r, dir, name) ==
  IF r.found THEN Failed(r.disk) ELSE PutDots(Create(r.disk, dir, name, TRUE))

\* Mutant: a truncated file's first cluster stays marked free.
EmptiedUnmarked(d, f) ==
  [disk |-> RemoveChain(UpdateEntry(d, f), f.entry.first), ok |-> TRUE, file |-> f]

\* fat_fopen, r being what fat_find of the name found
Emptied(d, f) ==
  [disk |-> WriteEntry(RemoveChain(UpdateEntry(d, f), f.entry.first), f.entry.first, End),
   ok |-> TRUE, file |-> f]
OpenFound(r, dir, name, mode) ==
  CASE r.found /\ mode = "w" -> Emptied(r.disk, [r.file EXCEPT !.entry.size = 0])
    [] r.found /\ mode = "a" -> [disk |-> r.disk, ok |-> TRUE,
                                 file |-> [r.file EXCEPT !.cursor = r.file.entry.size]]
    [] mode = "r" -> [disk |-> r.disk, ok |-> r.found, file |-> r.file]
    [] OTHER -> CreateFile(r, dir, name)

---------------------------------------------------------------------------
(* Removing.                                                               *)

\* fat_update_lfn(file, 1): the long-name entries before the entry marked
\* free, walking back while entries are of that kind, the free ones included.
RECURSIVE RemoveLong(_, _, _)
RemoveLongAt(r, parent, pos) ==
  IF r.out[1].t = "long"
  THEN RemoveLong(WriteChain(r.disk, parent, pos, <<[r.out[1] EXCEPT !.gone = TRUE]>>).disk,
                  parent, pos - 1)
  ELSE r.disk
RemoveLong(d, parent, pos) ==
  IF pos < 0 THEN d
  ELSE RemoveLongAt(FRead(d, [AsFile(d, parent) EXCEPT !.cursor = pos], 1), parent, pos)

\* Mutant: a removed entry's clusters are not freed.
DropEntry(d, f) == UpdateEntry(d, [f EXCEPT !.entry.gone = TRUE])

Drop(d, f) == RemoveChain(UpdateEntry(d, [f EXCEPT !.entry.gone = TRUE]), f.entry.first)

\* Mutant: the long name of a removed file stays.
RemoveFileKeepLong(d, f) == Drop(ClusterCount(d, f.parent).disk, f)

\* fat_fremove
RemoveFile(d, f) == Drop(IF f.long = "" THEN ClusterCount(d, f.parent).disk
                         ELSE RemoveLong(d, f.parent, f.pos - 1), f)

\* fat_dirremove: what is at the cursor is removed by name, and the cursor
\* moves on over a list that has just got shorter.
RECURSIVE RemoveDir(_, _, _)
RemoveMember(m, dir, cursor) ==
  RemoveDir(IF ~m.found THEN m.disk
            ELSE IF m.file.entry.isDir THEN RemoveDir(m.disk, m.file, 0)
            ELSE RemoveFile(m.disk, m.file), dir, cursor + 1)
RemoveNext(r, name, dir, cursor) ==
  CASE ~r.found -> Drop(r.disk, dir)
    [] r.found /\ name \in {Dot, DotDot} -> RemoveDir(r.disk, dir, cursor + 1)
    [] OTHER -> RemoveMember(Find(r.disk, dir.entry.first, name, r.file.entry.isDir), dir, cursor)
RemoveRead(r, dir, cursor) ==
  RemoveNext(r, IF r.file.long = "" THEN r.file.entry.name[1] ELSE r.file.long, dir, cursor)
RemoveDir(d, dir, cursor) == RemoveRead(ReadDir(d, dir.entry.first, cursor), dir, cursor)
=============================================================================
