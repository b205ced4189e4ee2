------------------------------- MODULE FatDisk -------------------------------
(***************************************************************************)
(* The clusters of the FAT volume (src/src/kernel/fat.c): the table and    *)
(* its backup, the one-sector cache in front of it, and the functions that *)
(* read, extend and free a chain of clusters.  Everything is counted in    *)
(* units of 32 bytes, the size of a directory entry; a unit of a file is   *)
(* one opaque value.  Bad clusters (0x0FFFFFF7) do not occur in the image. *)
(***************************************************************************)
EXTENDS Integers, Sequences, FiniteSets

CONSTANTS PerCluster,      \* units in a cluster
          PerSector,       \* table entries in a sector
          SecPerClus, RsvdSecCnt, FATSz, TotSec    \* the BPB's geometry

FirstDataSector == RsvdSecCnt + 2 * FATSz
Entries == FATSz * PerSector
Last == (TotSec - FirstDataSector) \div SecPerClus + 1   \* last cluster on the disk
Root == 2

Free == 0
End == -1                  \* 0x0FFFFFFF, the mark fat.c writes
OtherEnd == -2             \* 0x0FFFFFF8 .. 0x0FFFFFFE, marks the image may hold

ASSUME Geometry ==
  /\ {PerCluster, PerSector, SecPerClus, RsvdSecCnt, FATSz, TotSec} \subseteq Nat \ {0}
  /\ Last \in Root .. Entries - 1

Zero == [t |-> "zero"]
Lesser(x, y) == IF x < y THEN x ELSE y

---------------------------------------------------------------------------
(* A disk is a record: the table, its backup, the units of each cluster    *)
(* and the driver's cached sector.                                         *)

NoCache == [sector |-> -1, copy |-> <<>>]
Invalidate(d) == [d EXCEPT !.cache = NoCache]

\* The backup follows the table on the disk, and is what lies past its end.
TableEntry(d, c) == IF c < Entries THEN d.fat[c] ELSE d.backup[c - Entries]

\* fat_read_fat_entry with the cache: the disk once the sector of entry c is
\* in the cache, where CachedEntry finds it.
Cached(d, c) ==
  LET s == c \div PerSector
  IN IF d.cache.sector = s THEN d
     ELSE [d EXCEPT !.cache =
             [sector |-> s,
              copy |-> [i \in 0 .. PerSector - 1 |-> TableEntry(d, s * PerSector + i)]]]

CachedEntry(d, c) == d.cache.copy[c % PerSector]

WriteEntry(d, c, value) == [d EXCEPT !.fat[c] = value, !.backup[c] = value]

\* Clearing "cluster" 0x0FFFFFFF wraps to the sectors before the data area:
\* what of the two tables lies there is zeroed.
Wiped(table) ==
  {c \in 0 .. Entries - 1 :
     (RsvdSecCnt + (table - 1) * FATSz + c \div PerSector) - (FirstDataSector - 3 * SecPerClus)
        \in 0 .. SecPerClus - 1}

ClearCluster(d, c) ==
  IF c = End
  THEN [d EXCEPT !.fat = [i \in DOMAIN @ |-> IF i \in Wiped(1) THEN Free ELSE @[i]],
                 !.backup = [i \in DOMAIN @ |-> IF i \in Wiped(2) THEN Free ELSE @[i]]]
  ELSE IF c \in Root .. Last
  THEN [d EXCEPT !.data[c] = [i \in 1 .. PerCluster |-> Zero]]
  ELSE d

---------------------------------------------------------------------------
(* Reading.                                                                *)

\* A turn of the loops that follow a chain: the entry of the cluster "at" is
\* read, which ends the walk when it is none of a cluster's.
Pass(d, w) ==
  [disk |-> d, at |-> CachedEntry(d, w.at),
   chain |-> IF CachedEntry(d, w.at) = Free THEN w.chain ELSE Append(w.chain, w.at)]
WalkOn(w) == IF w.at < Root THEN w ELSE Pass(Cached(w.disk, w.at), w)

\* The walk from a cluster, turn by turn.
Walk(d, first) ==
  LET turn[k \in 0 .. Entries + 1] ==
        IF k = 0 THEN [disk |-> d, at |-> first, chain |-> <<>>] ELSE WalkOn(turn[k - 1])
  IN  turn

\* Mutant: the cached sector of an earlier call is trusted.
CachedWalkStale(d, first) == Walk(d, first)[Entries + 1]

\* The chain that starts at a cluster, every walk on a fresh cache.
CachedWalk(d, first) == Walk(Invalidate(d), first)[Entries + 1]

\* fat_file_cluster_count
Counted(w) == [disk |-> w.disk, count |-> Len(w.chain)]
ClusterCount(d, first) == Counted(CachedWalk(d, first))

\* The units [from+1 .. from+count] of the i-th cluster that a transfer of n
\* units at the file's cursor takes, "done" of them taken before, when "part"
\* units of that cluster may be used.
Slice(cursor, n, i, done, part) ==
  LET wanted == IF n > part + done THEN part ELSE n - done
      skip == IF i * PerCluster - cursor <= PerCluster
              THEN PerCluster - (i * PerCluster - cursor) ELSE 0
  IN IF i * PerCluster <= cursor THEN [from |-> 0, count |-> 0]
     ELSE [from |-> skip,
           count |-> IF wanted + skip > part THEN wanted - (wanted + skip - part) ELSE wanted]

PartSize(size, i) == IF i * PerCluster > size
                     THEN PerCluster - (i * PerCluster - size) ELSE PerCluster

\* What a read has after the i-th cluster, c, when it had "out" before.
Taken(d, c, cursor, size, n, i, out) ==
  LET s == Slice(cursor, n, i, Len(out), PartSize(size, i))
  IN  out \o SubSeq(d.data[c], s.from + 1, s.from + s.count)

\* The units read, cluster by cluster.
Gather(d, chain, cursor, size, n) ==
  LET turn[i \in 0 .. Len(chain)] ==
        IF i = 0 THEN <<>> ELSE Taken(d, chain[i], cursor, size, n, i, turn[i - 1])
  IN  turn

\* fat_fread of n units: the units and the file with its cursor moved.
ReadOut(d, f, out) == [disk |-> d, out |-> out, file |-> [f EXCEPT !.cursor = @ + Len(out)]]
ReadAlong(w, f, n) ==
  ReadOut(w.disk, f, Gather(w.disk, w.chain, f.cursor, f.entry.size, n)[Len(w.chain)])
FRead(d, f, n) == ReadAlong(CachedWalk(d, f.entry.first), f, n)

---------------------------------------------------------------------------
(* Writing.                                                                *)

\* The first free cluster from c up; the limit is only looked at after an
\* increment.  0 when there is none.
Look(d, w) ==
  CASE CachedEntry(d, w.at) = Free ->
         [disk |-> d, at |-> w.at, over |-> TRUE, cluster |-> w.at]
    [] CachedEntry(d, w.at) # Free ->
         [disk |-> d, at |-> w.at + 1, over |-> (w.at + 1) * SecPerClus >= TotSec, cluster |-> 0]
Search(w) == IF w.over THEN w ELSE Look(Cached(w.disk, w.at), w)
Searched(d, c) ==
  LET turn[k \in 0 .. TotSec] ==
        IF k = 0 THEN [disk |-> d, at |-> c, over |-> FALSE, cluster |-> 0]
                 ELSE Search(turn[k - 1])
  IN  turn
FreeFrom(d, c) == Searched(d, c)[TotSec]

\* A part of a cluster written; a cluster past the end of the disk takes nothing.
PutUnits(d, c, from, units) ==
  IF c \notin Root .. Last THEN d
  ELSE [d EXCEPT !.data[c] = [i \in 1 .. PerCluster |->
          IF i - from \in 1 .. Len(units) THEN units[i - from] ELSE @[i]]]

Link(d, c, to) == ClearCluster(WriteEntry(d, c, to), to)

\* A turn of the loop of fat_fwrite, at the i-th cluster, "at": its entry is
\* followed or, at the end of the chain, replaced; then its part is written.
Transfer(w, d, cursor, units, to) ==
  LET s == Slice(cursor, Len(units), w.i, w.done, PerCluster)
  IN  [disk |-> PutUnits(d, w.at, s.from, SubSeq(units, w.done + 1, w.done + s.count)),
       at |-> to, i |-> w.i + 1, done |-> w.done + s.count, ok |-> TRUE]
Extend(w, free, cursor, units) ==
  IF free.cluster = 0 THEN [w EXCEPT !.disk = free.disk, !.at = Free, !.ok = FALSE]
  ELSE Transfer(w, Link(free.disk, w.at, free.cluster), cursor, units, free.cluster)
WriteOn(w, cursor, units) ==
  LET next == w.disk.fat[w.at]
      fits == cursor + Len(units) <= w.i * PerCluster
  IN CASE w.at < Root -> w
       [] w.at >= Root /\ next >= Root -> Transfer(w, w.disk, cursor, units, next)
       [] w.at >= Root /\ next < Root /\ fits ->
            Transfer(w, IF next = End THEN w.disk ELSE Link(w.disk, w.at, End),
                     cursor, units, End)
       [] w.at >= Root /\ next < Root /\ ~fits ->
            Extend(w, FreeFrom(Invalidate(w.disk), w.at + 1), cursor, units)

\* The loop, turn by turn; no cluster is met twice.
Writing(d, first, cursor, units) ==
  LET turn[k \in 0 .. Entries] ==
        IF k = 0 THEN [disk |-> d, at |-> first, i |-> 1, done |-> 0, ok |-> TRUE]
                 ELSE WriteOn(turn[k - 1], cursor, units)
  IN  turn

WriteChain(d, first, cursor, units) == Writing(d, first, cursor, units)[Entries]

\* fat_update_entry: the file's 32-byte entry rewritten in its directory.
UpdateEntry(d, f) ==
  IF f.parent < Root THEN d
  ELSE WriteChain(ClusterCount(d, f.parent).disk, f.parent, f.pos, <<f.entry>>).disk

\* fat_fwrite: the size follows the cursor, and the entry follows the size.
Grown(d, f) == [disk |-> UpdateEntry(d, f), file |-> f, ok |-> TRUE]
\* Mutant: the entry on the disk keeps the size before the write.
MovedOnly(d, f, old) ==
  [disk |-> d, file |-> [f EXCEPT !.entry.size = IF f.cursor > old THEN f.cursor ELSE old],
   ok |-> TRUE]

Moved(d, f, old) ==
  IF f.cursor > old THEN Grown(d, [f EXCEPT !.entry.size = f.cursor])
  ELSE [disk |-> d, file |-> f, ok |-> TRUE]
Written(w, f) ==
  IF w.ok THEN Moved(w.disk, [f EXCEPT !.cursor = @ + w.done], f.entry.size)
  ELSE [disk |-> w.disk, file |-> f, ok |-> FALSE]
FWrite(d, f, units) == Written(WriteChain(d, f.entry.first, f.cursor, units), f)

\* fat_remove_fat_chain, turn by turn.
RemoveOn(w) ==
  IF w.at < Root \/ w.disk.fat[w.at] = Free THEN w
  ELSE [disk |-> WriteEntry(w.disk, w.at, Free), at |-> w.disk.fat[w.at]]
Removal(d, first) ==
  LET turn[k \in 0 .. Entries] ==
        IF k = 0 THEN [disk |-> d, at |-> first] ELSE RemoveOn(turn[k - 1])
  IN  turn
RemoveChain(d, first) == Removal(d, first)[Entries].disk
=============================================================================
