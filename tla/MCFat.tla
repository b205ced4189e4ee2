------------------------------- MODULE MCFat ---------------------------------
(***************************************************************************)
(* What must be true of the volume, and the instance TLC checks.  The tree *)
(* of files is read here straight from the table and the clusters, with    *)
(* none of the driver's own walks.                                         *)
(***************************************************************************)
EXTENDS Fat, TLC, FiniteSetsExt

VARIABLES objects,   \* what is on the disk, always Objects(disk)
          tree       \* the same as a tree of files, always Tree(disk, objects)

\* The clusters of a chain, one after the other.
RECURSIVE Follow(_, _, _)
Follow(d, c, n) ==
  IF n = 0 \/ c \notin Root .. Last \/ d.fat[c] = Free THEN <<>>
  ELSE <<c>> \o Follow(d, d.fat[c], n - 1)

Chain(d, c) == Follow(d, c, Entries)

RECURSIVE Content(_, _)
Content(d, chain) == IF chain = <<>> THEN <<>>
                     ELSE d.data[Head(chain)] \o Content(d, Tail(chain))

Units(d, first) == Content(d, Chain(d, first))

\* Everything in a directory but "." and "..": its path, its entry, where
\* that is and the chain it starts.
Listing(d, where, first) ==
  LET u == Units(d, first)
      members == {i \in 1 .. Len(u) : IsLive(u[i]) /\ u[i].name[1] \notin {Dot, DotDot}}
  IN {[path |-> <<where, NameAt(u, i), u[i].isDir>>, entry |-> u[i],
       parent |-> first, pos |-> i - 1, chain |-> Chain(d, u[i].first)] : i \in members}

Objects(d) ==
  LET top == Listing(d, "", Root)
  IN top \cup UNION {Listing(d, o.path[2], o.entry.first) : o \in {x \in top : x.path[3]}}

FileData(d, o) == SubSeq(Content(d, o.chain), 1, o.entry.size)

Tree(d, all) ==
  LET add(o, t) == (o.path :> IF o.path[3] THEN <<>> ELSE FileData(d, o)) @@ t
  IN FoldSet(add, <<>>, all)

Clusters(chain) == {chain[i] : i \in 1 .. Len(chain)}

Lost(d, all) ==
  {c \in Used(d) : c <= Last} \
     UNION ({Clusters(Chain(d, Root))} \cup {Clusters(o.chain) : o \in all})

MCInit == Init /\ objects = Objects(disk) /\ tree = Tree(disk, objects)
MCNext == Next /\ objects' = Objects(disk') /\ tree' = Tree(disk', objects')
MCSpec == MCInit /\ [][MCNext]_<<vars, objects, tree>>

---------------------------------------------------------------------------

\* No two files ever share a cluster, whatever was created, truncated, grown
\* and removed before, and each file's chain is exactly as long as the size in
\* its entry needs (fat_fwrite, fat_create, fat_remove_fat_chain).
ChainsApart ==
  Whole(disk) =>
    /\ \A a, b \in objects : a # b => Clusters(a.chain) \cap Clusters(b.chain) = {}
    /\ \A o \in objects :
         LET n == Len(o.chain)
         IN n >= 1 /\ (~o.path[3] => o.entry.size <= n * PerCluster
                                      /\ (n > 1 => o.entry.size > (n - 1) * PerCluster))

\* The copy of the directory entry a handle works with is the one on the disk:
\* fat_update_entry has written every change through, and the creation and
\* removal of neighbours has not moved it.
HandlesAgree ==
  \A h \in OpenHandles :
    \E o \in objects : /\ o.parent = handles[h].parent
                       /\ o.pos = handles[h].pos
                       /\ o.entry = handles[h].entry

\* fat_fread through the cached table returns the file's own bytes from the
\* cursor on, no more than asked for and none past the end of the file.
ReadsBack ==
  Whole(disk) =>
    \A h \in OpenHandles :
      LET f == handles[h]
          data == FileData(disk, CHOOSE o \in objects : o.parent = f.parent /\ o.pos = f.pos)
      IN \A n \in Lengths :
           FRead(disk, f, n).out
             = SubSeq(data, f.cursor + 1, Lesser(f.cursor + n, f.entry.size))

ManyEntries == \E name \in DirNames :
  Cardinality({o \in objects : o.path[1] = name}) >= 2 /\ RemoveDirectory(name)

\* No call leaves a cluster in use that no file reaches, except the removal of
\* a directory of two entries or more: fat_dirremove passes over every second
\* one, and what that held stays taken for good.
NothingLost ==
  [][Whole(disk') => (Lost(disk', objects') \subseteq Lost(disk, objects) \/ ManyEntries)]_vars

Paths == {<<p[1], p[2], FALSE>> : p \in Spots} \cup {<<"", n, TRUE>> : n \in DirNames}
Store == INSTANCE FileStore WITH Values <- {Datum(v) : v \in Values}

\* The volume implements the abstract file store: every call of the binding
\* changes the contents of the one path it names as that call should, and a
\* restart changes nothing.
StoreSpec == Store!Spec
=============================================================================
