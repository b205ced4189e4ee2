--------------------------- MODULE FatDisk_proofs ----------------------------
(***************************************************************************)
(* The chains of the FAT volume: what fat_fread finds, what fat_fwrite     *)
(* changes and leaves alone, and what fat_remove_fat_chain frees, for      *)
(* every geometry, every table and every chain.                            *)
(***************************************************************************)
EXTENDS FatDisk, FiniteSetTheorems, FunctionTheorems, SequenceTheorems, WellFoundedInduction, TLAPS

-----------------------------------------------------------------------------
(* What the theorems are about. *)
Clusters == Root .. Last

(* A disk whose two tables agree. *)
Disk(d) ==
  /\ d = [fat |-> d.fat, backup |-> d.backup, cache |-> d.cache, data |-> d.data]
  /\ d.fat \in [0 .. Entries - 1 -> Int] /\ d.backup = d.fat
  /\ d.data = [c \in Clusters |-> [i \in 1 .. PerCluster |-> d.data[c][i]]]

(* What a cluster holds. *)
Units(u) == u = [i \in 1 .. PerCluster |-> u[i]]

(* The same disk, whatever the driver has in its cache. *)
Same(d, e) == Disk(e) /\ e.fat = d.fat /\ e.data = d.data

(* The clusters of a file, first to last. *)
IsChain(d, s) ==
  /\ s \in Seq(Clusters) /\ s # <<>>
  /\ \A i, j \in 1 .. Len(s) : s[i] = s[j] => i = j
  /\ \A i \in 1 .. Len(s) - 1 : d.fat[s[i]] = s[i + 1]
  /\ d.fat[s[Len(s)]] \in {End, OtherEnd}

-----------------------------------------------------------------------------
(* Naturals and clusters. *)

(* The least-number principle for a set of naturals, from the fact that <  *)
(* is well founded: the inductions of the proofs rest on it.               *)
LEMMA LeastNatural ==
  ASSUME NEW S, S \subseteq Nat, S # {}
  PROVE  \E n \in S : \A k \in S : n <= k
<1> DEFINE R == OpToRel(<, Nat)
<1>1. IsWellFoundedOn(R, Nat)
  BY NatLessThanWellFounded, Zenon
<1>2. \A j, k \in Nat : <<j, k>> \in R <=> j < k
  BY DEF OpToRel
<1> HIDE DEF R
<1>3. PICK n \in S : \A k \in S : ~(<<k, n>> \in R)
  BY <1>1, WFMin, Zenon
<1>4. ASSUME NEW k \in S PROVE n <= k
  <2>1. k \in Nat /\ n \in Nat
    BY <1>3
  <2>2. ~(<<k, n>> \in R)
    BY <1>3
  <2>3. ~(k < n)
    BY <1>2, <2>1, <2>2, Zenon
  <2> QED BY <2>1, <2>3
<1> QED BY <1>3, <1>4

LEMMA Turns ==
  ASSUME NEW n \in Nat, NEW E, 0 \in E, \A j \in 1 .. n : j - 1 \in E => j \in E
  PROVE  \A j \in 0 .. n : j \in E
<1> DEFINE S == {j \in 0 .. n : j \notin E}
<1>1. ASSUME NEW j \in S, \A i \in S : j <= i
      PROVE  FALSE
  <2>1. j \in 1 .. n /\ j - 1 \in 0 .. n /\ ~(j <= j - 1)
    OBVIOUS
  <2>2. j - 1 \in E
    BY <1>1, <2>1
  <2> QED BY <2>1, <2>2
<1>2. S = {}
  <2>1. S \subseteq Nat
    OBVIOUS
  <2> HIDE DEF S
  <2> QED BY <1>1, <2>1, LeastNatural
<1> QED BY <1>2

LEMMA Sizes ==
  /\ PerCluster \in Nat /\ PerCluster >= 1 /\ PerSector \in Nat /\ PerSector >= 1
  /\ SecPerClus \in Nat /\ SecPerClus >= 1 /\ TotSec \in Nat /\ TotSec >= 1
  /\ Entries \in Nat /\ Last \in Nat /\ Last >= 2 /\ Last <= Entries - 1
  /\ Root = 2 /\ Free = 0 /\ End = -1 /\ OtherEnd = -2
<1>1. /\ PerCluster \in Nat \ {0} /\ PerSector \in Nat \ {0} /\ SecPerClus \in Nat \ {0}
      /\ FATSz \in Nat \ {0} /\ TotSec \in Nat \ {0} /\ Last \in Root .. Entries - 1
  BY Geometry
<1>2. Root = 2 /\ Free = 0 /\ End = -1 /\ OtherEnd = -2
  BY DEF Root, Free, End, OtherEnd
<1>3. Entries \in Nat
  BY <1>1 DEF Entries
<1>4. Last \in Nat /\ Last >= 2 /\ Last <= Entries - 1
  BY <1>1, <1>2, <1>3
<1> QED BY <1>1, <1>2, <1>3, <1>4

LEMMA Divided ==
  ASSUME NEW a \in Nat, NEW b \in Nat, b >= 1
  PROVE  /\ a \div b \in Nat /\ a % b \in 0 .. b - 1
         /\ a = (a \div b) * b + (a % b)
OBVIOUS

(* No chain is longer than the table. *)
LEMMA ChainFits ==
  ASSUME NEW s \in Seq(Clusters), \A i, j \in 1 .. Len(s) : s[i] = s[j] => i = j
  PROVE  Len(s) \in Nat /\ Len(s) <= Last - 1 /\ Len(s) < Entries
<1>1. /\ IsFiniteSet(Clusters) /\ Cardinality(Clusters) = Last - 1
  <2>1. Root \in Int /\ Last \in Int /\ Root <= Last /\ Last - Root + 1 = Last - 1
    BY Sizes
  <2> QED BY <2>1, FS_Interval DEF Clusters
<1>2. /\ IsFiniteSet(1 .. Len(s)) /\ Cardinality(1 .. Len(s)) = Len(s) /\ Len(s) \in Nat
  <2>1. Len(s) \in Nat /\ 1 \in Int /\ Len(s) \in Int
    OBVIOUS
  <2>2. CASE 1 <= Len(s)
    BY <2>1, <2>2, FS_Interval
  <2>3. CASE Len(s) = 0
    <3>1. 1 .. Len(s) = {}
      BY <2>3
    <3> QED BY <2>3, <3>1, FS_EmptySet
  <2> QED BY <2>1, <2>2, <2>3
<1>3. s \in Injection(1 .. Len(s), Clusters)
  <2>1. s \in [1 .. Len(s) -> Clusters]
    OBVIOUS
  <2> QED BY <2>1 DEF Injection, IsInjective
<1>4. Cardinality(1 .. Len(s)) <= Cardinality(Clusters)
  BY <1>1, <1>3, FS_Injection, Zenon
<1> QED BY <1>1, <1>2, <1>4, Sizes

-----------------------------------------------------------------------------
(* What the operations do to a disk. *)

(* The cache holds a sector of the table, or none. *)
Coherent(d) ==
  \/ d.cache.sector = -1
  \/ /\ d.cache.sector \in Nat
     /\ \A i \in 0 .. PerSector - 1 :
          d.cache.copy[i] = TableEntry(d, d.cache.sector * PerSector + i)

LEMMA CacheSet ==
  ASSUME NEW d, Disk(d), NEW x
  PROVE  Same(d, [d EXCEPT !.cache = x]) /\ [d EXCEPT !.cache = x].cache = x
<1> DEFINE e == [d EXCEPT !.cache = x]
<1>0. PICK f, b, k, a : d = [fat |-> f, backup |-> b, cache |-> k, data |-> a]
  BY DEF Disk
<1>a. d.fat = f /\ d.backup = b /\ d.data = a
  BY <1>0
<1>b. e = [fat |-> f, backup |-> b, cache |-> x, data |-> a]
  BY <1>0
<1> HIDE DEF e
<1>1. e = [fat |-> d.fat, backup |-> d.backup, cache |-> x, data |-> d.data]
  BY <1>a, <1>b
<1>2. e.fat = d.fat /\ e.backup = d.backup /\ e.cache = x /\ e.data = d.data
  BY <1>1
<1>3. Disk(e)
  BY <1>1, <1>2 DEF Disk
<1>4. Same(d, e) /\ e.cache = x
  BY <1>2, <1>3 DEF Same
<1> QED BY <1>4 DEF e

LEMMA InvalidateIs ==
  ASSUME NEW d, Disk(d)
  PROVE  Same(d, Invalidate(d)) /\ Coherent(Invalidate(d))
<1>1. Same(d, Invalidate(d)) /\ Invalidate(d).cache = NoCache
  BY CacheSet DEF Invalidate
<1> QED BY <1>1 DEF Coherent, NoCache

LEMMA SameTrans ==
  ASSUME NEW d, NEW e, NEW g, Same(d, e), Same(e, g)
  PROVE  Same(d, g)
BY DEF Same

LEMMA SameEntry ==
  ASSUME NEW d, NEW e, Disk(d), Same(d, e)
  PROVE  \A c : TableEntry(e, c) = TableEntry(d, c)
BY DEF Same, Disk, TableEntry

(* A read through a coherent cache is a read of the table. *)
LEMMA CachedReads ==
  ASSUME NEW d, Disk(d), Coherent(d), NEW c \in Nat
  PROVE  /\ Same(d, Cached(d, c)) /\ Coherent(Cached(d, c))
         /\ CachedEntry(Cached(d, c), c) = TableEntry(d, c)
<1> DEFINE s == c \div PerSector
           r == c % PerSector
           x == [sector |-> s, copy |-> [i \in 0 .. PerSector - 1 |-> TableEntry(d, s * PerSector + i)]]
           e == [d EXCEPT !.cache = x]
<1>1. s \in Nat /\ r \in 0 .. PerSector - 1 /\ c = s * PerSector + r
  BY Sizes, Divided
<1>2. CASE d.cache.sector = s
  <2>1. Cached(d, c) = d
    BY <1>2 DEF Cached
  <2>2. d.cache.sector # -1
    BY <1>1, <1>2
  <2> HIDE DEF s, r
  <2>3. d.cache.copy[r] = TableEntry(d, s * PerSector + r)
    BY <1>1, <1>2, <2>2 DEF Coherent
  <2>4. CachedEntry(d, c) = TableEntry(d, c)
    BY <1>1, <2>3 DEF CachedEntry, r
  <2>5. Same(d, d)
    BY DEF Same
  <2> QED BY <2>1, <2>4, <2>5
<1>3. CASE d.cache.sector # s
  <2>1. Cached(d, c) = e
    BY <1>3 DEF Cached
  <2>2. Same(d, e) /\ e.cache = x
    BY CacheSet
  <2> HIDE DEF e
  <2>3. \A i \in 0 .. PerSector - 1 : e.cache.copy[i] = TableEntry(d, s * PerSector + i)
    BY <2>2
  <2>4. e.cache.sector = s
    BY <2>2
  <2> HIDE DEF x, s, r
  <2>5. \A k : TableEntry(e, k) = TableEntry(d, k)
    BY <2>2, SameEntry
  <2>6. Coherent(e)
    BY <1>1, <2>3, <2>4, <2>5 DEF Coherent
  <2>7. CachedEntry(e, c) = TableEntry(d, c)
    BY <1>1, <2>3 DEF CachedEntry, r
  <2> QED BY <2>1, <2>2, <2>6, <2>7
<1> QED BY <1>2, <1>3

LEMMA EntryIs ==
  ASSUME NEW d, Disk(d)
  PROVE  \A c \in 0 .. Entries - 1 : TableEntry(d, c) = d.fat[c]
BY Sizes DEF Disk, TableEntry

(* An entry is written to both tables. *)
LEMMA WriteEntryIs ==
  ASSUME NEW d, Disk(d), NEW c \in Clusters, NEW v \in Int
  PROVE  LET e == WriteEntry(d, c, v)
         IN  /\ Disk(e) /\ e.data = d.data /\ e.cache = d.cache
             /\ e.fat[c] = v /\ \A i \in 0 .. Entries - 1 : i # c => e.fat[i] = d.fat[i]
<1> DEFINE e == WriteEntry(d, c, v)
           f == [d.fat EXCEPT ![c] = v]
<1>0. PICK t, k, a : d = [fat |-> t, backup |-> t, cache |-> k, data |-> a]
  BY DEF Disk
<1>a. d.fat = t /\ d.cache = k /\ d.data = a
  BY <1>0
<1>b. e = [[d EXCEPT !.fat[c] = v] EXCEPT !.backup[c] = v]
  BY DEF WriteEntry
<1> DEFINE g == [t EXCEPT ![c] = v]
           h == [d EXCEPT !.fat[c] = v]
<1>c. h = [fat |-> g, backup |-> t, cache |-> k, data |-> a]
  BY <1>0
<1> HIDE DEF e, h
<1>d. [h EXCEPT !.backup[c] = v] = [fat |-> g, backup |-> g, cache |-> k, data |-> a]
  <2> DEFINE g1 == g
  <2>1. h = [fat |-> g1, backup |-> t, cache |-> k, data |-> a]
    BY <1>c
  <2> HIDE DEF g1
  <2>2. [h EXCEPT !.backup[c] = v] = [fat |-> g1, backup |-> g, cache |-> k, data |-> a]
    BY <2>1
  <2> QED BY <2>2 DEF g1
<1>1. e = [fat |-> f, backup |-> f, cache |-> d.cache, data |-> d.data]
  BY <1>a, <1>b, <1>d DEF h
<1>2. e.fat = f /\ e.backup = f /\ e.cache = d.cache /\ e.data = d.data
  BY <1>1
<1>3. c \in 0 .. Entries - 1
  BY Sizes DEF Clusters
<1>4. f \in [0 .. Entries - 1 -> Int] /\ f[c] = v
      /\ \A i \in 0 .. Entries - 1 : i # c => f[i] = d.fat[i]
  BY <1>3 DEF Disk
<1> HIDE DEF f
<1>6. Disk(e)
  BY <1>1, <1>2, <1>4 DEF Disk
<1>7. /\ Disk(e) /\ e.data = d.data /\ e.cache = d.cache
      /\ e.fat[c] = v /\ \A i \in 0 .. Entries - 1 : i # c => e.fat[i] = d.fat[i]
  BY <1>2, <1>4, <1>6
<1> QED BY <1>7 DEF e

LEMMA DataPut ==
  ASSUME NEW d, NEW f, NEW b, NEW k, NEW a, NEW c, NEW u,
         d = [fat |-> f, backup |-> b, cache |-> k, data |-> a]
  PROVE  [d EXCEPT !.data[c] = u] = [fat |-> f, backup |-> b, cache |-> k, data |-> [a EXCEPT ![c] = u]]
OBVIOUS

(* A cluster's units are replaced. *)
LEMMA DataSet ==
  ASSUME NEW d, Disk(d), NEW c \in Clusters, NEW u, Units(u)
  PROVE  LET e == [d EXCEPT !.data[c] = u]
         IN  /\ Disk(e) /\ e.fat = d.fat /\ e.cache = d.cache
             /\ e.data[c] = u /\ \A x \in Clusters : x # c => e.data[x] = d.data[x]
<1> DEFINE e == [d EXCEPT !.data[c] = u]
           D == [d.data EXCEPT ![c] = u]
<1>0. PICK f, b, k, a : d = [fat |-> f, backup |-> b, cache |-> k, data |-> a]
  BY DEF Disk
<1>a. d.fat = f /\ d.backup = b /\ d.cache = k /\ d.data = a
  BY <1>0
<1>b. e = [fat |-> f, backup |-> b, cache |-> k, data |-> [a EXCEPT ![c] = u]]
  BY <1>0, DataPut
<1>1. e = [fat |-> d.fat, backup |-> d.backup, cache |-> d.cache, data |-> D]
  BY <1>a, <1>b
<1> HIDE DEF e
<1>2. e.fat = d.fat /\ e.backup = d.backup /\ e.cache = d.cache /\ e.data = D
  BY <1>1
<1>3. DOMAIN d.data = Clusters /\ \A x \in Clusters : d.data[x] = [i \in 1 .. PerCluster |-> d.data[x][i]]
  BY DEF Disk
<1>4. DOMAIN D = Clusters /\ D[c] = u /\ \A x \in Clusters : x # c => D[x] = d.data[x]
  BY <1>3
<1>5. \A x \in Clusters : D[x] = [i \in 1 .. PerCluster |-> D[x][i]]
  <2> HIDE DEF D
  <2> SUFFICES ASSUME NEW x \in Clusters PROVE D[x] = [i \in 1 .. PerCluster |-> D[x][i]]
    OBVIOUS
  <2>1. CASE x = c
    BY <1>4, <2>1 DEF Units
  <2>2. CASE x # c
    BY <1>3, <1>4, <2>2
  <2> QED BY <2>1, <2>2
<1>6. D = [x \in Clusters |-> D[x]]
  <2>1. D = [x \in DOMAIN D |-> D[x]]
    OBVIOUS
  <2> HIDE DEF D
  <2> QED BY <1>4, <2>1
<1> HIDE DEF D
<1>7. D = [x \in Clusters |-> [i \in 1 .. PerCluster |-> D[x][i]]]
  BY <1>5, <1>6
<1>8. Disk(e)
  BY <1>1, <1>2, <1>7 DEF Disk
<1>9. /\ Disk(e) /\ e.fat = d.fat /\ e.cache = d.cache
      /\ e.data[c] = u /\ \A x \in Clusters : x # c => e.data[x] = d.data[x]
  BY <1>2, <1>4, <1>8
<1> QED BY <1>9 DEF e

-----------------------------------------------------------------------------
(* The loops, turn by turn: that there is a function that does what each     *)
(* recursion says, and that the loop is that function.                       *)

(* The walk along a chain. *)
LEMMA WalkTurn ==
  ASSUME NEW d, NEW first
  PROVE  \A k \in 0 .. Entries + 1 :
           Walk(d, first)[k] =
             IF k = 0 THEN [disk |-> d, at |-> first, chain |-> <<>>]
                      ELSE WalkOn(Walk(d, first)[k - 1])
<1> DEFINE n == Entries + 1
           F(x, k) == WalkOn(x)
           a == [disk |-> d, at |-> first, chain |-> <<>>]
           turn == Walk(d, first)
           Upto(f, j) == f = [k \in 0 .. j |-> IF k = 0 THEN a ELSE F(f[k - 1], k)]
           E == {j \in 0 .. n : \E f : Upto(f, j)}
<1>1. turn = CHOOSE f : Upto(f, n)
  BY Zenon DEF Walk
<1>2. n \in Nat
  BY Sizes
<1> HIDE DEF n, F, a, turn
<1>3. 0 \in E
  <2> DEFINE f == [k \in 0 .. 0 |-> a]
  <2>1. Upto(f, 0)
    <3>1. \A k \in 0 .. 0 : k = 0
      OBVIOUS
    <3> QED BY <3>1
  <2> HIDE DEF f, Upto
  <2> QED BY <1>2, <2>1
<1>4. ASSUME NEW j \in 1 .. n, j - 1 \in E
      PROVE  j \in E
  <2>1. PICK f : Upto(f, j - 1)
    BY <1>4
  <2> DEFINE g == [k \in 0 .. j |-> IF k < j THEN f[k] ELSE F(f[j - 1], j)]
  <2>2. ASSUME NEW k \in 0 .. j
        PROVE  g[k] = IF k = 0 THEN a ELSE F(g[k - 1], k)
    <3>1. CASE k = 0
      BY <1>2, <2>1, <3>1
    <3>2. CASE k # 0 /\ k < j
      <4>1. k \in 0 .. j - 1 /\ k - 1 \in 0 .. j /\ k - 1 < j
        BY <1>2, <3>2
      <4>2. g[k] = f[k] /\ g[k - 1] = f[k - 1]
        BY <3>2, <4>1
      <4> HIDE DEF g
      <4>3. f[k] = F(f[k - 1], k)
        BY <2>1, <3>2, <4>1
      <4> QED BY <3>2, <4>2, <4>3
    <3>3. CASE k = j
      <4>1. j - 1 \in 0 .. j /\ j - 1 < j /\ ~(j < j) /\ j # 0
        BY <1>2
      <4>2. g[k] = F(f[j - 1], j) /\ g[j - 1] = f[j - 1]
        BY <3>3, <4>1
      <4> HIDE DEF g
      <4> QED BY <3>3, <4>1, <4>2
    <3> QED BY <1>2, <3>1, <3>2, <3>3
  <2>3. Upto(g, j)
    BY <2>2
  <2> HIDE DEF g, Upto
  <2> QED BY <1>2, <2>3
<1>5. \E f : Upto(f, n)
  <2> HIDE DEF E
  <2>1. \A j \in 0 .. n : j \in E
    BY <1>2, <1>3, <1>4, Turns
  <2>2. n \in E
    BY <1>2, <2>1
  <2> QED BY <2>2 DEF E
<1> HIDE DEF Upto
<1>6. Upto(turn, n)
  BY <1>1, <1>5, Zenon
<1>7. ASSUME NEW k \in 0 .. n
      PROVE  turn[k] = IF k = 0 THEN a ELSE F(turn[k - 1], k)
  BY <1>6 DEF Upto
<1> QED BY <1>7 DEF n, F, a, turn

(* The gathering of what is read. *)
LEMMA GatherTurn ==
  ASSUME NEW d, NEW chain, NEW cursor, NEW size, NEW n,
         Len(chain) \in Nat
  PROVE  \A k \in 0 .. Len(chain) :
           Gather(d, chain, cursor, size, n)[k] =
             IF k = 0 THEN <<>>
                      ELSE Taken(d, chain[k], cursor, size, n, k, Gather(d, chain, cursor, size, n)[k - 1])
<1> DEFINE m == Len(chain)
           F(x, k) == Taken(d, chain[k], cursor, size, n, k, x)
           a == <<>>
           turn == Gather(d, chain, cursor, size, n)
           Upto(f, j) == f = [k \in 0 .. j |-> IF k = 0 THEN a ELSE F(f[k - 1], k)]
           E == {j \in 0 .. m : \E f : Upto(f, j)}
<1>1. turn = CHOOSE f : Upto(f, m)
  BY Zenon DEF Gather
<1>2. m \in Nat
  OBVIOUS
<1> HIDE DEF m, F, a, turn
<1>3. 0 \in E
  <2> DEFINE f == [k \in 0 .. 0 |-> a]
  <2>1. Upto(f, 0)
    <3>1. \A k \in 0 .. 0 : k = 0
      OBVIOUS
    <3> QED BY <3>1
  <2> HIDE DEF f, Upto
  <2> QED BY <1>2, <2>1
<1>4. ASSUME NEW j \in 1 .. m, j - 1 \in E
      PROVE  j \in E
  <2>1. PICK f : Upto(f, j - 1)
    BY <1>4
  <2> DEFINE g == [k \in 0 .. j |-> IF k < j THEN f[k] ELSE F(f[j - 1], j)]
  <2>2. ASSUME NEW k \in 0 .. j
        PROVE  g[k] = IF k = 0 THEN a ELSE F(g[k - 1], k)
    <3>1. CASE k = 0
      BY <1>2, <2>1, <3>1
    <3>2. CASE k # 0 /\ k < j
      <4>1. k \in 0 .. j - 1 /\ k - 1 \in 0 .. j /\ k - 1 < j
        BY <1>2, <3>2
      <4>2. g[k] = f[k] /\ g[k - 1] = f[k - 1]
        BY <3>2, <4>1
      <4> HIDE DEF g
      <4>3. f[k] = F(f[k - 1], k)
        BY <2>1, <3>2, <4>1
      <4> QED BY <3>2, <4>2, <4>3
    <3>3. CASE k = j
      <4>1. j - 1 \in 0 .. j /\ j - 1 < j /\ ~(j < j) /\ j # 0
        BY <1>2
      <4>2. g[k] = F(f[j - 1], j) /\ g[j - 1] = f[j - 1]
        BY <3>3, <4>1
      <4> HIDE DEF g
      <4> QED BY <3>3, <4>1, <4>2
    <3> QED BY <1>2, <3>1, <3>2, <3>3
  <2>3. Upto(g, j)
    BY <2>2
  <2> HIDE DEF g, Upto
  <2> QED BY <1>2, <2>3
<1>5. \E f : Upto(f, m)
  <2> HIDE DEF E
  <2>1. \A j \in 0 .. m : j \in E
    BY <1>2, <1>3, <1>4, Turns
  <2>2. m \in E
    BY <1>2, <2>1
  <2> QED BY <2>2 DEF E
<1> HIDE DEF Upto
<1>6. Upto(turn, m)
  BY <1>1, <1>5, Zenon
<1>7. ASSUME NEW k \in 0 .. m
      PROVE  turn[k] = IF k = 0 THEN a ELSE F(turn[k - 1], k)
  BY <1>6 DEF Upto
<1> QED BY <1>7 DEF m, F, a, turn

(* The search for a free cluster. *)
LEMMA SearchTurn ==
  ASSUME NEW d, NEW c
  PROVE  \A k \in 0 .. TotSec :
           Searched(d, c)[k] =
             IF k = 0 THEN [disk |-> d, at |-> c, over |-> FALSE, cluster |-> 0]
                      ELSE Search(Searched(d, c)[k - 1])
<1> DEFINE n == TotSec
           F(x, k) == Search(x)
           a == [disk |-> d, at |-> c, over |-> FALSE, cluster |-> 0]
           turn == Searched(d, c)
           Upto(f, j) == f = [k \in 0 .. j |-> IF k = 0 THEN a ELSE F(f[k - 1], k)]
           E == {j \in 0 .. n : \E f : Upto(f, j)}
<1>1. turn = CHOOSE f : Upto(f, n)
  BY Zenon DEF Searched
<1>2. n \in Nat
  BY Sizes
<1> HIDE DEF n, F, a, turn
<1>3. 0 \in E
  <2> DEFINE f == [k \in 0 .. 0 |-> a]
  <2>1. Upto(f, 0)
    <3>1. \A k \in 0 .. 0 : k = 0
      OBVIOUS
    <3> QED BY <3>1
  <2> HIDE DEF f, Upto
  <2> QED BY <1>2, <2>1
<1>4. ASSUME NEW j \in 1 .. n, j - 1 \in E
      PROVE  j \in E
  <2>1. PICK f : Upto(f, j - 1)
    BY <1>4
  <2> DEFINE g == [k \in 0 .. j |-> IF k < j THEN f[k] ELSE F(f[j - 1], j)]
  <2>2. ASSUME NEW k \in 0 .. j
        PROVE  g[k] = IF k = 0 THEN a ELSE F(g[k - 1], k)
    <3>1. CASE k = 0
      BY <1>2, <2>1, <3>1
    <3>2. CASE k # 0 /\ k < j
      <4>1. k \in 0 .. j - 1 /\ k - 1 \in 0 .. j /\ k - 1 < j
        BY <1>2, <3>2
      <4>2. g[k] = f[k] /\ g[k - 1] = f[k - 1]
        BY <3>2, <4>1
      <4> HIDE DEF g
      <4>3. f[k] = F(f[k - 1], k)
        BY <2>1, <3>2, <4>1
      <4> QED BY <3>2, <4>2, <4>3
    <3>3. CASE k = j
      <4>1. j - 1 \in 0 .. j /\ j - 1 < j /\ ~(j < j) /\ j # 0
        BY <1>2
      <4>2. g[k] = F(f[j - 1], j) /\ g[j - 1] = f[j - 1]
        BY <3>3, <4>1
      <4> HIDE DEF g
      <4> QED BY <3>3, <4>1, <4>2
    <3> QED BY <1>2, <3>1, <3>2, <3>3
  <2>3. Upto(g, j)
    BY <2>2
  <2> HIDE DEF g, Upto
  <2> QED BY <1>2, <2>3
<1>5. \E f : Upto(f, n)
  <2> HIDE DEF E
  <2>1. \A j \in 0 .. n : j \in E
    BY <1>2, <1>3, <1>4, Turns
  <2>2. n \in E
    BY <1>2, <2>1
  <2> QED BY <2>2 DEF E
<1> HIDE DEF Upto
<1>6. Upto(turn, n)
  BY <1>1, <1>5, Zenon
<1>7. ASSUME NEW k \in 0 .. n
      PROVE  turn[k] = IF k = 0 THEN a ELSE F(turn[k - 1], k)
  BY <1>6 DEF Upto
<1> QED BY <1>7 DEF n, F, a, turn

(* The loop of fat_fwrite. *)
LEMMA WritingTurn ==
  ASSUME NEW d, NEW first, NEW cursor, NEW units
  PROVE  \A k \in 0 .. Entries :
           Writing(d, first, cursor, units)[k] =
             IF k = 0 THEN [disk |-> d, at |-> first, i |-> 1, done |-> 0, ok |-> TRUE]
                      ELSE WriteOn(Writing(d, first, cursor, units)[k - 1], cursor, units)
<1> DEFINE n == Entries
           F(x, k) == WriteOn(x, cursor, units)
           a == [disk |-> d, at |-> first, i |-> 1, done |-> 0, ok |-> TRUE]
           turn == Writing(d, first, cursor, units)
           Upto(f, j) == f = [k \in 0 .. j |-> IF k = 0 THEN a ELSE F(f[k - 1], k)]
           E == {j \in 0 .. n : \E f : Upto(f, j)}
<1>1. turn = CHOOSE f : Upto(f, n)
  BY Zenon DEF Writing
<1>2. n \in Nat
  BY Sizes
<1> HIDE DEF n, F, a, turn
<1>3. 0 \in E
  <2> DEFINE f == [k \in 0 .. 0 |-> a]
  <2>1. Upto(f, 0)
    <3>1. \A k \in 0 .. 0 : k = 0
      OBVIOUS
    <3> QED BY <3>1
  <2> HIDE DEF f, Upto
  <2> QED BY <1>2, <2>1
<1>4. ASSUME NEW j \in 1 .. n, j - 1 \in E
      PROVE  j \in E
  <2>1. PICK f : Upto(f, j - 1)
    BY <1>4
  <2> DEFINE g == [k \in 0 .. j |-> IF k < j THEN f[k] ELSE F(f[j - 1], j)]
  <2>2. ASSUME NEW k \in 0 .. j
        PROVE  g[k] = IF k = 0 THEN a ELSE F(g[k - 1], k)
    <3>1. CASE k = 0
      BY <1>2, <2>1, <3>1
    <3>2. CASE k # 0 /\ k < j
      <4>1. k \in 0 .. j - 1 /\ k - 1 \in 0 .. j /\ k - 1 < j
        BY <1>2, <3>2
      <4>2. g[k] = f[k] /\ g[k - 1] = f[k - 1]
        BY <3>2, <4>1
      <4> HIDE DEF g
      <4>3. f[k] = F(f[k - 1], k)
        BY <2>1, <3>2, <4>1
      <4> QED BY <3>2, <4>2, <4>3
    <3>3. CASE k = j
      <4>1. j - 1 \in 0 .. j /\ j - 1 < j /\ ~(j < j) /\ j # 0
        BY <1>2
      <4>2. g[k] = F(f[j - 1], j) /\ g[j - 1] = f[j - 1]
        BY <3>3, <4>1
      <4> HIDE DEF g
      <4> QED BY <3>3, <4>1, <4>2
    <3> QED BY <1>2, <3>1, <3>2, <3>3
  <2>3. Upto(g, j)
    BY <2>2
  <2> HIDE DEF g, Upto
  <2> QED BY <1>2, <2>3
<1>5. \E f : Upto(f, n)
  <2> HIDE DEF E
  <2>1. \A j \in 0 .. n : j \in E
    BY <1>2, <1>3, <1>4, Turns
  <2>2. n \in E
    BY <1>2, <2>1
  <2> QED BY <2>2 DEF E
<1> HIDE DEF Upto
<1>6. Upto(turn, n)
  BY <1>1, <1>5, Zenon
<1>7. ASSUME NEW k \in 0 .. n
      PROVE  turn[k] = IF k = 0 THEN a ELSE F(turn[k - 1], k)
  BY <1>6 DEF Upto
<1> QED BY <1>7 DEF n, F, a, turn

(* The removal of a chain. *)
LEMMA RemovalTurn ==
  ASSUME NEW d, NEW first
  PROVE  \A k \in 0 .. Entries :
           Removal(d, first)[k] =
             IF k = 0 THEN [disk |-> d, at |-> first]
                      ELSE RemoveOn(Removal(d, first)[k - 1])
<1> DEFINE n == Entries
           F(x, k) == RemoveOn(x)
           a == [disk |-> d, at |-> first]
           turn == Removal(d, first)
           Upto(f, j) == f = [k \in 0 .. j |-> IF k = 0 THEN a ELSE F(f[k - 1], k)]
           E == {j \in 0 .. n : \E f : Upto(f, j)}
<1>1. turn = CHOOSE f : Upto(f, n)
  BY Zenon DEF Removal
<1>2. n \in Nat
  BY Sizes
<1> HIDE DEF n, F, a, turn
<1>3. 0 \in E
  <2> DEFINE f == [k \in 0 .. 0 |-> a]
  <2>1. Upto(f, 0)
    <3>1. \A k \in 0 .. 0 : k = 0
      OBVIOUS
    <3> QED BY <3>1
  <2> HIDE DEF f, Upto
  <2> QED BY <1>2, <2>1
<1>4. ASSUME NEW j \in 1 .. n, j - 1 \in E
      PROVE  j \in E
  <2>1. PICK f : Upto(f, j - 1)
    BY <1>4
  <2> DEFINE g == [k \in 0 .. j |-> IF k < j THEN f[k] ELSE F(f[j - 1], j)]
  <2>2. ASSUME NEW k \in 0 .. j
        PROVE  g[k] = IF k = 0 THEN a ELSE F(g[k - 1], k)
    <3>1. CASE k = 0
      BY <1>2, <2>1, <3>1
    <3>2. CASE k # 0 /\ k < j
      <4>1. k \in 0 .. j - 1 /\ k - 1 \in 0 .. j /\ k - 1 < j
        BY <1>2, <3>2
      <4>2. g[k] = f[k] /\ g[k - 1] = f[k - 1]
        BY <3>2, <4>1
      <4> HIDE DEF g
      <4>3. f[k] = F(f[k - 1], k)
        BY <2>1, <3>2, <4>1
      <4> QED BY <3>2, <4>2, <4>3
    <3>3. CASE k = j
      <4>1. j - 1 \in 0 .. j /\ j - 1 < j /\ ~(j < j) /\ j # 0
        BY <1>2
      <4>2. g[k] = F(f[j - 1], j) /\ g[j - 1] = f[j - 1]
        BY <3>3, <4>1
      <4> HIDE DEF g
      <4> QED BY <3>3, <4>1, <4>2
    <3> QED BY <1>2, <3>1, <3>2, <3>3
  <2>3. Upto(g, j)
    BY <2>2
  <2> HIDE DEF g, Upto
  <2> QED BY <1>2, <2>3
<1>5. \E f : Upto(f, n)
  <2> HIDE DEF E
  <2>1. \A j \in 0 .. n : j \in E
    BY <1>2, <1>3, <1>4, Turns
  <2>2. n \in E
    BY <1>2, <2>1
  <2> QED BY <2>2 DEF E
<1> HIDE DEF Upto
<1>6. Upto(turn, n)
  BY <1>1, <1>5, Zenon
<1>7. ASSUME NEW k \in 0 .. n
      PROVE  turn[k] = IF k = 0 THEN a ELSE F(turn[k - 1], k)
  BY <1>6 DEF Upto
<1> QED BY <1>7 DEF n, F, a, turn

-----------------------------------------------------------------------------
(* Walks. *)
LEMMA PrefixGrows ==
  ASSUME NEW S, NEW s \in Seq(S), NEW k \in 1 .. Len(s)
  PROVE  Append(SubSeq(s, 1, k - 1), s[k]) = SubSeq(s, 1, k)
<1>1. Len(s) \in Nat /\ 1 \in Int /\ k \in Int /\ k - 1 \in Int
  OBVIOUS
<1> DEFINE p == SubSeq(s, 1, k - 1)
           q == SubSeq(s, 1, k)
           a == Append(p, s[k])
<1>2. \A i \in 1 .. k : s[i] \in S
  BY <1>1
<1>3. \A i \in 1 .. k - 1 : s[i] \in S
  BY <1>1, <1>2
<1>4. p \in Seq(S) /\ Len(p) = k - 1 /\ \A i \in 1 .. k - 1 : p[i] = s[i]
  <2>1. /\ p \in Seq(S) /\ Len(p) = (IF 1 <= k - 1 THEN k - 1 - 1 + 1 ELSE 0)
        /\ \A i \in 1 .. k - 1 - 1 + 1 : p[i] = s[1 + i - 1]
    BY <1>1, <1>3, SubSeqProperties
  <2> HIDE DEF p
  <2> QED BY <1>1, <2>1
<1>5. q \in Seq(S) /\ Len(q) = k /\ \A i \in 1 .. k : q[i] = s[i]
  <2>1. /\ q \in Seq(S) /\ Len(q) = (IF 1 <= k THEN k - 1 + 1 ELSE 0)
        /\ \A i \in 1 .. k - 1 + 1 : q[i] = s[1 + i - 1]
    BY <1>1, <1>2, SubSeqProperties
  <2> HIDE DEF q
  <2> QED BY <1>1, <2>1
<1> HIDE DEF p, q
<1>6. /\ a \in Seq(S) /\ Len(a) = k /\ a[k] = s[k]
      /\ \A i \in 1 .. k - 1 : a[i] = s[i]
  <2>1. s[k] \in S
    BY <1>2
  <2>2. /\ a \in Seq(S) /\ Len(a) = Len(p) + 1 /\ a[Len(p) + 1] = s[k]
        /\ \A i \in 1 .. Len(p) : a[i] = p[i]
    BY <1>4, <2>1, AppendProperties
  <2> HIDE DEF a
  <2> QED BY <1>1, <1>4, <2>2
<1> HIDE DEF a
<1>7. \A i \in 1 .. k : a[i] = q[i]
  BY <1>1, <1>5, <1>6
<1>8. a = q
  BY <1>5, <1>6, <1>7, SeqEqual
<1> QED BY <1>8 DEF a, p, q

LEMMA ChainIs ==
  ASSUME NEW d, NEW s, IsChain(d, s)
  PROVE  /\ Len(s) \in Nat /\ Len(s) >= 1 /\ Len(s) <= Last - 1 /\ Len(s) < Entries
         /\ \A i \in 1 .. Len(s) : s[i] \in Clusters /\ s[i] \in Nat /\ s[i] >= 2
                                   /\ s[i] \in 0 .. Entries - 1
<1>1. Len(s) \in Nat /\ Len(s) >= 1
  <2>1. s \in Seq(Clusters) /\ s # <<>>
    BY DEF IsChain
  <2> QED BY <2>1
<1>2. Len(s) <= Last - 1 /\ Len(s) < Entries
  BY ChainFits DEF IsChain
<1>3. \A i \in 1 .. Len(s) : s[i] \in Clusters
  BY DEF IsChain
<1>4. \A c \in Clusters : c \in Nat /\ c >= 2 /\ c \in 0 .. Entries - 1
  BY Sizes DEF Clusters
<1> QED BY <1>1, <1>2, <1>3, <1>4

(* Where a walk along the chain s has come to after k turns. *)
Passed(w, k, d, s) ==
  /\ Same(d, w.disk) /\ Coherent(w.disk)
  /\ IF k < Len(s) THEN w.at = s[k + 1] /\ w.chain = SubSeq(s, 1, k)
     ELSE w.at \in {End, OtherEnd} /\ w.chain = s

LEMMA PassedOn ==
  ASSUME NEW d, Disk(d), NEW s, IsChain(d, s), NEW w, NEW k \in Nat, Passed(w, k, d, s)
  PROVE  Passed(WalkOn(w), k + 1, d, s)
<1>0. Len(s) \in Nat
  BY ChainIs
<1>1. CASE k < Len(s)
  <2> DEFINE c == s[k + 1]
             e == Cached(w.disk, c)
  <2>1. k + 1 \in 1 .. Len(s)
    BY <1>0, <1>1
  <2>2. c \in Nat /\ c >= 2 /\ c \in 0 .. Entries - 1
    BY <2>1, ChainIs
  <2>3. w.at = c /\ w.chain = SubSeq(s, 1, k) /\ Same(d, w.disk) /\ Coherent(w.disk)
        /\ Disk(w.disk)
    BY <1>1 DEF Passed, Same
  <2> HIDE DEF c
  <2>4. Same(w.disk, e) /\ Coherent(e) /\ CachedEntry(e, c) = TableEntry(w.disk, c)
    BY <2>2, <2>3, CachedReads
  <2>5. CachedEntry(e, c) = d.fat[c]
    BY <2>2, <2>3, <2>4, EntryIs DEF Same
  <2>6. Same(d, e)
    BY <2>3, <2>4, SameTrans
  <2>7. WalkOn(w) = Pass(e, w)
    BY <2>2, <2>3, Sizes DEF WalkOn
  <2>8. CASE k + 1 < Len(s)
    <3>1. d.fat[c] = s[k + 2] /\ s[k + 2] # Free
      <4>1. k + 1 \in 1 .. Len(s) - 1 /\ k + 2 \in 1 .. Len(s) /\ k + 1 + 1 = k + 2
        BY <1>0, <2>8
      <4>2. d.fat[s[k + 1]] = s[k + 1 + 1]
        BY <4>1 DEF IsChain
      <4>3. s[k + 2] # Free
        BY <4>1, ChainIs, Sizes
      <4> QED BY <4>1, <4>2, <4>3 DEF c
    <3>2. WalkOn(w) = [disk |-> e, at |-> s[k + 2], chain |-> Append(SubSeq(s, 1, k), s[k + 1])]
      BY <2>3, <2>5, <2>7, <3>1 DEF Pass, c
    <3>3. Append(SubSeq(s, 1, k), s[k + 1]) = SubSeq(s, 1, k + 1)
      <4>1. k + 1 - 1 = k /\ s \in Seq(Clusters)
        BY DEF IsChain
      <4> QED BY <2>1, <4>1, PrefixGrows
    <3>4. k + 1 + 1 = k + 2
      OBVIOUS
    <3> HIDE DEF e
    <3> QED BY <2>4, <2>6, <2>8, <3>2, <3>3, <3>4 DEF Passed
  <2>9. CASE k + 1 = Len(s)
    <3>1. d.fat[c] \in {End, OtherEnd} /\ d.fat[c] # Free
      BY <2>9, Sizes DEF IsChain, c
    <3>2. WalkOn(w) = [disk |-> e, at |-> d.fat[c], chain |-> Append(SubSeq(s, 1, k), s[k + 1])]
      BY <2>3, <2>5, <2>7, <3>1 DEF Pass, c
    <3>3. Append(SubSeq(s, 1, k), s[k + 1]) = s
      <4>1. k + 1 - 1 = k /\ s \in Seq(Clusters)
        BY DEF IsChain
      <4>2. Append(SubSeq(s, 1, k), s[k + 1]) = SubSeq(s, 1, k + 1)
        BY <2>1, <4>1, PrefixGrows
      <4>3. SubSeq(s, 1, Len(s)) = s
        BY <4>1, SubSeqFull
      <4> QED BY <2>9, <4>2, <4>3
    <3>4. ~(k + 1 < Len(s))
      BY <2>9
    <3> HIDE DEF e
    <3> QED BY <2>4, <2>6, <3>1, <3>2, <3>3, <3>4 DEF Passed
  <2> QED BY <1>0, <1>1, <2>8, <2>9
<1>2. CASE ~(k < Len(s))
  <2>1. w.at < Root
    BY <1>2, Sizes DEF Passed
  <2>2. WalkOn(w) = w
    BY <2>1 DEF WalkOn
  <2>3. ~(k + 1 < Len(s))
    BY <1>0, <1>2
  <2> QED BY <1>2, <2>2, <2>3 DEF Passed
<1> QED BY <1>1, <1>2

LEMMA WalkEnds ==
  ASSUME NEW d, Disk(d), NEW s, IsChain(d, s)
  PROVE  Passed(Walk(Invalidate(d), s[1])[Entries + 1], Entries + 1, d, s)
<1> DEFINE turn == Walk(Invalidate(d), s[1])
           a == [disk |-> Invalidate(d), at |-> s[1], chain |-> <<>>]
           n == Entries + 1
           E == {k \in 0 .. n : Passed(turn[k], k, d, s)}
<1>1. \A k \in 0 .. n : turn[k] = IF k = 0 THEN a ELSE WalkOn(turn[k - 1])
  BY WalkTurn
<1>2. n \in Nat
  BY Sizes
<1> HIDE DEF turn, n
<1>3. 0 \in E
  <2>1. turn[0] = a /\ 0 \in 0 .. n
    BY <1>1, <1>2
  <2>2. Same(d, Invalidate(d)) /\ Coherent(Invalidate(d)) /\ 0 < Len(s)
    BY InvalidateIs, ChainIs
  <2>3. SubSeq(s, 1, 0) = <<>>
    BY SubSeqEmpty
  <2>4. Passed(a, 0, d, s)
    BY <2>2, <2>3 DEF Passed
  <2> QED BY <2>1, <2>4
<1>4. ASSUME NEW j \in 1 .. n, j - 1 \in E PROVE j \in E
  <2>1. turn[j] = WalkOn(turn[j - 1]) /\ j - 1 \in Nat /\ j - 1 + 1 = j /\ j \in 0 .. n
    BY <1>1, <1>2
  <2>2. Passed(turn[j - 1], j - 1, d, s)
    BY <1>4
  <2>3. Passed(WalkOn(turn[j - 1]), j - 1 + 1, d, s)
    BY <2>1, <2>2, PassedOn
  <2>4. Passed(turn[j], j, d, s)
    BY <2>1, <2>3
  <2> QED BY <2>1, <2>4
<1> HIDE DEF E
<1>5. n \in E
  <2>1. \A j \in 0 .. n : j \in E
    BY <1>2, <1>3, <1>4, Turns
  <2> QED BY <1>2, <2>1
<1>6. Passed(turn[n], n, d, s)
  BY <1>5 DEF E
<1> QED BY <1>6 DEF turn, n

(* Whatever an earlier call has left in the cache, fat_fread and             *)
(* fat_file_cluster_count follow the chain that is in the table, from its    *)
(* first cluster to its last, and change nothing but the cache.              *)
THEOREM WalksTheChain ==
  ASSUME NEW d, Disk(d), NEW s, IsChain(d, s)
  PROVE  /\ CachedWalk(d, s[1]).chain = s /\ Same(d, CachedWalk(d, s[1]).disk)
         /\ ClusterCount(d, s[1]).count = Len(s) /\ Same(d, ClusterCount(d, s[1]).disk)
<1> DEFINE w == CachedWalk(d, s[1])
<1>1. Passed(w, Entries + 1, d, s)
  BY WalkEnds DEF CachedWalk
<1>2. ~(Entries + 1 < Len(s))
  BY ChainIs, Sizes
<1> HIDE DEF w
<1>3. w.chain = s /\ Same(d, w.disk)
  BY <1>1, <1>2 DEF Passed
<1>4. ClusterCount(d, s[1]) = [disk |-> w.disk, count |-> Len(w.chain)]
  BY DEF ClusterCount, Counted, w
<1>5. ClusterCount(d, s[1]).count = Len(s) /\ Same(d, ClusterCount(d, s[1]).disk)
  BY <1>3, <1>4
<1> QED BY <1>3, <1>5 DEF w

-----------------------------------------------------------------------------
(* Reading. *)

(* Where the unit u of its i-th cluster is in a file, and the units "out"    *)
(* that the file with the clusters s has after the first "at".               *)
Place(i, u) == i * PerCluster - PerCluster + u
Stretch(d, s, at, out) ==
  \A i \in 1 .. Len(s), u \in 1 .. PerCluster :
    Place(i, u) \in at + 1 .. at + Len(out) => out[Place(i, u) - at] = d.data[s[i]][u]

(* How far the first x units of a file of a size, and its first i clusters,  *)
(* are into a transfer of n units at the cursor.                             *)
Upto(x, cursor, n, size) == IF x <= cursor THEN 0 ELSE Lesser(n, Lesser(x, size) - cursor)
Reached(cursor, n, size, i) == Upto(i * PerCluster, cursor, n, size)

Skipped(cursor, i) ==
  IF i * PerCluster - PerCluster <= cursor THEN cursor - (i * PerCluster - PerCluster) ELSE 0

IsSlice(sl, cursor, n, i, done, part) ==
  /\ i * PerCluster <= cursor => sl.from = 0 /\ sl.count = 0
  /\ i * PerCluster > cursor =>
       sl.from = Skipped(cursor, i) /\ sl.count = Lesser(n - done, part - sl.from)

LEMMA Products ==
  ASSUME NEW i \in Nat
  PROVE  /\ i * PerCluster \in Nat /\ (i + 1) * PerCluster = i * PerCluster + PerCluster
         /\ (i >= 1 => i * PerCluster >= PerCluster) /\ i * PerCluster >= i
         /\ \A k \in Nat : k <= i => k * PerCluster <= i * PerCluster
<1>1. PerCluster \in Nat /\ PerCluster >= 1
  BY Sizes
<1> DEFINE P == PerCluster
<1> HIDE DEF P
<1>2. P \in Nat /\ P >= 1
  BY <1>1 DEF P
<1>3. i * P \in Nat /\ (i + 1) * P = i * P + P /\ i * P >= i
  <2>1. i * P \in Nat /\ (i + 1) * P = i * P + P
    BY <1>2
  <2>2. i * P = i * (P - 1) + i
    BY <1>2
  <2>3. i * (P - 1) >= 0
    BY <1>2
  <2> QED BY <1>2, <2>1, <2>2, <2>3
<1>4. ASSUME NEW k \in Nat, k <= i PROVE k * P <= i * P
  <2>1. (i - k) * P >= 0 /\ (i - k) * P = i * P - k * P
    BY <1>2, <1>4
  <2> QED BY <1>2, <2>1
<1>5. i >= 1 => i * P >= P
  <2>1. 1 * P = P
    BY <1>2
  <2> QED BY <1>4, <2>1
<1> QED BY <1>3, <1>4, <1>5 DEF P

LEMMA SliceIs ==
  ASSUME NEW cursor \in Nat, NEW n \in Nat, NEW i \in Nat, i >= 1, NEW done \in 0 .. n,
         NEW part \in 0 .. PerCluster,
         i * PerCluster > cursor => Skipped(cursor, i) <= part
  PROVE  IsSlice(Slice(cursor, n, i, done, part), cursor, n, i, done, part)
<1> DEFINE x == i * PerCluster
<1>1. x \in Nat /\ x >= PerCluster /\ PerCluster \in Nat
  BY Products, Sizes
<1>2. CASE x <= cursor
  <2>1. Slice(cursor, n, i, done, part) = [from |-> 0, count |-> 0]
    BY <1>2 DEF Slice
  <2> HIDE DEF x
  <2>2. ~(x > cursor)
    BY <1>1, <1>2
  <2> QED BY <2>1, <2>2 DEF x, IsSlice
<1>3. CASE x > cursor
  <2> DEFINE wanted == IF n > part + done THEN part ELSE n - done
             skip == IF x - cursor <= PerCluster THEN PerCluster - (x - cursor) ELSE 0
             count == IF wanted + skip > part THEN wanted - (wanted + skip - part) ELSE wanted
  <2>1. ~(x <= cursor)
    BY <1>1, <1>3
  <2>2. Slice(cursor, n, i, done, part) = [from |-> skip, count |-> count]
    BY <2>1 DEF Slice
  <2>3. skip = Skipped(cursor, i)
    BY <1>1 DEF Skipped
  <2>4. skip \in 0 .. part
    BY <1>1, <1>3, <2>3 DEF Skipped
  <2> HIDE DEF x, skip
  <2>5. count = Lesser(n - done, part - skip)
    BY <2>4 DEF Lesser
  <2> HIDE DEF count
  <2> QED BY <2>1, <2>2, <2>3, <2>5 DEF x, IsSlice
<1> QED BY <1>1, <1>2, <1>3

AllUnits(d) == {d.data[c][u] : c \in Clusters, u \in 1 .. PerCluster}

(* The units "from" + 1 to "from" + "count" of a cluster. *)
IsPart(part, d, c, from, count) ==
  /\ part \in Seq(AllUnits(d)) /\ Len(part) = count
  /\ \A k \in 1 .. count : part[k] = d.data[c][from + k]

LEMMA ClusterUnits ==
  ASSUME NEW d, Disk(d), NEW c \in Clusters, NEW from \in Nat, NEW count \in Nat,
         from + count <= PerCluster
  PROVE  IsPart(SubSeq(d.data[c], from + 1, from + count), d, c, from, count)
<1> DEFINE u == d.data[c]
           part == SubSeq(u, from + 1, from + count)
<1>1. \A k \in from + 1 .. from + count : u[k] \in AllUnits(d)
  BY Sizes DEF AllUnits
<1> HIDE DEF u
<1>2. /\ part \in Seq(AllUnits(d))
      /\ Len(part) = (IF from + 1 <= from + count THEN from + count - (from + 1) + 1 ELSE 0)
      /\ \A k \in 1 .. from + count - (from + 1) + 1 : part[k] = u[from + 1 + k - 1]
  BY <1>1, SubSeqProperties
<1> HIDE DEF part
<1>3. /\ part \in Seq(AllUnits(d)) /\ Len(part) = count
      /\ \A k \in 1 .. count : part[k] = u[from + k]
  BY <1>2
<1> QED BY <1>3 DEF part, u, IsPart

(* The part of a cluster of P units that a read takes, after "len" units:    *)
(* "x" units of the file are up to the cluster's end.                        *)
TakesPart(P, x, cursor, n, size, len) ==
  LET part == Lesser(x, size) - (x - P)
      skip == IF x - P <= cursor THEN cursor - (x - P) ELSE 0
      count == Lesser(n - len, part - skip)
  IN  /\ part \in 0 .. P /\ len \in 0 .. n
      /\ x > cursor =>
           /\ skip \in 0 .. part /\ count \in Nat /\ skip + count <= P
           /\ len + count = Lesser(n, Lesser(x, size) - cursor)
           /\ count >= 1 => x - P + skip = cursor + len
      /\ x <= cursor => len = 0

LEMMA ReadArithmetic ==
  ASSUME NEW P \in Nat, P >= 1, NEW x \in Nat, x >= P,
         NEW cursor \in Nat, NEW n \in Nat, NEW size \in Nat, cursor <= size, x - P <= size
  PROVE  TakesPart(P, x, cursor, n, size, Upto(x - P, cursor, n, size))
<1> DEFINE low == x - P
           part == Lesser(x, size) - low
           skip == IF low <= cursor THEN cursor - low ELSE 0
           len == Upto(low, cursor, n, size)
           count == Lesser(n - len, part - skip)
<1>1. low \in Nat /\ low <= x /\ low <= size /\ x = low + P
  OBVIOUS
<1> HIDE DEF low
<1>2. /\ low <= cursor => len = 0
      /\ low > cursor => len = Lesser(n, low - cursor)
  BY <1>1 DEF Lesser, Upto
<1> HIDE DEF len
<1>3. len \in 0 .. n
  BY <1>1, <1>2 DEF Lesser
<1>4. part \in 0 .. P
  BY <1>1 DEF Lesser
<1>5. ASSUME x > cursor
      PROVE  /\ skip \in 0 .. part /\ count \in Nat /\ skip + count <= P
             /\ len + count = Lesser(n, Lesser(x, size) - cursor)
             /\ count >= 1 => low + skip = cursor + len
  <2>0. PICK top : top = Lesser(x, size)
    OBVIOUS
  <2>1. top \in Nat /\ top >= low /\ top >= cursor /\ part = top - low /\ top - low <= P
    BY <1>1, <1>5, <2>0 DEF Lesser
  <2>2. CASE low <= cursor
    <3>1. skip = cursor - low /\ len = 0
      BY <1>2, <2>2
    <3> HIDE DEF skip
    <3>2. count = Lesser(n, top - cursor)
      BY <1>1, <2>1, <2>2, <3>1
    <3> HIDE DEF count
    <3> QED BY <1>1, <2>0, <2>1, <2>2, <3>1, <3>2 DEF Lesser
  <2>3. CASE low > cursor
    <3>1. skip = 0 /\ len = Lesser(n, low - cursor)
      BY <1>1, <1>2, <2>3
    <3> HIDE DEF skip
    <3>2. count = Lesser(n - len, top - low)
      BY <1>1, <2>1, <3>1
    <3> HIDE DEF count
    <3> QED BY <1>1, <1>3, <2>0, <2>1, <2>3, <3>1, <3>2 DEF Lesser
  <2> QED BY <1>1, <2>2, <2>3
<1>6. x <= cursor => len = 0
  BY <1>1, <1>2
<1> HIDE DEF part, skip, count
<1>7. /\ part \in 0 .. P /\ len \in 0 .. n
      /\ x > cursor =>
           /\ skip \in 0 .. part /\ count \in Nat /\ skip + count <= P
           /\ len + count = Lesser(n, Lesser(x, size) - cursor)
           /\ count >= 1 => low + skip = cursor + len
      /\ x <= cursor => len = 0
  BY <1>3, <1>4, <1>5, <1>6
<1> QED BY <1>7 DEF low, len, part, skip, count, TakesPart

(* A read joins the part of the next cluster to what it has. *)
LEMMA StretchOn ==
  ASSUME NEW d, NEW s, Len(s) \in Nat, NEW m \in 1 .. Len(s), NEW cursor \in Nat,
         NEW A, NEW out \in Seq(A), NEW part \in Seq(A), NEW from \in Nat,
         \A k \in 1 .. Len(part) : part[k] = d.data[s[m]][from + k],
         from + Len(part) <= PerCluster,
         Len(part) >= 1 => m * PerCluster - PerCluster + from = cursor + Len(out),
         Stretch(d, s, cursor, out)
  PROVE  Stretch(d, s, cursor, out \o part)
<1> DEFINE P == PerCluster
           new == out \o part
<1>1. P \in Nat /\ P >= 1 /\ m \in Nat /\ m >= 1 /\ Len(out) \in Nat /\ Len(part) \in Nat
  BY Sizes
<1>2. /\ Len(new) = Len(out) + Len(part)
      /\ \A k \in 1 .. Len(out) : new[k] = out[k]
      /\ \A k \in 1 .. Len(part) : new[Len(out) + k] = part[k]
  BY ConcatProperties, <1>1
<1>3. SUFFICES ASSUME NEW i \in 1 .. Len(s), NEW u \in 1 .. P,
                      Place(i, u) \in cursor + 1 .. cursor + Len(new)
               PROVE  new[Place(i, u) - cursor] = d.data[s[i]][u]
  BY DEF Stretch
<1> HIDE DEF new
<1>4. PICK x \in Nat : x = i * P - P
  <2>1. i \in Nat /\ i >= 1
    OBVIOUS
  <2>2. i * P \in Nat /\ i * P >= P
    BY <2>1, Products
  <2>3. i * P - P \in Nat
    BY <1>1, <2>2
  <2> QED BY <2>3
<1>5. PICK y \in Nat : y = m * P - P
  <2>1. m * P \in Nat /\ m * P >= P
    BY <1>1, Products
  <2>2. m * P - P \in Nat
    BY <1>1, <2>1
  <2> QED BY <2>2
<1>a. PICK p : p = Place(i, u)
  OBVIOUS
<1>c. p = x + u
  BY <1>1, <1>4, <1>a DEF Place
<1>b. u \in Nat /\ u >= 1 /\ u <= P /\ x + u \in cursor + 1 .. cursor + Len(out) + Len(part)
  BY <1>1, <1>2, <1>3, <1>4, <1>a, <1>c
<1>6. CASE x + u <= cursor + Len(out)
  <2>1. p - cursor \in 1 .. Len(out) /\ p \in cursor + 1 .. cursor + Len(out)
    BY <1>1, <1>b, <1>c, <1>6
  <2>2. out[p - cursor] = d.data[s[i]][u]
    BY <1>3, <1>a, <2>1 DEF Stretch
  <2>3. new[p - cursor] = out[p - cursor]
    BY <1>2, <2>1
  <2> QED BY <1>a, <2>2, <2>3
<1>7. CASE x + u > cursor + Len(out)
  <2>1. PICK k \in 1 .. Len(part) : x + u = cursor + Len(out) + k
    <3> DEFINE k == x + u - cursor - Len(out)
    <3>1. k \in 1 .. Len(part) /\ x + u = cursor + Len(out) + k
      BY <1>1, <1>b, <1>7
    <3> HIDE DEF k
    <3> QED BY <3>1, Zenon
  <2>2. Len(part) >= 1 /\ x + u = y + from + k /\ from + k \in 1 .. P
    BY <1>1, <1>5, <2>1
  <2>3. i = m
    <3>1. CASE i < m
      <4>1. (i + 1) * P = i * P + P /\ (i + 1) * P <= m * P /\ i * P \in Nat /\ m * P \in Nat
        BY <1>1, <3>1, Products DEF P
      <4>2. PICK a \in Nat, b \in Nat : a = i * P /\ b = m * P
        BY <4>1
      <4>3. a + P <= b /\ x = a - P /\ y = b - P
        BY <1>4, <1>5, <4>1, <4>2
      <4> HIDE DEF P
      <4> QED BY <1>1, <1>b, <2>2, <4>3
    <3>2. CASE m < i
      <4>1. (m + 1) * P = m * P + P /\ (m + 1) * P <= i * P /\ i * P \in Nat /\ m * P \in Nat
        BY <1>1, <3>2, Products DEF P
      <4>2. PICK a \in Nat, b \in Nat : a = i * P /\ b = m * P
        BY <4>1
      <4>3. b + P <= a /\ x = a - P /\ y = b - P
        BY <1>4, <1>5, <4>1, <4>2
      <4> HIDE DEF P
      <4> QED BY <1>1, <1>b, <2>2, <4>3
    <3> QED BY <1>1, <3>1, <3>2
  <2>4. u = from + k /\ p - cursor = Len(out) + k
    BY <1>1, <1>4, <1>5, <1>c, <2>1, <2>2, <2>3
  <2>5. new[p - cursor] = d.data[s[i]][u]
    BY <1>2, <2>1, <2>3, <2>4
  <2> QED BY <1>a, <2>5
<1> QED BY <1>1, <1>4, <1>6, <1>7

(* What a read at the cursor has after the i-th cluster. *)
Got(out, d, s, cursor, size, n, i) ==
  /\ out \in Seq(AllUnits(d)) /\ Len(out) = Reached(cursor, n, size, i)
  /\ Stretch(d, s, cursor, out)

LEMMA TakenOn ==
  ASSUME NEW d, Disk(d), NEW s, Len(s) \in Nat, NEW i \in 1 .. Len(s), s[i] \in Clusters,
         NEW cursor \in Nat, NEW size \in Nat, NEW n \in Nat,
         cursor <= size, i * PerCluster - PerCluster <= size,
         NEW out, Got(out, d, s, cursor, size, n, i - 1)
  PROVE  Got(Taken(d, s[i], cursor, size, n, i, out), d, s, cursor, size, n, i)
<1> DEFINE P == PerCluster
           x == i * P
           low == x - P
           part == Lesser(x, size) - low
           skip == IF low <= cursor THEN cursor - low ELSE 0
           count == Lesser(n - Len(out), part - skip)
           sl == Slice(cursor, n, i, Len(out), part)
           A == AllUnits(d)
<1>1. P \in Nat /\ P >= 1 /\ x \in Nat /\ x >= P /\ i \in Nat /\ i >= 1 /\ i - 1 \in Nat
  BY Sizes, Products
<1>2. low = (i - 1) * P
  <2>1. (i - 1 + 1) * P = (i - 1) * P + P /\ (i - 1) * P \in Nat
    BY <1>1, Products DEF P
  <2>2. i - 1 + 1 = i
    BY <1>1
  <2> QED BY <1>1, <2>1, <2>2
<1>3. Len(out) = Upto(low, cursor, n, size) /\ out \in Seq(A)
  BY <1>2 DEF Got, Reached, P
<1> HIDE DEF x
<1>a. TakesPart(P, x, cursor, n, size, Len(out))
  <2>1. x - P <= size
    BY DEF x
  <2> HIDE DEF P
  <2> QED BY <1>1, <1>3, <2>1, ReadArithmetic
<1>4. /\ part \in 0 .. P /\ Len(out) \in 0 .. n
      /\ x > cursor =>
           /\ skip \in 0 .. part /\ count \in Nat /\ skip + count <= P
           /\ Len(out) + count = Lesser(n, Lesser(x, size) - cursor)
           /\ count >= 1 => low + skip = cursor + Len(out)
      /\ x <= cursor => Len(out) = 0
  BY <1>a DEF TakesPart
<1>5. PartSize(size, i) = part
  BY <1>1 DEF PartSize, Lesser, x
<1>6. skip = Skipped(cursor, i)
  BY DEF Skipped, x
<1>7. IsSlice(sl, cursor, n, i, Len(out), part)
  <2>1. i * PerCluster > cursor => Skipped(cursor, i) <= part
    BY <1>4, <1>6 DEF x
  <2> HIDE DEF skip, part
  <2> QED BY <1>1, <1>4, <2>1, SliceIs DEF P
<1> DEFINE units == SubSeq(d.data[s[i]], sl.from + 1, sl.from + sl.count)
           new == Taken(d, s[i], cursor, size, n, i, out)
<1>8. new = out \o units
  BY <1>5 DEF Taken
<1> HIDE DEF part, count, skip
<1>9. /\ sl.from \in Nat /\ sl.count \in Nat /\ sl.from + sl.count <= P
      /\ Len(out) + sl.count = Reached(cursor, n, size, i)
      /\ sl.count >= 1 => i * P - P + sl.from = cursor + Len(out)
  <2>1. CASE x <= cursor
    <3>1. sl.from = 0 /\ sl.count = 0
      BY <1>7, <2>1 DEF IsSlice, x
    <3> QED BY <1>1, <1>4, <2>1, <3>1 DEF Reached, Upto, x
  <2>2. CASE x > cursor
    <3>1. sl.from = skip /\ sl.count = count
      BY <1>6, <1>7, <2>2 DEF IsSlice, x, count
    <3>2. ~(x <= cursor)
      BY <1>1, <2>2
    <3>3. Reached(cursor, n, size, i) = Lesser(n, Lesser(x, size) - cursor)
      BY <3>2 DEF Reached, Upto, x
    <3> QED BY <1>4, <2>2, <3>1, <3>3 DEF x
  <2> QED BY <1>1, <2>1, <2>2
<1> HIDE DEF sl
<1>10. IsPart(units, d, s[i], sl.from, sl.count)
  BY <1>9, ClusterUnits
<1> HIDE DEF units, new
<1>11. /\ units \in Seq(A) /\ Len(units) = sl.count
       /\ \A k \in 1 .. Len(units) : units[k] = d.data[s[i]][sl.from + k]
  BY <1>10 DEF IsPart
<1>12. Stretch(d, s, cursor, out \o units)
  <2>1. Stretch(d, s, cursor, out)
    BY DEF Got
  <2> HIDE DEF A
  <2> QED BY <1>3, <1>9, <1>11, <2>1, StretchOn DEF P
<1>13. out \in Seq(A) /\ units \in Seq(A)
  BY <1>3, <1>11
<1> HIDE DEF A
<1>14. out \o units \in Seq(A)
  BY <1>13, ConcatProperties, Zenon
<1>15. Len(out \o units) = Len(out) + Len(units)
  BY <1>13, ConcatProperties, Zenon
<1>16. Got(new, d, s, cursor, size, n, i)
  BY <1>8, <1>9, <1>11, <1>12, <1>14, <1>15 DEF Got, A
<1> QED BY <1>16 DEF new

(* The size of a file is within its last cluster. *)
Fills(s, size) == size \in Nat /\ Len(s) * PerCluster - PerCluster <= size /\ size <= Len(s) * PerCluster

LEMMA Gathered ==
  ASSUME NEW d, Disk(d), NEW s, IsChain(d, s), NEW size, Fills(s, size),
         NEW cursor \in 0 .. size, NEW n \in Nat
  PROVE  Got(Gather(d, s, cursor, size, n)[Len(s)], d, s, cursor, size, n, Len(s))
<1> DEFINE turn == Gather(d, s, cursor, size, n)
           m == Len(s)
           E == {i \in 0 .. m : Got(turn[i], d, s, cursor, size, n, i)}
<1>1. m \in Nat /\ cursor \in Nat /\ size \in Nat /\ cursor <= size /\ PerCluster \in Nat
  BY ChainIs, Sizes DEF Fills
<1>2. \A k \in 0 .. m : turn[k] = IF k = 0 THEN <<>> ELSE Taken(d, s[k], cursor, size, n, k, turn[k - 1])
  BY <1>1, GatherTurn
<1> HIDE DEF turn
<1>3. Got(<<>>, d, s, cursor, size, n, 0)
  <2>1. <<>> \in Seq(AllUnits(d)) /\ Len(<<>>) = 0
    OBVIOUS
  <2>2. Reached(cursor, n, size, 0) = 0
    BY <1>1 DEF Reached, Upto
  <2>3. Stretch(d, s, cursor, <<>>)
    BY <1>1, <2>1 DEF Stretch
  <2> QED BY <2>1, <2>2, <2>3 DEF Got
<1>4. 0 \in E
  BY <1>1, <1>2, <1>3
<1>5. ASSUME NEW i \in 1 .. m, i - 1 \in E PROVE i \in E
  <2>1. i \in 0 .. m /\ i # 0 /\ i \in 1 .. Len(s) /\ i \in Nat /\ i <= m /\ s[i] \in Clusters
    BY <1>1, ChainIs
  <2>2. i * PerCluster - PerCluster <= size
    <3>1. i * PerCluster <= m * PerCluster /\ i * PerCluster \in Nat /\ m * PerCluster \in Nat
      BY <1>1, <2>1, Products
    <3>2. m * PerCluster - PerCluster <= size
      BY DEF Fills
    <3>3. PICK a \in Nat, b \in Nat : a = i * PerCluster /\ b = m * PerCluster
      BY <3>1
    <3> QED BY <1>1, <3>1, <3>2, <3>3
  <2>3. Got(turn[i - 1], d, s, cursor, size, n, i - 1)
    BY <1>5
  <2>4. Got(Taken(d, s[i], cursor, size, n, i, turn[i - 1]), d, s, cursor, size, n, i)
    BY <1>1, <2>1, <2>2, <2>3, TakenOn
  <2>5. turn[i] = Taken(d, s[i], cursor, size, n, i, turn[i - 1])
    BY <1>2, <2>1
  <2> QED BY <2>1, <2>4, <2>5
<1>6. \A i \in 0 .. m : i \in E
  <2> HIDE DEF E
  <2> QED BY <1>1, <1>4, <1>5, Turns
<1>7. m \in 0 .. m
  BY <1>1
<1> QED BY <1>6, <1>7 DEF turn

LEMMA SameChain ==
  ASSUME NEW d, NEW e, Same(d, e), NEW s
  PROVE  /\ IsChain(d, s) => IsChain(e, s)
         /\ \A at, out : Stretch(e, s, at, out) => Stretch(d, s, at, out)
<1>1. e.fat = d.fat /\ e.data = d.data
  BY DEF Same
<1> QED BY <1>1 DEF IsChain, Stretch

(* fat_fread of n units returns the file's own units from the cursor on, as  *)
(* many as asked for and no further than the end of the file, moves the      *)
(* cursor by as many and changes nothing on the disk, whatever an earlier    *)
(* call has left in the cache.                                               *)
THEOREM ReadsTheFile ==
  ASSUME NEW d, Disk(d), NEW f, NEW s, IsChain(d, s), f.entry.first = s[1],
         Fills(s, f.entry.size), f.cursor \in 0 .. f.entry.size, NEW n \in Nat
  PROVE  LET r == FRead(d, f, n)
         IN  /\ r.out \in Seq(AllUnits(d))
             /\ Len(r.out) = Lesser(n, f.entry.size - f.cursor)
             /\ Stretch(d, s, f.cursor, r.out)
             /\ r.file = [f EXCEPT !.cursor = @ + Len(r.out)]
             /\ Same(d, r.disk)
<1> DEFINE w == CachedWalk(d, s[1])
           cursor == f.cursor
           size == f.entry.size
           out == Gather(w.disk, w.chain, cursor, size, n)[Len(w.chain)]
           r == FRead(d, f, n)
<1>1. w.chain = s /\ Same(d, w.disk)
  BY WalksTheChain
<1>2. r = [disk |-> w.disk, out |-> out, file |-> [f EXCEPT !.cursor = @ + Len(out)]]
  BY DEF FRead, ReadAlong, ReadOut
<1>3. Disk(w.disk) /\ IsChain(w.disk, s) /\ AllUnits(w.disk) = AllUnits(d)
  <2>1. Disk(w.disk) /\ w.disk.data = d.data
    BY <1>1 DEF Same
  <2>2. IsChain(w.disk, s)
    BY <1>1, SameChain
  <2> QED BY <2>1, <2>2 DEF AllUnits
<1>4. Got(out, w.disk, s, cursor, size, n, Len(s))
  <2> HIDE DEF w
  <2>1. Got(Gather(w.disk, s, cursor, size, n)[Len(s)], w.disk, s, cursor, size, n, Len(s))
    BY <1>3, Gathered
  <2> QED BY <1>1, <2>1
<1> HIDE DEF out, r, w
<1>5. /\ out \in Seq(AllUnits(d)) /\ Stretch(d, s, cursor, out)
      /\ Len(out) = Reached(cursor, n, size, Len(s))
  BY <1>1, <1>3, <1>4, SameChain DEF Got
<1>6. Reached(cursor, n, size, Len(s)) = Lesser(n, size - cursor)
  <2>1. /\ Len(s) * PerCluster \in Nat /\ size <= Len(s) * PerCluster /\ size \in Nat
        /\ cursor \in Nat /\ cursor <= size
    BY ChainIs, Products DEF Fills
  <2>2. PICK x \in Nat : x = Len(s) * PerCluster
    BY <2>1
  <2>3. Upto(x, cursor, n, size) = Lesser(n, size - cursor)
    BY <2>1, <2>2 DEF Upto, Lesser
  <2> QED BY <2>2, <2>3 DEF Reached
<1>7. r.out = out /\ r.disk = w.disk /\ r.file = [f EXCEPT !.cursor = @ + Len(out)]
  BY <1>2
<1>8. /\ r.out \in Seq(AllUnits(d))
      /\ Len(r.out) = Lesser(n, f.entry.size - f.cursor)
      /\ Stretch(d, s, f.cursor, r.out)
      /\ r.file = [f EXCEPT !.cursor = @ + Len(r.out)]
      /\ Same(d, r.disk)
  BY <1>1, <1>5, <1>6, <1>7
<1> QED BY <1>8 DEF r

-----------------------------------------------------------------------------
(* The search for a free cluster. *)

FirstFree(d, c, x) ==
  /\ x \in Nat /\ x >= c /\ TableEntry(d, x) = Free
  /\ \A y \in c .. x - 1 : TableEntry(d, y) # Free

NoneFree(d, c) == \A x \in Nat : x >= c /\ x * SecPerClus < TotSec => TableEntry(d, x) # Free

(* The search from c after k entries. *)
Sought(w, k, d, c) ==
  /\ Same(d, w.disk) /\ Coherent(w.disk)
  /\ \/ w.over = TRUE /\ ((w.cluster = 0 /\ NoneFree(d, c)) \/ FirstFree(d, c, w.cluster))
     \/ /\ w.over = FALSE /\ w.at = c + k /\ (k >= 1 => w.at * SecPerClus < TotSec)
        /\ \A x \in c .. c + k - 1 : TableEntry(d, x) # Free

LEMMA SoughtOn ==
  ASSUME NEW d, Disk(d), NEW c \in Nat, NEW k \in Nat, NEW w, Sought(w, k, d, c)
  PROVE  Sought(Search(w), k + 1, d, c)
<1> DEFINE e == Cached(w.disk, w.at)
<1>1. CASE w.over = TRUE
  <2>1. Search(w) = w
    BY <1>1 DEF Search
  <2> QED BY <1>1, <2>1 DEF Sought
<1>2. CASE w.over = FALSE
  <2>1. /\ w.at = c + k /\ w.at \in Nat /\ Same(d, w.disk) /\ Coherent(w.disk)
        /\ \A x \in c .. c + k - 1 : TableEntry(d, x) # Free
    BY <1>2 DEF Sought
  <2>2. Search(w) = Look(e, w)
    BY <1>2 DEF Search
  <2>3. Same(w.disk, e) /\ Coherent(e) /\ CachedEntry(e, w.at) = TableEntry(w.disk, w.at)
    BY <2>1, CachedReads DEF Same
  <2>4. Same(d, e) /\ TableEntry(w.disk, w.at) = TableEntry(d, w.at)
    BY <2>1, <2>3, SameTrans, SameEntry
  <2> HIDE DEF e
  <2>5. CASE TableEntry(d, w.at) = Free
    <3>1. Look(e, w) = [disk |-> e, at |-> w.at, over |-> TRUE, cluster |-> w.at]
      BY <2>3, <2>4, <2>5 DEF Look
    <3>2. FirstFree(d, c, w.at)
      BY <2>1, <2>5 DEF FirstFree
    <3> QED BY <2>2, <2>3, <2>4, <3>1, <3>2 DEF Sought
  <2>6. CASE TableEntry(d, w.at) # Free
    <3>1. Look(e, w) = [disk |-> e, at |-> w.at + 1, over |-> (w.at + 1) * SecPerClus >= TotSec,
                        cluster |-> 0]
      BY <2>3, <2>4, <2>6 DEF Look
    <3>2. \A x \in c .. c + (k + 1) - 1 : TableEntry(d, x) # Free
      <4>1. \A x \in c .. c + (k + 1) - 1 : x \in c .. c + k - 1 \/ x = c + k
        OBVIOUS
      <4> QED BY <2>1, <2>6, <4>1
    <3>3. w.at + 1 = c + (k + 1) /\ w.at + 1 \in Nat
      BY <2>1
    <3>4. PICK b \in Nat : b = (w.at + 1) * SecPerClus
      BY <3>3, Sizes
    <3>5. CASE b >= TotSec
      <4>1. NoneFree(d, c)
        <5>1. SUFFICES ASSUME NEW x \in Nat, x >= c, x * SecPerClus < TotSec
                       PROVE  TableEntry(d, x) # Free
          BY DEF NoneFree
        <5>2. ~(x >= w.at + 1)
          <6>1. ASSUME x >= w.at + 1 PROVE FALSE
            <7>1. PICK y \in Nat : x = w.at + 1 + y
              <8>1. x - (w.at + 1) \in Nat
                BY <3>3, <6>1
              <8> QED BY <3>3, <8>1
            <7>2. y * SecPerClus \in Nat /\ x * SecPerClus = b + y * SecPerClus
              BY <3>3, <3>4, <7>1, Sizes
            <7>3. PICK z \in Nat : z = y * SecPerClus
              BY <7>2
            <7> QED BY <3>4, <3>5, <5>1, <7>2, <7>3, Sizes
          <6> QED BY <6>1
        <5> QED BY <2>1, <3>2, <3>3, <5>1, <5>2
      <4>2. Search(w).disk = e /\ Search(w).over = TRUE /\ Search(w).cluster = 0
        <5>1. ((w.at + 1) * SecPerClus >= TotSec) = TRUE
          BY <3>4, <3>5
        <5>2. Search(w) = [disk |-> e, at |-> w.at + 1, over |-> TRUE, cluster |-> 0]
          BY <2>2, <3>1, <5>1, Zenon
        <5> QED BY <5>2
      <4> QED BY <2>3, <2>4, <4>1, <4>2 DEF Sought
    <3>6. CASE ~(b >= TotSec)
      <4>1. Search(w).disk = e /\ Search(w).over = FALSE /\ Search(w).at = w.at + 1
        <5>1. ((w.at + 1) * SecPerClus >= TotSec) = FALSE
          BY <3>4, <3>6
        <5>2. Search(w) = [disk |-> e, at |-> w.at + 1, over |-> FALSE, cluster |-> 0]
          BY <2>2, <3>1, <5>1, Zenon
        <5> QED BY <5>2
      <4>2. Search(w).at * SecPerClus < TotSec
        BY <3>4, <3>6, <4>1, Sizes
      <4> QED BY <2>3, <2>4, <3>2, <3>3, <4>1, <4>2 DEF Sought
    <3> QED BY <3>5, <3>6
  <2> QED BY <2>5, <2>6
<1> QED BY <1>1, <1>2 DEF Sought

(* The search finds the first free cluster from c up, or says that none is   *)
(* left below the limit, and leaves the disk as it is.                       *)
LEMMA FreeFromIs ==
  ASSUME NEW d, Disk(d), Coherent(d), NEW c \in Nat
  PROVE  /\ Same(d, FreeFrom(d, c).disk)
         /\ \/ FreeFrom(d, c).cluster = 0 /\ NoneFree(d, c)
            \/ FirstFree(d, c, FreeFrom(d, c).cluster)
<1> DEFINE turn == Searched(d, c)
           a == [disk |-> d, at |-> c, over |-> FALSE, cluster |-> 0]
           E == {k \in 0 .. TotSec : Sought(turn[k], k, d, c)}
<1>1. \A k \in 0 .. TotSec : turn[k] = IF k = 0 THEN a ELSE Search(turn[k - 1])
  BY SearchTurn
<1> HIDE DEF turn
<1>2. TotSec \in Nat /\ TotSec >= 1 /\ 0 \in 0 .. TotSec /\ TotSec \in 0 .. TotSec
  BY Sizes
<1>3. Sought(a, 0, d, c)
  <2>1. \A x \in c .. c + 0 - 1 : FALSE
    OBVIOUS
  <2>2. a.disk = d /\ a.at = c + 0 /\ a.over = FALSE
    OBVIOUS
  <2> HIDE DEF a
  <2>3. Same(d, d)
    BY DEF Same
  <2> QED BY <2>1, <2>2, <2>3 DEF Sought
<1>4. 0 \in E
  BY <1>1, <1>2, <1>3
<1>5. ASSUME NEW k \in 1 .. TotSec, k - 1 \in E PROVE k \in E
  <2>1. k \in 0 .. TotSec /\ k # 0 /\ k - 1 \in Nat /\ k - 1 + 1 = k
    BY <1>2
  <2>2. Sought(Search(turn[k - 1]), k - 1 + 1, d, c)
    BY <1>5, <2>1, SoughtOn
  <2> QED BY <1>1, <2>1, <2>2
<1>6. \A k \in 0 .. TotSec : k \in E
  <2> HIDE DEF E
  <2> QED BY <1>2, <1>4, <1>5, Turns
<1>7. Sought(turn[TotSec], TotSec, d, c)
  BY <1>2, <1>6
<1>8. turn[TotSec].over = TRUE
  <2>1. SUFFICES ASSUME turn[TotSec].over = FALSE PROVE FALSE
    BY <1>7 DEF Sought
  <2>2. (c + TotSec) * SecPerClus < TotSec
    BY <1>2, <1>7, <2>1 DEF Sought
  <2>3. (c + TotSec) * SecPerClus = (c + TotSec) * (SecPerClus - 1) + (c + TotSec)
        /\ (c + TotSec) * (SecPerClus - 1) \in Nat
    BY <1>2, Sizes
  <2>4. PICK z \in Nat : z = (c + TotSec) * (SecPerClus - 1)
    BY <2>3
  <2> QED BY <1>2, <2>2, <2>3, <2>4
<1> QED BY <1>7, <1>8 DEF Sought, FreeFrom, turn

-----------------------------------------------------------------------------
(* Writing. *)

(* Units of different clusters are at different places of the file. *)
LEMMA Apart ==
  ASSUME NEW i \in Nat, i >= 1, NEW m \in Nat, m >= 1, i # m, NEW u \in 1 .. PerCluster
  PROVE  i * PerCluster - PerCluster + u
           \notin m * PerCluster - PerCluster + 1 .. m * PerCluster
<1> DEFINE P == PerCluster
<1>1. P \in Nat /\ P >= 1 /\ u \in Nat /\ u >= 1 /\ u <= P
  BY Sizes
<1>2. PICK a \in Nat, b \in Nat : a = i * P /\ b = m * P
  BY Products
<1>3. CASE i < m
  <2>1. (i + 1) * P = i * P + P /\ (i + 1) * P <= m * P
    BY <1>1, <1>3, Products DEF P
  <2>2. a + P <= b
    BY <1>2, <2>1
  <2> HIDE DEF P
  <2>3. a - P + u \notin b - P + 1 .. b
    BY <1>1, <2>2
  <2> QED BY <1>2, <2>3 DEF P
<1>4. CASE m < i
  <2>1. (m + 1) * P = m * P + P /\ (m + 1) * P <= i * P
    BY <1>1, <1>4, Products DEF P
  <2>2. b + P <= a
    BY <1>2, <2>1
  <2> HIDE DEF P
  <2>3. a - P + u \notin b - P + 1 .. b
    BY <1>1, <2>2
  <2> QED BY <1>2, <2>3 DEF P
<1> QED BY <1>3, <1>4

(* How much of n units at the cursor is written when the first x units of    *)
(* the file have been passed.                                                *)
Put(x, cursor, n) == IF x <= cursor THEN 0 ELSE Lesser(n, x - cursor)

(* The part of a cluster of P units that a write replaces. *)
PutsPart(P, x, cursor, n, done, from, count) ==
  /\ done \in 0 .. n /\ from \in Nat /\ count \in Nat /\ from + count <= P
  /\ done + count <= n /\ done + count = Put(x, cursor, n)
  /\ \A p \in Int : p \in cursor + done + 1 .. cursor + done + count => p \in x - P + 1 .. x
  /\ \A u \in 1 .. P : /\ x - P + u - cursor \in 1 .. done + count <=> u - from \in 1 .. count
                       /\ u - from \in 1 .. count => done + (u - from) = x - P + u - cursor

LEMMA WriteArithmetic ==
  ASSUME NEW P \in Nat, P >= 1, NEW x \in Nat, x >= P, NEW cursor \in Nat, NEW n \in Nat,
         NEW done, done = Put(x - P, cursor, n), NEW from, NEW count,
         x <= cursor => from = 0 /\ count = 0,
         x > cursor => from = (IF x - P <= cursor THEN cursor - (x - P) ELSE 0)
                       /\ count = Lesser(n - done, P - from)
  PROVE  PutsPart(P, x, cursor, n, done, from, count)
<1> DEFINE low == x - P
<1>1. low \in Nat /\ x = low + P
  OBVIOUS
<1> HIDE DEF low
<1>2. done \in 0 .. n /\ (low <= cursor => done = 0) /\ (low > cursor => done = Lesser(n, low - cursor))
  BY <1>1 DEF Put, Lesser, low
<1>3. CASE x <= cursor
  <2>1. from = 0 /\ count = 0 /\ done = 0 /\ Put(x, cursor, n) = 0
    BY <1>1, <1>2, <1>3 DEF Put
  <2> QED BY <1>1, <2>1 DEF PutsPart, low
<1>4. CASE x > cursor /\ low <= cursor
  <2>1. from = cursor - low /\ count = Lesser(n, x - cursor) /\ done = 0
    BY <1>1, <1>2, <1>4 DEF low
  <2>2. from \in Nat /\ count \in Nat /\ from + count <= P /\ count <= n /\ count = Put(x, cursor, n)
    BY <1>1, <1>4, <2>1 DEF Lesser, Put
  <2> QED BY <1>1, <1>4, <2>1, <2>2 DEF PutsPart, low
<1>5. CASE x > cursor /\ low > cursor
  <2>1. from = 0 /\ count = Lesser(n - done, P) /\ done = Lesser(n, low - cursor)
    BY <1>1, <1>2, <1>5 DEF low
  <2>2. count \in Nat /\ count <= P /\ done + count <= n /\ done + count = Put(x, cursor, n)
    BY <1>1, <1>2, <1>5, <2>1 DEF Lesser, Put
  <2>3. done <= low - cursor /\ (count >= 1 => done = low - cursor)
    BY <1>1, <1>5, <2>1 DEF Lesser
  <2> QED BY <1>1, <1>2, <1>5, <2>1, <2>2, <2>3 DEF PutsPart, low
<1> QED BY <1>1, <1>3, <1>4, <1>5

(* Only the units of one cluster change. *)
Altered(e, g, c) == Disk(g) /\ g.fat = e.fat /\ \A x \in Clusters : x # c => g.data[x] = e.data[x]

LEMMA PutUnitsIs ==
  ASSUME NEW e, Disk(e), NEW c \in Clusters, NEW from, NEW part
  PROVE  LET g == PutUnits(e, c, from, part)
         IN  /\ Altered(e, g, c)
             /\ \A u \in 1 .. PerCluster :
                  g.data[c][u] = IF u - from \in 1 .. Len(part) THEN part[u - from] ELSE e.data[c][u]
<1> DEFINE v == [i \in 1 .. PerCluster |->
                   IF i - from \in 1 .. Len(part) THEN part[i - from] ELSE e.data[c][i]]
           g == PutUnits(e, c, from, part)
           h == [e EXCEPT !.data[c] = v]
<1>1. g = h
  BY DEF PutUnits, Clusters
<1>2. Units(v)
  BY DEF Units
<1>3. /\ Disk(h) /\ h.fat = e.fat /\ h.cache = e.cache
      /\ h.data[c] = v /\ \A x \in Clusters : x # c => h.data[x] = e.data[x]
  <2> HIDE DEF v
  <2> QED BY <1>2, DataSet
<1> HIDE DEF h, g
<1>4. Altered(e, g, c) /\ g.data[c] = v
  BY <1>1, <1>3 DEF Altered
<1>5. \A u \in 1 .. PerCluster :
        g.data[c][u] = IF u - from \in 1 .. Len(part) THEN part[u - from] ELSE e.data[c][u]
  BY <1>4
<1> QED BY <1>4, <1>5 DEF g

(* An entry is written to both tables, and the cluster it names is zeroed. *)
Linked(g, e, c, to) ==
  /\ Disk(g) /\ g.fat[c] = to /\ \A i \in 0 .. Entries - 1 : i # c => g.fat[i] = e.fat[i]
  /\ \A x \in Clusters : x # to => g.data[x] = e.data[x]
  /\ \A u \in 1 .. PerCluster : g.data[to][u] = Zero

LEMMA LinkIs ==
  ASSUME NEW e, Disk(e), NEW c \in Clusters, NEW to \in Clusters
  PROVE  Linked(Link(e, c, to), e, c, to)
<1> DEFINE f == WriteEntry(e, c, to)
           v == [i \in 1 .. PerCluster |-> Zero]
           h == [f EXCEPT !.data[to] = v]
           g == Link(e, c, to)
<1>1. to \in Int /\ to # End
  BY Sizes DEF Clusters
<1>2. /\ Disk(f) /\ f.data = e.data /\ f.cache = e.cache
      /\ f.fat[c] = to /\ \A i \in 0 .. Entries - 1 : i # c => f.fat[i] = e.fat[i]
  BY <1>1, WriteEntryIs
<1> HIDE DEF f
<1>3. g = h
  BY <1>1 DEF Link, ClearCluster, Clusters, f
<1>4. Units(v)
  BY DEF Units
<1>5. /\ Disk(h) /\ h.fat = f.fat /\ h.cache = f.cache
      /\ h.data[to] = v /\ \A x \in Clusters : x # to => h.data[x] = f.data[x]
  <2> DEFINE y == f
  <2>1. Disk(y)
    BY <1>2
  <2> HIDE DEF v, y
  <2>2. LET z == [y EXCEPT !.data[to] = v]
        IN  /\ Disk(z) /\ z.fat = y.fat /\ z.cache = y.cache
            /\ z.data[to] = v /\ \A x \in Clusters : x # to => z.data[x] = y.data[x]
    BY <1>4, <2>1, DataSet
  <2> QED BY <2>2 DEF y
<1> HIDE DEF g, h
<1>6. /\ Disk(g) /\ g.fat[c] = to
      /\ \A i \in 0 .. Entries - 1 : i # c => g.fat[i] = e.fat[i]
      /\ \A x \in Clusters : x # to => g.data[x] = e.data[x]
      /\ g.data[to] = v
  BY <1>2, <1>3, <1>5
<1>7. \A u \in 1 .. PerCluster : g.data[to][u] = Zero
  BY <1>6
<1> QED BY <1>6, <1>7 DEF g, Linked

(* "Cluster" 0x0FFFFFFF is cleared: where that zeroes entries, these are free. *)
LEMMA LinkEndIs ==
  ASSUME NEW e, Disk(e), NEW c \in Clusters, c \notin Wiped(1) \cup Wiped(2),
         \A i \in Wiped(1) \cup Wiped(2) : e.fat[i] = Free
  PROVE  LET g == Link(e, c, End)
         IN  /\ Disk(g) /\ g.data = e.data /\ g.fat[c] = End
             /\ \A i \in 0 .. Entries - 1 : i # c => g.fat[i] = e.fat[i]
<1> DEFINE f == WriteEntry(e, c, End)
           g == Link(e, c, End)
<1>1. /\ Disk(f) /\ f.data = e.data /\ f.cache = e.cache
      /\ f.fat[c] = End /\ \A i \in 0 .. Entries - 1 : i # c => f.fat[i] = e.fat[i]
  <2>1. End \in Int
    BY Sizes
  <2> QED BY <2>1, WriteEntryIs
<1> HIDE DEF f
<1>2. \A i \in Wiped(1) \cup Wiped(2) : f.fat[i] = Free
  <2>1. \A i \in Wiped(1) \cup Wiped(2) : i \in 0 .. Entries - 1 /\ i # c
    BY DEF Wiped
  <2> QED BY <1>1, <2>1
<1>3. PICK t, k, a : f = [fat |-> t, backup |-> t, cache |-> k, data |-> a]
  BY <1>1 DEF Disk
<1>4. f.fat = t /\ f.backup = t /\ t \in [0 .. Entries - 1 -> Int] /\ Free \in Int
  BY <1>1, <1>3, Sizes DEF Disk
<1> DEFINE t1 == [i \in DOMAIN t |-> IF i \in Wiped(1) THEN Free ELSE t[i]]
           t2 == [i \in DOMAIN t |-> IF i \in Wiped(2) THEN Free ELSE t[i]]
<1>5. t1 = t /\ t2 = t
  <2>1. \A i \in DOMAIN t : (IF i \in Wiped(1) THEN Free ELSE t[i]) = t[i]
    BY <1>2, <1>4
  <2>2. \A i \in DOMAIN t : (IF i \in Wiped(2) THEN Free ELSE t[i]) = t[i]
    BY <1>2, <1>4
  <2>3. t = [i \in DOMAIN t |-> t[i]]
    BY <1>4
  <2>4. t1 = t
    BY <2>1, <2>3
  <2>5. t2 = t
    BY <2>2, <2>3
  <2> QED BY <2>4, <2>5
<1>6. g = [f EXCEPT !.fat = [i \in DOMAIN @ |-> IF i \in Wiped(1) THEN Free ELSE @[i]],
                    !.backup = [i \in DOMAIN @ |-> IF i \in Wiped(2) THEN Free ELSE @[i]]]
  BY DEF Link, ClearCluster, f
<1>7. g = [fat |-> t1, backup |-> t2, cache |-> k, data |-> a]
  <2> DEFINE g1 == [f EXCEPT !.fat = t1]
  <2>1. g = [g1 EXCEPT !.backup = t2]
    BY <1>4, <1>6
  <2> HIDE DEF t1, t2
  <2>2. g1 = [fat |-> t1, backup |-> t, cache |-> k, data |-> a]
    BY <1>3
  <2> HIDE DEF g, g1
  <2>3. g = [fat |-> t1, backup |-> t2, cache |-> k, data |-> a]
    BY <2>1, <2>2
  <2> QED BY <2>3 DEF g
<1>8. g = f
  <2> HIDE DEF g, t1, t2
  <2> QED BY <1>3, <1>5, <1>7
<1> HIDE DEF g
<1>9. /\ Disk(g) /\ g.data = e.data /\ g.fat[c] = End
      /\ \A i \in 0 .. Entries - 1 : i # c => g.fat[i] = e.fat[i]
  BY <1>1, <1>8
<1> QED BY <1>9 DEF g

(* The file's units after a write: those written so far, and elsewhere what  *)
(* was there before, or zeros in a cluster that is new.                      *)
OldUnit(d, s, i, u) == IF i <= Len(s) THEN d.data[s[i]][u] ELSE Zero
Overlaid(d, e, s, t, cursor, units, done) ==
  \A i \in 1 .. Len(t), u \in 1 .. PerCluster :
    e.data[t[i]][u] = IF Place(i, u) - cursor \in 1 .. done THEN units[Place(i, u) - cursor]
                      ELSE OldUnit(d, s, i, u)

Distinct(t) == t \in Seq(Clusters) /\ \A i, j \in 1 .. Len(t) : t[i] = t[j] => i = j

(* The state of the loop that writes. *)
IsWriter(w) == w = [disk |-> w.disk, at |-> w.at, i |-> w.i, done |-> w.done, ok |-> w.ok]

Transferred(g, d, e, s, t, i, cursor, units, to) ==
  /\ IsWriter(g) /\ Altered(e, g.disk, t[i]) /\ Overlaid(d, g.disk, s, t, cursor, units, g.done)
  /\ g.done = Put(i * PerCluster, cursor, Len(units))
  /\ g.at = to /\ g.i = i + 1 /\ g.ok = TRUE

LEMMA SomeUnits ==
  ASSUME NEW U, NEW units \in Seq(U), NEW a \in Nat, NEW b \in Nat, a + b <= Len(units)
  PROVE  LET part == SubSeq(units, a + 1, a + b)
         IN  Len(part) = b /\ \A k \in 1 .. b : part[k] = units[a + k]
<1> DEFINE from == a + 1
           to == a + b
           part == SubSeq(units, from, to)
<1>1. /\ from \in Int /\ to \in Int /\ \A k \in from .. to : units[k] \in U
      /\ from = a + 1 /\ to = a + b
  OBVIOUS
<1> HIDE DEF from, to
<1>2. /\ Len(part) = (IF from <= to THEN to - from + 1 ELSE 0)
      /\ \A k \in 1 .. to - from + 1 : part[k] = units[from + k - 1]
  BY <1>1, SubSeqProperties, SMT
<1> HIDE DEF part
<1>3. Len(part) = b /\ \A k \in 1 .. b : part[k] = units[a + k]
  BY <1>1, <1>2
<1> QED BY <1>3 DEF part, from, to

LEMMA TransferIs ==
  ASSUME NEW d, NEW s, NEW e, Disk(e), NEW t, Distinct(t), NEW i \in 1 .. Len(t),
         NEW U, NEW units \in Seq(U), NEW cursor \in Nat,
         NEW w, w.at = t[i], w.i = i, w.done = Put(i * PerCluster - PerCluster, cursor, Len(units)),
         Overlaid(d, e, s, t, cursor, units, w.done), NEW to
  PROVE  Transferred(Transfer(w, e, cursor, units, to), d, e, s, t, i, cursor, units, to)
<1> DEFINE P == PerCluster
           n == Len(units)
           done == w.done
           sl == Slice(cursor, n, i, done, P)
           part == SubSeq(units, done + 1, done + sl.count)
           c == t[i]
           h == PutUnits(e, c, sl.from, part)
           g == Transfer(w, e, cursor, units, to)
<1>1. /\ P \in Nat /\ P >= 1 /\ n \in Nat /\ i \in Nat /\ i >= 1 /\ c \in Clusters
      /\ i * P \in Nat /\ i * P >= P
  <2>1. n \in Nat /\ i \in Nat /\ i >= 1 /\ c \in Clusters
    BY DEF Distinct
  <2> HIDE DEF n, c
  <2> QED BY <2>1, Sizes, Products
<1>2. g = [disk |-> h, at |-> to, i |-> i + 1, done |-> done + sl.count, ok |-> TRUE]
  BY DEF Transfer
<1>a. done \in 0 .. n
  <2>1. PICK x \in Nat : x = i * P /\ x >= P
    BY <1>1
  <2>2. done = Put(x - P, cursor, n)
    BY <2>1
  <2> HIDE DEF done, P, n
  <2> QED BY <1>1, <2>1, <2>2 DEF Put, Lesser
<1>3. IsSlice(sl, cursor, n, i, done, P)
  <2>1. i * PerCluster > cursor => Skipped(cursor, i) \in 0 .. PerCluster
    <3>1. PICK x \in Nat : x = i * P /\ x >= P
      BY <1>1
    <3> QED BY <1>1, <3>1 DEF Skipped
  <2>2. i * PerCluster > cursor => Skipped(cursor, i) <= P
    BY <1>1, <2>1
  <2>3. P \in 0 .. PerCluster
    BY <1>1
  <2> HIDE DEF P, n, done
  <2>4. i * PerCluster > cursor => Skipped(cursor, i) <= P
    BY <2>2
  <2> QED BY <1>1, <1>a, <2>3, <2>4, SliceIs
<1>4. PutsPart(P, i * P, cursor, n, done, sl.from, sl.count)
  <2>1. PICK x : x = i * P
    OBVIOUS
  <2>2. x <= cursor => sl.from = 0 /\ sl.count = 0
    BY <1>3, <2>1 DEF IsSlice
  <2>3. x > cursor => sl.from = (IF x - P <= cursor THEN cursor - (x - P) ELSE 0)
                      /\ sl.count = Lesser(n - done, P - sl.from)
    BY <1>3, <2>1 DEF IsSlice, Skipped
  <2>4. x \in Nat /\ x >= P /\ done = Put(x - P, cursor, n)
    BY <1>1, <2>1
  <2> HIDE DEF P, n, done, sl
  <2>5. PutsPart(P, x, cursor, n, done, sl.from, sl.count)
    BY <1>1, <2>2, <2>3, <2>4, WriteArithmetic
  <2> QED BY <2>1, <2>5
<1> HIDE DEF sl, done
<1>5. /\ sl.from \in Nat /\ sl.count \in Nat /\ done \in Nat /\ done + sl.count <= n
      /\ done + sl.count = Put(i * P, cursor, n)
      /\ \A p \in Int : p \in cursor + done + 1 .. cursor + done + sl.count => p \in i * P - P + 1 .. i * P
      /\ \A u \in 1 .. P :
           /\ i * P - P + u - cursor \in 1 .. done + sl.count <=> u - sl.from \in 1 .. sl.count
           /\ u - sl.from \in 1 .. sl.count => done + (u - sl.from) = i * P - P + u - cursor
  BY <1>4 DEF PutsPart
<1>6. Len(part) = sl.count /\ \A k \in 1 .. sl.count : part[k] = units[done + k]
  <2>1. done \in Nat /\ sl.count \in Nat /\ done + sl.count <= Len(units)
    BY <1>5
  <2> QED BY <2>1, SomeUnits
<1> HIDE DEF part
<1>7. /\ Altered(e, h, c)
      /\ \A u \in 1 .. P :
           h.data[c][u] = IF u - sl.from \in 1 .. Len(part) THEN part[u - sl.from] ELSE e.data[c][u]
  BY <1>1, PutUnitsIs
<1> HIDE DEF h
<1>8. Overlaid(d, h, s, t, cursor, units, done + sl.count)
  <2>1. SUFFICES ASSUME NEW j \in 1 .. Len(t), NEW u \in 1 .. P
                 PROVE  h.data[t[j]][u] = IF Place(j, u) - cursor \in 1 .. done + sl.count
                                          THEN units[Place(j, u) - cursor] ELSE OldUnit(d, s, j, u)
    BY DEF Overlaid
  <2>2. e.data[t[j]][u] = IF Place(j, u) - cursor \in 1 .. done
                          THEN units[Place(j, u) - cursor] ELSE OldUnit(d, s, j, u)
    BY DEF Overlaid, done
  <2>3. CASE j = i
    <3>a. PICK q : q = i * P - P + u - cursor
      OBVIOUS
    <3>b. q = Place(i, u) - cursor
      BY <1>1, <3>a DEF Place, P
    <3>c. /\ q \in 1 .. done + sl.count <=> u - sl.from \in 1 .. sl.count
          /\ u - sl.from \in 1 .. sl.count => done + (u - sl.from) = q
      BY <1>5, <3>a, Zenon
    <3>1. CASE u - sl.from \in 1 .. sl.count
      <4>1. h.data[c][u] = units[done + (u - sl.from)]
        BY <1>6, <1>7, <3>1
      <4>2. Place(i, u) - cursor \in 1 .. done + sl.count /\ done + (u - sl.from) = Place(i, u) - cursor
        BY <3>1, <3>b, <3>c
      <4> QED BY <2>3, <4>1, <4>2
    <3>2. CASE u - sl.from \notin 1 .. sl.count
      <4>1. h.data[c][u] = e.data[c][u]
        BY <1>6, <1>7, <3>2
      <4>2. Place(i, u) - cursor \notin 1 .. done + sl.count
        BY <3>2, <3>b, <3>c
      <4>3. Place(i, u) - cursor \notin 1 .. done
        BY <1>5, <4>2
      <4> QED BY <2>2, <2>3, <4>1, <4>2, <4>3
    <3> QED BY <3>1, <3>2
  <2>4. CASE j # i
    <3>1. t[j] # c /\ t[j] \in Clusters
      BY <2>4 DEF Distinct
    <3>2. h.data[t[j]] = e.data[t[j]]
      BY <1>7, <3>1 DEF Altered
    <3>3. j * P - P + u \notin i * P - P + 1 .. i * P
      <4>1. j \in Nat /\ j >= 1
        OBVIOUS
      <4> QED BY <1>1, <2>4, <4>1, Apart
    <3>4. j * P \in Nat
      BY Products
    <3>5. Place(j, u) - cursor \in 1 .. done + sl.count <=> Place(j, u) - cursor \in 1 .. done
      <4>1. PICK p \in Int : p = Place(j, u)
        BY <1>1, <3>4 DEF Place
      <4>2. p \notin cursor + done + 1 .. cursor + done + sl.count
        BY <1>5, <3>3, <4>1 DEF Place
      <4>3. PICK a \in Nat, b \in Nat : a = done /\ b = sl.count
        BY <1>5
      <4>4. p - cursor \in 1 .. a + b <=> p - cursor \in 1 .. a
        BY <4>2, <4>3
      <4> QED BY <4>1, <4>3, <4>4
    <3> QED BY <2>2, <3>2, <3>5
  <2> QED BY <2>3, <2>4
<1> HIDE DEF g
<1>9. /\ g.disk = h /\ g.at = to /\ g.i = i + 1 /\ g.done = done + sl.count /\ g.ok = TRUE
      /\ IsWriter(g)
  BY <1>2 DEF IsWriter
<1>10. Transferred(g, d, e, s, t, i, cursor, units, to)
  BY <1>5, <1>7, <1>8, <1>9 DEF Transferred
<1> QED BY <1>10 DEF g

(* The clusters t are those of the file, s on the disk d, and after them     *)
(* ones that were free; on the disk e they are linked, and nothing but them  *)
(* is different.                                                             *)
Among(c, t) == \E i \in 1 .. Len(t) : c = t[i]
Extends(d, e, s, t) ==
  /\ Distinct(t) /\ Len(s) <= Len(t) /\ \A i \in 1 .. Len(s) : t[i] = s[i]
  /\ \A i \in Len(s) + 1 .. Len(t) : d.fat[t[i]] = Free
  /\ \A i \in 1 .. Len(t) : t[i] \notin Wiped(1) \cup Wiped(2)
  /\ \A i \in 1 .. Len(t) - 1 : e.fat[t[i]] = t[i + 1]
  /\ \A c \in 0 .. Entries - 1 : e.fat[c] = d.fat[c] \/ Among(c, t)
  /\ \A c \in Clusters : e.data[c] = d.data[c] \/ Among(c, t)

(* What the last cluster's entry is before the chain is closed. *)
Loose(d, e, s, t) == e.fat[t[Len(t)]] = IF Len(t) = Len(s) THEN d.fat[s[Len(s)]] ELSE Free

(* No cluster was added that the units do not need. *)
Tight(s, t, cursor, n) == Len(t) = Len(s) \/ cursor + n > Len(t) * PerCluster - PerCluster

AtWork(w, k, d, s, t, cursor, units) ==
  /\ IsWriter(w) /\ Disk(w.disk) /\ Extends(d, w.disk, s, t) /\ Loose(d, w.disk, s, t)
  /\ Overlaid(d, w.disk, s, t, cursor, units, w.done) /\ Tight(s, t, cursor, Len(units))
  /\ k + 1 <= Len(t) /\ (Len(t) = Len(s) \/ k + 1 = Len(t))
  /\ w.at = t[k + 1] /\ w.i = k + 1 /\ w.ok = TRUE
  /\ w.done = Put(w.i * PerCluster - PerCluster, cursor, Len(units))

Finished(w, d, s, t, cursor, units) ==
  /\ Disk(w.disk) /\ Extends(d, w.disk, s, t) /\ w.disk.fat[t[Len(t)]] = End
  /\ Overlaid(d, w.disk, s, t, cursor, units, w.done) /\ Tight(s, t, cursor, Len(units))
  /\ cursor + Len(units) <= Len(t) * PerCluster
  /\ w.at = End /\ w.ok = TRUE /\ w.done = Len(units)

OutOfRoom(w, d, s, t, cursor, units) ==
  /\ Disk(w.disk) /\ Extends(d, w.disk, s, t) /\ Loose(d, w.disk, s, t)
  /\ Overlaid(d, w.disk, s, t, cursor, units, w.done)
  /\ w.at = Free /\ w.ok = FALSE /\ w.done \in 0 .. Len(units)
  /\ cursor + Len(units) > Len(t) * PerCluster

(* Where clearing "cluster" 0x0FFFFFFF zeroes entries, these are free. *)
Unwiped(d) == \A c \in Wiped(1) \cup Wiped(2) : d.fat[c] = Free

LEMMA AlteredKeeps ==
  ASSUME NEW d, NEW e, NEW g, NEW s, NEW t, NEW i \in 1 .. Len(t), Altered(e, g, t[i]),
         Extends(d, e, s, t)
  PROVE  Extends(d, g, s, t) /\ (Loose(d, e, s, t) => Loose(d, g, s, t))
<1>1. g.fat = e.fat /\ \A x \in Clusters : x # t[i] => g.data[x] = e.data[x]
  BY DEF Altered
<1>2. \A c \in Clusters : g.data[c] = d.data[c] \/ Among(c, t)
  <2>1. TAKE c \in Clusters
  <2>2. CASE c = t[i]
    BY <2>2 DEF Among
  <2>3. CASE c # t[i]
    BY <1>1, <2>3 DEF Extends
  <2> QED BY <2>2, <2>3
<1>3. Extends(d, g, s, t)
  BY <1>1, <1>2 DEF Extends
<1> QED BY <1>1, <1>3 DEF Loose

LEMMA SameKeeps ==
  ASSUME NEW d, NEW e, NEW g, NEW s, NEW t, Same(e, g)
  PROVE  /\ Extends(d, e, s, t) => Extends(d, g, s, t)
         /\ Loose(d, e, s, t) => Loose(d, g, s, t)
         /\ \A cursor, units, done :
              Overlaid(d, e, s, t, cursor, units, done) => Overlaid(d, g, s, t, cursor, units, done)
<1>1. g.fat = e.fat /\ g.data = e.data
  BY DEF Same
<1> QED BY <1>1 DEF Extends, Loose, Overlaid

(* The chain goes on: the part is written and the entry followed. *)
LEMMA WriteFollows ==
  ASSUME NEW d, NEW s, NEW t, NEW U, NEW units \in Seq(U), NEW cursor \in Nat,
         NEW k \in Nat, NEW w, AtWork(w, k, d, s, t, cursor, units), k + 1 < Len(t)
  PROVE  AtWork(WriteOn(w, cursor, units), k + 1, d, s, t, cursor, units)
<1> DEFINE e == w.disk
           next == e.fat[w.at]
           g == WriteOn(w, cursor, units)
<1>1. /\ Disk(e) /\ Extends(d, e, s, t) /\ Loose(d, e, s, t) /\ Distinct(t)
      /\ Overlaid(d, e, s, t, cursor, units, w.done) /\ Tight(s, t, cursor, Len(units))
      /\ w.at = t[k + 1] /\ w.i = k + 1 /\ Len(t) = Len(s)
      /\ w.done = Put(w.i * PerCluster - PerCluster, cursor, Len(units))
  BY DEF AtWork, Extends
<1>2. /\ Len(t) \in Nat /\ k + 1 \in 1 .. Len(t) /\ k + 2 \in 1 .. Len(t)
      /\ k + 1 \in 1 .. Len(t) - 1 /\ k + 1 + 1 = k + 2
  BY <1>1 DEF Distinct
<1>3. next = t[k + 2] /\ next \in Clusters /\ w.at \in Clusters
  BY <1>1, <1>2 DEF Extends, Distinct
<1> HIDE DEF next
<1>4. next >= Root /\ w.at >= Root /\ ~(w.at < Root) /\ ~(next < Root)
  <2>1. \A c \in Clusters : c >= Root /\ ~(c < Root)
    BY Sizes DEF Clusters
  <2> QED BY <1>3, <2>1
<1>5. g = Transfer(w, e, cursor, units, next)
  BY <1>4 DEF WriteOn, next
<1> HIDE DEF g, e
<1>6. Transferred(Transfer(w, e, cursor, units, next), d, e, s, t, k + 1, cursor, units, next)
  BY <1>1, <1>2, TransferIs
<1>7. /\ IsWriter(g) /\ Altered(e, g.disk, t[k + 1]) /\ Overlaid(d, g.disk, s, t, cursor, units, g.done)
      /\ g.done = Put((k + 1) * PerCluster, cursor, Len(units))
      /\ g.at = next /\ g.i = k + 1 + 1 /\ g.ok = TRUE
  BY <1>5, <1>6 DEF Transferred
<1>8. Extends(d, g.disk, s, t) /\ Loose(d, g.disk, s, t) /\ Disk(g.disk)
  <2>1. Extends(d, g.disk, s, t) /\ Loose(d, g.disk, s, t)
    BY <1>1, <1>2, <1>7, AlteredKeeps, Zenon
  <2>2. Disk(g.disk)
    BY <1>7 DEF Altered
  <2> QED BY <2>1, <2>2
<1>9. g.done = Put(g.i * PerCluster - PerCluster, cursor, Len(units))
  <2>1. (k + 1 + 1) * PerCluster = (k + 1) * PerCluster + PerCluster /\ (k + 1) * PerCluster \in Nat
    BY Products
  <2>2. (k + 1 + 1) * PerCluster - PerCluster = (k + 1) * PerCluster
    BY <2>1, Sizes
  <2> QED BY <1>7, <2>2
<1>10. AtWork(g, k + 1, d, s, t, cursor, units)
  BY <1>1, <1>2, <1>3, <1>7, <1>8, <1>9 DEF AtWork
<1> QED BY <1>10 DEF g

LEMMA LooseIs ==
  ASSUME NEW d, NEW e, NEW s, IsChain(d, s), NEW t, Extends(d, e, s, t), Loose(d, e, s, t)
  PROVE  /\ e.fat[t[Len(t)]] \in {Free, End, OtherEnd} /\ e.fat[t[Len(t)]] < Root
         /\ Len(t) = Len(s) => e.fat[t[Len(t)]] # Free
<1>1. e.fat[t[Len(t)]] \in {Free, End, OtherEnd} /\ (Len(t) = Len(s) => e.fat[t[Len(t)]] # Free)
  <2>1. d.fat[s[Len(s)]] \in {End, OtherEnd} /\ End # Free /\ OtherEnd # Free
    BY Sizes DEF IsChain
  <2> QED BY <2>1 DEF Loose
<1> QED BY <1>1, Sizes

(* The units end in the last cluster: it is marked as the end. *)
LEMMA WriteCloses ==
  ASSUME NEW d, NEW s, IsChain(d, s), Unwiped(d), NEW t,
         NEW U, NEW units \in Seq(U), NEW cursor \in Nat,
         NEW k \in Nat, NEW w, AtWork(w, k, d, s, t, cursor, units), k + 1 = Len(t),
         cursor + Len(units) <= w.i * PerCluster
  PROVE  Finished(WriteOn(w, cursor, units), d, s, t, cursor, units)
<1> DEFINE e == w.disk
           next == e.fat[w.at]
           h == IF next = End THEN e ELSE Link(e, w.at, End)
           g == WriteOn(w, cursor, units)
           n == Len(units)
<1>1. /\ Disk(e) /\ Extends(d, e, s, t) /\ Loose(d, e, s, t) /\ Distinct(t)
      /\ Overlaid(d, e, s, t, cursor, units, w.done) /\ Tight(s, t, cursor, n)
      /\ w.at = t[Len(t)] /\ w.i = Len(t) /\ n \in Nat
      /\ w.done = Put(w.i * PerCluster - PerCluster, cursor, n)
  BY DEF AtWork, Extends
<1>2. Len(t) \in Nat /\ Len(t) \in 1 .. Len(t) /\ w.at \in Clusters
  BY <1>1 DEF Distinct
<1>3. next < Root
  <2>1. e.fat[t[Len(t)]] < Root
    BY <1>1, LooseIs, Zenon
  <2> QED BY <1>1, <2>1
<1>4. w.at >= Root /\ ~(w.at < Root) /\ ~(next >= Root)
  <2>1. \A c \in Clusters : c >= Root /\ ~(c < Root)
    BY Sizes DEF Clusters
  <2>2. next \in {Free, End, OtherEnd}
    <3>1. e.fat[t[Len(t)]] \in {Free, End, OtherEnd}
      BY <1>1, LooseIs, Zenon
    <3> QED BY <1>1, <3>1
  <2> HIDE DEF next
  <2>3. ~(next >= Root)
    BY <2>2, Sizes
  <2> QED BY <1>2, <2>1, <2>3
<1>5. g = Transfer(w, h, cursor, units, End)
  BY <1>3, <1>4 DEF WriteOn
<1>6. /\ Disk(h) /\ h.data = e.data /\ h.fat[w.at] = End
      /\ \A i \in 0 .. Entries - 1 : i # w.at => h.fat[i] = e.fat[i]
  <2>1. CASE next = End
    BY <1>1, <2>1
  <2>2. CASE next # End
    <3>1. w.at \notin Wiped(1) \cup Wiped(2)
      BY <1>1, <1>2 DEF Extends
    <3>2. \A i \in Wiped(1) \cup Wiped(2) : e.fat[i] = Free
      <4>1. TAKE i \in Wiped(1) \cup Wiped(2)
      <4>2. i \in 0 .. Entries - 1
        BY DEF Wiped
      <4>3. ~Among(i, t)
        BY <1>1 DEF Extends, Among
      <4> QED BY <1>1, <4>2, <4>3 DEF Extends, Unwiped
    <3> HIDE DEF e
    <3>3. LET z == Link(e, w.at, End)
          IN  /\ Disk(z) /\ z.data = e.data /\ z.fat[w.at] = End
              /\ \A i \in 0 .. Entries - 1 : i # w.at => z.fat[i] = e.fat[i]
      BY <1>1, <1>2, <3>1, <3>2, LinkEndIs
    <3>4. h = Link(e, w.at, End)
      BY <2>2
    <3> HIDE DEF h
    <3> QED BY <3>3, <3>4
  <2> QED BY <2>1, <2>2
<1> HIDE DEF g, h, e, next
<1>7. Extends(d, h, s, t)
  <2>1. \A i \in 1 .. Len(t) - 1 : h.fat[t[i]] = t[i + 1]
    <3>1. TAKE i \in 1 .. Len(t) - 1
    <3>2. i \in 1 .. Len(t) /\ i # Len(t)
      BY <1>2
    <3>3. t[i] # w.at /\ t[i] \in Clusters
      BY <1>1, <1>2, <3>2 DEF Distinct
    <3>4. t[i] \in 0 .. Entries - 1
      BY <3>3, Sizes DEF Clusters
    <3> QED BY <1>1, <1>6, <3>3, <3>4 DEF Extends
  <2>2. \A c \in 0 .. Entries - 1 : h.fat[c] = d.fat[c] \/ Among(c, t)
    <3>1. TAKE c \in 0 .. Entries - 1
    <3>2. CASE c = w.at
      BY <1>1, <1>2, <3>2 DEF Among
    <3>3. CASE c # w.at
      BY <1>1, <1>6, <3>3 DEF Extends
    <3> QED BY <3>2, <3>3
  <2> QED BY <1>1, <1>6, <2>1, <2>2 DEF Extends
<1>8. Overlaid(d, h, s, t, cursor, units, w.done)
  BY <1>1, <1>6 DEF Overlaid
<1>9. Transferred(Transfer(w, h, cursor, units, End), d, h, s, t, Len(t), cursor, units, End)
  BY <1>1, <1>2, <1>6, <1>8, TransferIs
<1>10. /\ Altered(h, g.disk, t[Len(t)]) /\ Overlaid(d, g.disk, s, t, cursor, units, g.done)
       /\ g.done = Put(Len(t) * PerCluster, cursor, n) /\ g.at = End /\ g.ok = TRUE
  BY <1>5, <1>9 DEF Transferred
<1>11. Extends(d, g.disk, s, t) /\ Disk(g.disk) /\ g.disk.fat[t[Len(t)]] = End
  BY <1>1, <1>2, <1>6, <1>7, <1>10, AlteredKeeps DEF Altered
<1>12. g.done = n /\ cursor + n <= Len(t) * PerCluster
  <2>1. PICK x \in Nat : x = Len(t) * PerCluster
    BY <1>2, Products
  <2>2. cursor + n <= x
    BY <1>1, <2>1
  <2>3. Put(x, cursor, n) = n
    BY <1>1, <2>2 DEF Put, Lesser
  <2> QED BY <1>10, <2>1, <2>2, <2>3
<1>13. Finished(g, d, s, t, cursor, units)
  BY <1>1, <1>10, <1>11, <1>12 DEF Finished
<1> QED BY <1>13 DEF g

(* A free cluster found above the last one is none of the file's. *)
LEMMA FreshCluster ==
  ASSUME NEW d, NEW s, IsChain(d, s), NEW e, Disk(e), NEW t, Extends(d, e, s, t), Loose(d, e, s, t),
         NEW x \in Clusters, x > t[Len(t)], e.fat[x] = Free
  PROVE  ~Among(x, t) /\ d.fat[x] = Free /\ x \in 0 .. Entries - 1
<1>1. SUFFICES ASSUME NEW i \in 1 .. Len(t), x = t[i] PROVE FALSE
  <2>1. x \in 0 .. Entries - 1
    BY Sizes DEF Clusters
  <2>2. ~Among(x, t)
    BY <1>1 DEF Among
  <2> QED BY <2>1, <2>2 DEF Extends
<1>2. Len(t) \in Nat
  BY DEF Extends, Distinct
<1>3. CASE i = Len(t)
  <2>1. x \in Nat
    BY Sizes DEF Clusters
  <2> QED BY <1>1, <1>3, <2>1
<1>4. CASE i # Len(t)
  <2>1. i \in 1 .. Len(t) - 1 /\ i + 1 \in 1 .. Len(t)
    BY <1>2, <1>4
  <2>2. e.fat[x] = t[i + 1] /\ t[i + 1] \in Clusters
    BY <1>1, <2>1 DEF Extends, Distinct
  <2>3. \A c \in Clusters : c # Free
    BY Sizes DEF Clusters
  <2> QED BY <2>2, <2>3
<1> QED BY <1>3, <1>4

(* The disk with the new cluster x linked behind the last one and zeroed. *)
LEMMA LinkExtends ==
  ASSUME NEW d, NEW s, IsChain(d, s), NEW e, Disk(e), NEW t, Extends(d, e, s, t), Loose(d, e, s, t),
         Len(t) >= 1, NEW x \in Clusters, ~Among(x, t), e.fat[x] = Free, d.fat[x] = Free,
         x \notin Wiped(1) \cup Wiped(2)
  PROVE  LET g == Link(e, t[Len(t)], x)
             t2 == Append(t, x)
         IN  Disk(g) /\ Extends(d, g, s, t2) /\ Loose(d, g, s, t2)
<1> DEFINE c == t[Len(t)]
           g == Link(e, c, x)
           t2 == Append(t, x)
           m == Len(t)
<1>1. m \in Nat /\ m \in 1 .. m /\ c \in Clusters /\ t \in Seq(Clusters) /\ Len(s) <= m /\ Len(s) \in Nat
  BY DEF Extends, Distinct, IsChain
<1>2. /\ Disk(g) /\ g.fat[c] = x
      /\ \A i \in 0 .. Entries - 1 : i # c => g.fat[i] = e.fat[i]
      /\ \A y \in Clusters : y # x => g.data[y] = e.data[y]
  <2>1. Linked(g, e, c, x)
    BY <1>1, LinkIs
  <2> HIDE DEF g
  <2> QED BY <2>1 DEF Linked
<1>3. /\ t2 \in Seq(Clusters) /\ Len(t2) = m + 1 /\ t2[m + 1] = x
      /\ \A i \in 1 .. m : t2[i] = t[i]
  BY <1>1, AppendProperties
<1>4. \A i \in 1 .. m : t[i] # x /\ t[i] \in Clusters /\ t[i] \in 0 .. Entries - 1
  <2>1. \A i \in 1 .. m : t[i] # x /\ t[i] \in Clusters
    BY <1>1 DEF Among
  <2>2. \A y \in Clusters : y \in 0 .. Entries - 1
    BY Sizes DEF Clusters
  <2> QED BY <2>1, <2>2
<1> HIDE DEF g, t2
<1>5. \A i \in 1 .. m + 1 : i \in 1 .. m \/ i = m + 1
  BY <1>1
<1>6. Distinct(t2)
  <2>1. ASSUME NEW i \in 1 .. m + 1, NEW j \in 1 .. m + 1, t2[i] = t2[j] PROVE i = j
    <3>1. CASE i \in 1 .. m /\ j \in 1 .. m
      BY <1>3, <2>1, <3>1 DEF Extends, Distinct
    <3>2. CASE i \in 1 .. m /\ j = m + 1
      BY <1>3, <1>4, <2>1, <3>2
    <3>3. CASE i = m + 1 /\ j \in 1 .. m
      BY <1>3, <1>4, <2>1, <3>3
    <3> QED BY <1>5, <3>1, <3>2, <3>3
  <2> QED BY <1>3, <2>1 DEF Distinct
<1>7. \A i \in 1 .. Len(s) : t2[i] = s[i]
  <2>1. \A i \in 1 .. Len(s) : i \in 1 .. m /\ t[i] = s[i]
    BY <1>1 DEF Extends
  <2> QED BY <1>3, <2>1
<1>8. \A i \in Len(s) + 1 .. m + 1 : d.fat[t2[i]] = Free
  <2>1. TAKE i \in Len(s) + 1 .. m + 1
  <2>2. CASE i = m + 1
    BY <1>3, <2>2
  <2>3. CASE i # m + 1
    <3>1. i \in Len(s) + 1 .. m /\ i \in 1 .. m
      BY <1>1, <2>3
    <3> QED BY <1>3, <3>1 DEF Extends
  <2> QED BY <2>2, <2>3
<1>9. \A i \in 1 .. m + 1 : t2[i] \notin Wiped(1) \cup Wiped(2)
  <2>1. TAKE i \in 1 .. m + 1
  <2>2. CASE i = m + 1
    BY <1>3, <2>2
  <2>3. CASE i \in 1 .. m
    BY <1>3, <2>3 DEF Extends
  <2> QED BY <1>5, <2>2, <2>3
<1>10. \A i \in 1 .. m + 1 - 1 : g.fat[t2[i]] = t2[i + 1]
  <2>1. TAKE i \in 1 .. m + 1 - 1
  <2>a. i \in 1 .. m
    BY <1>1
  <2>2. CASE i = m
    BY <1>1, <1>2, <1>3, <2>2
  <2>3. CASE i # m
    <3>1. i \in 1 .. m - 1 /\ i + 1 \in 1 .. m
      BY <1>1, <2>3
    <3>2. t[i] # c
      BY <1>1, <2>3, <2>a DEF Extends, Distinct
    <3>3. g.fat[t[i]] = e.fat[t[i]]
      BY <1>2, <1>4, <2>a, <3>2
    <3> QED BY <1>3, <2>a, <3>1, <3>3 DEF Extends
  <2> QED BY <2>2, <2>3
<1>11. \A y : Among(y, t) => Among(y, t2)
  <2>1. \A i \in 1 .. m : i \in 1 .. m + 1
    BY <1>1
  <2> QED BY <1>3, <2>1 DEF Among
<1>12. Among(x, t2) /\ Among(c, t2)
  <2>1. m + 1 \in 1 .. m + 1
    BY <1>1
  <2>2. Among(c, t)
    BY <1>1 DEF Among
  <2> QED BY <1>3, <1>11, <2>1, <2>2 DEF Among
<1>13. \A y \in 0 .. Entries - 1 : g.fat[y] = d.fat[y] \/ Among(y, t2)
  <2>1. TAKE y \in 0 .. Entries - 1
  <2>2. CASE y = c
    BY <1>12, <2>2
  <2>3. CASE y # c
    <3>1. e.fat[y] = d.fat[y] \/ Among(y, t)
      BY DEF Extends
    <3> QED BY <1>2, <1>11, <2>3, <3>1
  <2> QED BY <2>2, <2>3
<1>14. \A y \in Clusters : g.data[y] = d.data[y] \/ Among(y, t2)
  <2>1. TAKE y \in Clusters
  <2>2. CASE y = x
    BY <1>12, <2>2
  <2>3. CASE y # x
    <3>1. e.data[y] = d.data[y] \/ Among(y, t)
      BY DEF Extends
    <3> QED BY <1>2, <1>11, <2>3, <3>1
  <2> QED BY <2>2, <2>3
<1>15. Extends(d, g, s, t2)
  <2>1. Len(s) <= m + 1
    BY <1>1
  <2> QED BY <1>3, <1>6, <1>7, <1>8, <1>9, <1>10, <1>13, <1>14, <2>1 DEF Extends
<1>16. Loose(d, g, s, t2)
  <2>1. x # c /\ x \in 0 .. Entries - 1 /\ m + 1 # Len(s)
    <3>1. x \in 0 .. Entries - 1
      BY Sizes DEF Clusters
    <3> QED BY <1>1, <1>4, <3>1
  <2>2. g.fat[x] = Free
    BY <1>2, <2>1
  <2> QED BY <1>3, <2>1, <2>2 DEF Loose
<1> QED BY <1>2, <1>15, <1>16 DEF g, t2

LEMMA LinkOverlays ==
  ASSUME NEW d, NEW s, Len(s) \in Nat, NEW e, Disk(e), NEW t, Distinct(t), Len(t) >= 1, Len(s) <= Len(t),
         NEW x \in Clusters, ~Among(x, t), NEW cursor \in Nat, NEW n \in Nat, NEW units, NEW done,
         done = Put(Len(t) * PerCluster - PerCluster, cursor, n),
         Overlaid(d, e, s, t, cursor, units, done)
  PROVE  Overlaid(d, Link(e, t[Len(t)], x), s, Append(t, x), cursor, units, done)
<1> DEFINE c == t[Len(t)]
           g == Link(e, c, x)
           t2 == Append(t, x)
           m == Len(t)
           P == PerCluster
<1>1. /\ m \in Nat /\ m \in 1 .. m /\ c \in Clusters /\ t \in Seq(Clusters)
      /\ P \in Nat /\ P >= 1 /\ m >= 1
  BY Sizes DEF Distinct
<1>2. /\ \A y \in Clusters : y # x => g.data[y] = e.data[y]
      /\ \A u \in 1 .. P : g.data[x][u] = Zero
  <2>1. Linked(g, e, c, x)
    BY <1>1, LinkIs
  <2> HIDE DEF g
  <2> QED BY <2>1 DEF Linked
<1>3. /\ Len(t2) = m + 1 /\ t2[m + 1] = x /\ \A i \in 1 .. m : t2[i] = t[i]
  BY <1>1, AppendProperties
<1> HIDE DEF g, t2
<1>4. SUFFICES ASSUME NEW i \in 1 .. m + 1, NEW u \in 1 .. P
               PROVE  g.data[t2[i]][u] = IF Place(i, u) - cursor \in 1 .. done
                                         THEN units[Place(i, u) - cursor] ELSE OldUnit(d, s, i, u)
  BY <1>3 DEF Overlaid, g, t2
<1>5. CASE i \in 1 .. m
  <2>1. t[i] # x /\ t[i] \in Clusters /\ t2[i] = t[i]
    BY <1>1, <1>3, <1>5 DEF Among
  <2>2. g.data[t2[i]] = e.data[t[i]]
    BY <1>2, <2>1
  <2> QED BY <1>5, <2>2 DEF Overlaid
<1>6. CASE i = m + 1
  <2>1. g.data[t2[i]][u] = Zero /\ OldUnit(d, s, i, u) = Zero
    BY <1>1, <1>2, <1>3, <1>6 DEF OldUnit
  <2>2. Place(i, u) - cursor \notin 1 .. done
    <3>1. PICK y \in Nat : y = m * P /\ y >= P
      BY <1>1, Products
    <3>2. Place(i, u) = y + u
      <4>1. i * P = m * P + P
        BY <1>1, <1>6, Products
      <4> QED BY <1>1, <3>1, <4>1 DEF Place
    <3>3. done = Put(y - P, cursor, n)
      BY <3>1
    <3> HIDE DEF P
    <3>4. done \in Nat /\ done <= (IF y - P <= cursor THEN 0 ELSE y - P - cursor)
      BY <1>1, <3>1, <3>3 DEF Put, Lesser
    <3> QED BY <1>1, <3>1, <3>2, <3>4
  <2> QED BY <2>1, <2>2
<1> QED BY <1>1, <1>5, <1>6

(* The units go on behind the last cluster: a free one is linked to it, or   *)
(* none is left.                                                             *)
LEMMA WriteExtends ==
  ASSUME NEW d, NEW s, IsChain(d, s), NEW t,
         NEW U, NEW units \in Seq(U), NEW cursor \in Nat,
         NEW k \in Nat, NEW w, AtWork(w, k, d, s, t, cursor, units), k + 1 = Len(t),
         ~(cursor + Len(units) <= w.i * PerCluster),
         WriteOn(w, cursor, units).at <= Last,
         WriteOn(w, cursor, units).at \notin Wiped(1) \cup Wiped(2)
  PROVE  LET g == WriteOn(w, cursor, units)
         IN  \/ OutOfRoom(g, d, s, t, cursor, units)
             \/ AtWork(g, k + 1, d, s, Append(t, g.at), cursor, units)
<1> DEFINE e == w.disk
           c == w.at
           next == e.fat[c]
           free == FreeFrom(Invalidate(e), c + 1)
           x == free.cluster
           g == WriteOn(w, cursor, units)
           n == Len(units)
           m == Len(t)
           P == PerCluster
<1>1. /\ Disk(e) /\ Extends(d, e, s, t) /\ Loose(d, e, s, t) /\ Distinct(t) /\ IsWriter(w)
      /\ Overlaid(d, e, s, t, cursor, units, w.done) /\ Tight(s, t, cursor, n)
      /\ c = t[m] /\ w.i = m /\ n \in Nat
      /\ w.done = Put(w.i * P - P, cursor, n)
  BY DEF AtWork, Extends
<1>2. /\ m \in Nat /\ m \in 1 .. m /\ m >= 1 /\ c \in Clusters /\ c \in Nat /\ c + 1 \in Nat
      /\ P \in Nat /\ P >= 1 /\ Len(s) \in Nat /\ Len(s) <= m
  <2>1. m \in Nat /\ m \in 1 .. m /\ m >= 1 /\ c \in Clusters /\ Len(s) \in Nat /\ Len(s) <= m
    BY <1>1, ChainIs DEF Distinct, Extends
  <2>2. \A y \in Clusters : y \in Nat
    BY Sizes DEF Clusters
  <2> QED BY <2>1, <2>2, Sizes
<1>3. ~(c < Root) /\ c >= Root /\ next < Root /\ ~(next >= Root)
  <2>1. \A y \in Clusters : y >= Root /\ ~(y < Root)
    BY Sizes DEF Clusters
  <2>2. next \in {Free, End, OtherEnd}
    <3>1. e.fat[t[Len(t)]] \in {Free, End, OtherEnd}
      BY <1>1, LooseIs, Zenon
    <3> QED BY <1>1, <3>1
  <2> HIDE DEF next
  <2>3. next < Root /\ ~(next >= Root)
    BY <2>2, Sizes
  <2> HIDE DEF c
  <2> QED BY <1>2, <2>1, <2>3
<1>4. g = Extend(w, free, cursor, units)
  BY <1>3 DEF WriteOn
<1> HIDE DEF e
<1>5. /\ Same(e, free.disk)
      /\ x = 0 \/ FirstFree(Invalidate(e), c + 1, x)
  <2>1. Same(e, Invalidate(e)) /\ Coherent(Invalidate(e))
    BY <1>1, InvalidateIs
  <2>2. Disk(Invalidate(e))
    BY <2>1 DEF Same
  <2> HIDE DEF c
  <2>3. x = 0 \/ FirstFree(Invalidate(e), c + 1, x)
    BY <1>2, <2>1, <2>2, FreeFromIs
  <2>4. Same(Invalidate(e), free.disk)
    BY <1>2, <2>1, <2>2, FreeFromIs
  <2> QED BY <2>1, <2>3, <2>4, SameTrans
<1>6. /\ Disk(free.disk) /\ Extends(d, free.disk, s, t) /\ Loose(d, free.disk, s, t)
      /\ Overlaid(d, free.disk, s, t, cursor, units, w.done) /\ free.disk.fat = e.fat
  <2> HIDE DEF free
  <2> QED BY <1>1, <1>5, SameKeeps DEF Same
<1>7. w.done \in 0 .. n
  <2>1. PICK y \in Nat : y = m * P /\ y >= P
    BY <1>2, Products
  <2>2. w.done = Put(y - P, cursor, n)
    BY <1>1, <2>1
  <2> HIDE DEF P, n
  <2> QED BY <1>1, <1>2, <2>1, <2>2 DEF Put, Lesser
<1> HIDE DEF free, x, g
<1>8. CASE x = 0
  <2>1. g = [w EXCEPT !.disk = free.disk, !.at = Free, !.ok = FALSE]
    BY <1>4, <1>8 DEF Extend, x
  <2>2. PICK a1, a2, a3, a4, a5 : w = [disk |-> a1, at |-> a2, i |-> a3, done |-> a4, ok |-> a5]
    BY <1>1 DEF IsWriter
  <2>3. g.disk = free.disk /\ g.at = Free /\ g.ok = FALSE /\ g.done = w.done
    BY <2>1, <2>2
  <2>4. OutOfRoom(g, d, s, t, cursor, units)
    <3>1. PICK y \in Nat : y = m * P
      BY <1>2, Products
    <3>2. cursor + n > y
      BY <1>1, <3>1
    <3> QED BY <1>6, <1>7, <2>3, <3>1, <3>2 DEF OutOfRoom
  <2> QED BY <2>4 DEF g
<1>9. CASE x # 0
  <2> DEFINE h == Link(free.disk, c, x)
             t2 == Append(t, x)
  <2>1. g = Transfer(w, h, cursor, units, x)
    BY <1>4, <1>9 DEF Extend, x
  <2>2. g.at = x
    <3>1. Transfer(w, h, cursor, units, x).at = x
      BY DEF Transfer
    <3> QED BY <2>1, <3>1
  <2>3. x \in Clusters /\ x > c /\ x \notin Wiped(1) \cup Wiped(2) /\ x \in Nat
    <3>1. x \in Nat /\ x >= c + 1
      BY <1>5, <1>9 DEF FirstFree
    <3>2. x <= Last /\ x \notin Wiped(1) \cup Wiped(2)
      BY <2>2 DEF g
    <3>3. c >= 2
      BY <1>2, Sizes DEF Clusters
    <3> HIDE DEF c
    <3>4. x \in Root .. Last
      BY <1>2, <3>1, <3>2, <3>3, Sizes
    <3> QED BY <1>2, <3>1, <3>2, <3>4 DEF Clusters
  <2>4. e.fat[x] = Free
    <3>1. TableEntry(Invalidate(e), x) = Free
      BY <1>5, <1>9 DEF FirstFree
    <3>2. TableEntry(Invalidate(e), x) = TableEntry(e, x)
      BY <1>1, InvalidateIs, SameEntry
    <3>3. x \in 0 .. Entries - 1
      BY <2>3, Sizes DEF Clusters
    <3> QED BY <1>1, <3>1, <3>2, <3>3, EntryIs
  <2>5. ~Among(x, t) /\ d.fat[x] = Free /\ x \in 0 .. Entries - 1
    BY <1>1, <2>3, <2>4, FreshCluster
  <2>6. Disk(h) /\ Extends(d, h, s, t2) /\ Loose(d, h, s, t2)
    <3> DEFINE f == free.disk
    <3>1. /\ Disk(f) /\ Extends(d, f, s, t) /\ Loose(d, f, s, t) /\ f.fat[x] = Free /\ c = t[m]
      BY <1>1, <1>6, <2>4
    <3> HIDE DEF f
    <3>2. Disk(Link(f, t[m], x)) /\ Extends(d, Link(f, t[m], x), s, t2) /\ Loose(d, Link(f, t[m], x), s, t2)
      BY <1>2, <2>3, <2>5, <3>1, LinkExtends
    <3> QED BY <3>1, <3>2 DEF f
  <2>7. Overlaid(d, h, s, t2, cursor, units, w.done)
    <3> DEFINE f == free.disk
    <3>1. Disk(f) /\ Overlaid(d, f, s, t, cursor, units, w.done) /\ c = t[m]
      BY <1>1, <1>6
    <3>2. w.done = Put(Len(t) * PerCluster - PerCluster, cursor, n)
      BY <1>1
    <3> HIDE DEF f
    <3>3. Overlaid(d, Link(f, t[m], x), s, t2, cursor, units, w.done)
      BY <1>1, <1>2, <2>3, <2>5, <3>1, <3>2, LinkOverlays
    <3> QED BY <3>1, <3>3 DEF f
  <2>8. /\ Distinct(t2) /\ Len(t2) = m + 1 /\ t2[m] = c /\ t2[m + 1] = x /\ m \in 1 .. Len(t2)
    <3>1. Distinct(t2)
      BY <2>6 DEF Extends
    <3>2. Len(t2) = m + 1 /\ t2[m] = t[m] /\ t2[m + 1] = x
      <4>1. t \in Seq(Clusters)
        BY <1>1 DEF Distinct
      <4> QED BY <1>2, <2>3, <4>1, AppendProperties
    <3> QED BY <1>1, <1>2, <3>1, <3>2
  <2> HIDE DEF h, t2
  <2>9. Transferred(Transfer(w, h, cursor, units, x), d, h, s, t2, m, cursor, units, x)
    BY <1>1, <2>6, <2>7, <2>8, TransferIs
  <2>10. /\ IsWriter(g) /\ Altered(h, g.disk, t2[m]) /\ Overlaid(d, g.disk, s, t2, cursor, units, g.done)
         /\ g.done = Put(m * P, cursor, n) /\ g.at = x /\ g.i = m + 1 /\ g.ok = TRUE
    BY <2>1, <2>9 DEF Transferred
  <2>11. Extends(d, g.disk, s, t2) /\ Loose(d, g.disk, s, t2) /\ Disk(g.disk)
    BY <2>6, <2>8, <2>10, AlteredKeeps DEF Altered
  <2>12. (m + 1) * P - P = m * P
    <3>1. (m + 1) * P = m * P + P /\ m * P \in Nat
      BY <1>2, Products
    <3> QED BY <1>2, <3>1
  <2>13. Tight(s, t2, cursor, n)
    <3>1. PICK y \in Nat : y = m * P
      BY <1>2, Products
    <3>2. cursor + n > y
      BY <1>1, <3>1
    <3> QED BY <2>8, <2>12, <3>1, <3>2 DEF Tight
  <2>14. AtWork(g, k + 1, d, s, t2, cursor, units)
    <3>1. k + 1 + 1 <= Len(t2) /\ k + 1 + 1 = Len(t2) /\ k + 1 + 1 = m + 1
      BY <1>2, <2>8
    <3>2. g.done = Put(g.i * PerCluster - PerCluster, cursor, Len(units))
      BY <2>10, <2>12
    <3> QED BY <2>8, <2>10, <2>11, <2>13, <3>1, <3>2 DEF AtWork
  <2> QED BY <2>2, <2>14 DEF g, t2
<1> QED BY <1>8, <1>9

(* Every cluster the write comes to is on the disk, and none is one whose    *)
(* entry the clearing of "cluster" 0x0FFFFFFF zeroes.                        *)
InBounds(c) == c <= Last /\ c \notin Wiped(1) \cup Wiped(2)
StaysIn(d, first, cursor, units) ==
  \A k \in 0 .. Entries : InBounds(Writing(d, first, cursor, units)[k].at)

(* The units fit the file's clusters, or the write stays in bounds. *)
HasRoom(d, s, cursor, units) ==
  cursor + Len(units) <= Len(s) * PerCluster \/ StaysIn(d, s[1], cursor, units)

WriteState(w, k, d, s, cursor, units) ==
  \E t : \/ AtWork(w, k, d, s, t, cursor, units)
         \/ Finished(w, d, s, t, cursor, units)
         \/ OutOfRoom(w, d, s, t, cursor, units)

LEMMA WritesOn ==
  ASSUME NEW d, NEW s, IsChain(d, s), Unwiped(d),
         NEW U, NEW units \in Seq(U), NEW cursor \in Nat, NEW k \in Nat,
         NEW w, WriteState(w, k, d, s, cursor, units),
         cursor + Len(units) <= Len(s) * PerCluster \/ InBounds(WriteOn(w, cursor, units).at)
  PROVE  WriteState(WriteOn(w, cursor, units), k + 1, d, s, cursor, units)
<1> DEFINE g == WriteOn(w, cursor, units)
<1>1. PICK t : \/ AtWork(w, k, d, s, t, cursor, units)
               \/ Finished(w, d, s, t, cursor, units)
               \/ OutOfRoom(w, d, s, t, cursor, units)
  BY DEF WriteState
<1>2. CASE Finished(w, d, s, t, cursor, units) \/ OutOfRoom(w, d, s, t, cursor, units)
  <2>1. w.at = End \/ w.at = Free
    BY <1>2 DEF Finished, OutOfRoom
  <2>2. w.at < Root /\ ~(w.at >= Root)
    BY <2>1, Sizes
  <2>3. g = w
    BY <2>2 DEF WriteOn
  <2> HIDE DEF g
  <2>4. WriteState(g, k + 1, d, s, cursor, units)
    BY <1>2, <2>3 DEF WriteState
  <2> QED BY <2>4 DEF g
<1>3. CASE AtWork(w, k, d, s, t, cursor, units)
  <2>1. /\ k + 1 <= Len(t) /\ Len(t) \in Nat /\ w.i = k + 1 /\ Len(s) <= Len(t) /\ Len(s) \in Nat
        /\ (Len(t) = Len(s) \/ k + 1 = Len(t)) /\ Len(units) \in Nat
    BY <1>3, ChainIs DEF AtWork, Extends, Distinct
  <2>2. CASE k + 1 < Len(t)
    <3>1. AtWork(g, k + 1, d, s, t, cursor, units)
      BY <1>3, <2>2, WriteFollows
    <3> QED BY <3>1 DEF WriteState
  <2>3. CASE k + 1 = Len(t) /\ cursor + Len(units) <= w.i * PerCluster
    <3>1. Finished(g, d, s, t, cursor, units)
      BY <1>3, <2>3, WriteCloses
    <3> QED BY <3>1 DEF WriteState
  <2>4. CASE k + 1 = Len(t) /\ ~(cursor + Len(units) <= w.i * PerCluster)
    <3>1. InBounds(g.at)
      <4>1. PICK y \in Nat, z \in Nat : y = Len(s) * PerCluster /\ z = Len(t) * PerCluster /\ y <= z
        BY <2>1, Products
      <4>2. ~(cursor + Len(units) <= y)
        BY <2>1, <2>4, <4>1
      <4> QED BY <4>1, <4>2
    <3>2. \/ OutOfRoom(g, d, s, t, cursor, units)
          \/ AtWork(g, k + 1, d, s, Append(t, g.at), cursor, units)
      <4>1. k + 1 = Len(t) /\ ~(cursor + Len(units) <= w.i * PerCluster)
            /\ g.at <= Last /\ g.at \notin Wiped(1) \cup Wiped(2)
        BY <2>4, <3>1 DEF InBounds
      <4> QED BY <1>3, <4>1, WriteExtends
    <3> QED BY <3>2 DEF WriteState
  <2> QED BY <2>1, <2>2, <2>3, <2>4
<1> QED BY <1>1, <1>2, <1>3

LEMMA WriteStarts ==
  ASSUME NEW d, Disk(d), NEW s, IsChain(d, s), Unwiped(d),
         NEW U, NEW units \in Seq(U), NEW cursor \in Nat
  PROVE  AtWork([disk |-> d, at |-> s[1], i |-> 1, done |-> 0, ok |-> TRUE],
                0, d, s, s, cursor, units)
<1> DEFINE w == [disk |-> d, at |-> s[1], i |-> 1, done |-> 0, ok |-> TRUE]
<1>1. /\ Len(s) \in Nat /\ Len(s) >= 1 /\ PerCluster \in Nat
      /\ \A i \in 1 .. Len(s) : s[i] \in Clusters
  BY ChainIs, Sizes
<1>2. w.disk = d /\ w.at = s[1] /\ w.i = 1 /\ w.done = 0 /\ w.ok = TRUE /\ IsWriter(w)
  BY DEF IsWriter
<1>3. \A i \in 1 .. Len(s) : s[i] \notin Wiped(1) \cup Wiped(2)
  <2>1. TAKE i \in 1 .. Len(s)
  <2>2. \A c \in Clusters : c # Free
    BY Sizes DEF Clusters
  <2>3. CASE i = Len(s)
    <3>1. d.fat[s[i]] # Free
      BY <2>3, Sizes DEF IsChain
    <3> QED BY <3>1 DEF Unwiped
  <2>4. CASE i # Len(s)
    <3>1. i \in 1 .. Len(s) - 1 /\ i + 1 \in 1 .. Len(s)
      BY <1>1, <2>4
    <3>2. d.fat[s[i]] # Free
      BY <1>1, <2>2, <3>1 DEF IsChain
    <3> QED BY <3>2 DEF Unwiped
  <2> QED BY <2>3, <2>4
<1>4. Extends(d, d, s, s)
  <2>1. \A i \in Len(s) + 1 .. Len(s) : FALSE
    BY <1>1
  <2> QED BY <1>1, <1>3, <2>1 DEF Extends, IsChain, Distinct
<1>5. Overlaid(d, d, s, s, cursor, units, 0)
  <2>1. \A x : x \notin 1 .. 0
    OBVIOUS
  <2>2. \A i \in 1 .. Len(s) : \A u : OldUnit(d, s, i, u) = d.data[s[i]][u]
    BY <1>1 DEF OldUnit
  <2> QED BY <2>1, <2>2 DEF Overlaid
<1>6. Put(1 * PerCluster - PerCluster, cursor, Len(units)) = 0
  BY <1>1 DEF Put
<1> HIDE DEF w
<1>7. AtWork(w, 0, d, s, s, cursor, units)
  BY <1>1, <1>2, <1>4, <1>5, <1>6 DEF AtWork, Loose, Tight
<1> QED BY <1>7 DEF w

(* How a write leaves the file whose clusters were s: finished, with a chain *)
(* of clusters as long as the units need, or out of room.                    *)
Outcome(w, d, s, t, cursor, units) ==
  \/ Finished(w, d, s, t, cursor, units) /\ IsChain(w.disk, t)
  \/ OutOfRoom(w, d, s, t, cursor, units)

(* fat_fwrite's loop puts the units at the cursor of the file, in its        *)
(* clusters and behind them in ones that were free and are now linked into   *)
(* its chain, no more than are needed.  The rest of the file is as before or *)
(* zero; no other cluster and no other entry of the table is touched, not    *)
(* even when the disk runs full half way.                                    *)
THEOREM WritesTheFile ==
  ASSUME NEW d, Disk(d), NEW s, IsChain(d, s), Unwiped(d),
         NEW U, NEW units \in Seq(U), NEW cursor \in Nat, HasRoom(d, s, cursor, units)
  PROVE  \E t : Outcome(WriteChain(d, s[1], cursor, units), d, s, t, cursor, units)
<1> DEFINE turn == Writing(d, s[1], cursor, units)
           a == [disk |-> d, at |-> s[1], i |-> 1, done |-> 0, ok |-> TRUE]
           n == Entries
           E == {k \in 0 .. n : WriteState(turn[k], k, d, s, cursor, units)}
<1>1. \A k \in 0 .. n : turn[k] = IF k = 0 THEN a ELSE WriteOn(turn[k - 1], cursor, units)
  BY WritingTurn
<1>2. n \in Nat /\ 0 \in 0 .. n /\ n \in 0 .. n
  BY Sizes
<1>3. cursor + Len(units) <= Len(s) * PerCluster \/ \A k \in 0 .. n : InBounds(turn[k].at)
  BY DEF HasRoom, StaysIn
<1> HIDE DEF turn
<1>4. 0 \in E
  <2>1. AtWork(a, 0, d, s, s, cursor, units)
    BY WriteStarts
  <2> HIDE DEF a
  <2> QED BY <1>1, <1>2, <2>1 DEF WriteState
<1>5. ASSUME NEW k \in 1 .. n, k - 1 \in E PROVE k \in E
  <2>1. k \in 0 .. n /\ k # 0 /\ k - 1 \in Nat /\ k - 1 + 1 = k
    BY <1>2
  <2>2. turn[k] = WriteOn(turn[k - 1], cursor, units)
    BY <1>1, <2>1
  <2>3. WriteState(turn[k - 1], k - 1, d, s, cursor, units)
    BY <1>5
  <2>4. cursor + Len(units) <= Len(s) * PerCluster \/ InBounds(WriteOn(turn[k - 1], cursor, units).at)
    BY <1>3, <2>1, <2>2
  <2>5. WriteState(WriteOn(turn[k - 1], cursor, units), k - 1 + 1, d, s, cursor, units)
    BY <2>1, <2>3, <2>4, WritesOn
  <2> QED BY <2>1, <2>2, <2>5
<1>6. \A k \in 0 .. n : k \in E
  <2> HIDE DEF E, n
  <2> QED BY <1>2, <1>4, <1>5, Turns
<1> DEFINE w == turn[n]
<1>7. WriteState(w, n, d, s, cursor, units)
  BY <1>2, <1>6
<1> HIDE DEF w
<1>8. PICK t : \/ AtWork(w, n, d, s, t, cursor, units)
               \/ Finished(w, d, s, t, cursor, units)
               \/ OutOfRoom(w, d, s, t, cursor, units)
  BY <1>7 DEF WriteState
<1>9. ~AtWork(w, n, d, s, t, cursor, units)
  <2>1. ASSUME AtWork(w, n, d, s, t, cursor, units) PROVE FALSE
    <3>1. Distinct(t) /\ n + 1 <= Len(t)
      BY <2>1 DEF AtWork, Extends
    <3>2. Len(t) \in Nat /\ Len(t) < Entries
      BY <3>1, ChainFits DEF Distinct
    <3> QED BY <1>2, <3>1, <3>2
  <2> QED BY <2>1
<1>10. Finished(w, d, s, t, cursor, units) => IsChain(w.disk, t)
  <2>1. SUFFICES ASSUME Finished(w, d, s, t, cursor, units) PROVE IsChain(w.disk, t)
    OBVIOUS
  <2>2. Extends(d, w.disk, s, t) /\ w.disk.fat[t[Len(t)]] = End
    BY <2>1 DEF Finished
  <2>3. Len(s) >= 1 /\ Len(s) \in Nat
    BY ChainIs
  <2>4. t # <<>>
    BY <2>2, <2>3 DEF Extends
  <2> QED BY <2>2, <2>4 DEF IsChain, Extends, Distinct
<1>11. Outcome(w, d, s, t, cursor, units)
  BY <1>8, <1>9, <1>10 DEF Outcome
<1> QED BY <1>11 DEF WriteChain, w, turn

-----------------------------------------------------------------------------
(* The files beside the one written. *)

Separate(q, s) == \A i \in 1 .. Len(q), j \in 1 .. Len(s) : q[i] # s[j]

LEMMA ChainUsed ==
  ASSUME NEW d, NEW q, IsChain(d, q), NEW i \in 1 .. Len(q)
  PROVE  d.fat[q[i]] # Free
<1>1. Len(q) \in Nat /\ \A j \in 1 .. Len(q) : q[j] \in Clusters
  BY ChainIs
<1>2. \A c \in Clusters : c # Free
  BY Sizes DEF Clusters
<1>3. CASE i = Len(q)
  BY <1>3, Sizes DEF IsChain
<1>4. CASE i # Len(q)
  <2>1. i \in 1 .. Len(q) - 1 /\ i + 1 \in 1 .. Len(q)
    BY <1>1, <1>4
  <2> QED BY <1>1, <1>2, <2>1 DEF IsChain
<1> QED BY <1>3, <1>4

(* A chain that had no cluster in common with the file written has none with *)
(* it afterwards, is the chain it was and holds what it held.                *)
OtherKept(d, e, t, q) ==
  Separate(q, t) /\ IsChain(e, q) /\ \A i \in 1 .. Len(q) : e.data[q[i]] = d.data[q[i]]

LEMMA OthersKept ==
  ASSUME NEW d, NEW e, NEW s, Len(s) \in Nat, NEW t, Extends(d, e, s, t),
         NEW q, IsChain(d, q), Separate(q, s)
  PROVE  OtherKept(d, e, t, q)
<1>1. /\ Len(q) \in Nat /\ Len(q) >= 1 /\ Len(t) \in Nat /\ Len(s) <= Len(t)
      /\ \A i \in 1 .. Len(q) : q[i] \in Clusters /\ q[i] \in 0 .. Entries - 1
  BY ChainIs DEF Extends, Distinct
<1>2. Separate(q, t)
  <2>1. SUFFICES ASSUME NEW i \in 1 .. Len(q), NEW j \in 1 .. Len(t), q[i] = t[j] PROVE FALSE
    BY DEF Separate
  <2>2. CASE j \in 1 .. Len(s)
    BY <2>1, <2>2 DEF Extends, Separate
  <2>3. CASE j \notin 1 .. Len(s)
    <3>1. j \in Len(s) + 1 .. Len(t)
      BY <1>1, <2>3
    <3>2. d.fat[q[i]] = Free
      BY <2>1, <3>1 DEF Extends
    <3> QED BY <3>2, ChainUsed
  <2> QED BY <2>2, <2>3
<1>3. \A i \in 1 .. Len(q) : ~Among(q[i], t)
  BY <1>2 DEF Separate, Among
<1>4. \A i \in 1 .. Len(q) : e.fat[q[i]] = d.fat[q[i]] /\ e.data[q[i]] = d.data[q[i]]
  BY <1>1, <1>3 DEF Extends
<1>5. IsChain(e, q)
  <2>1. \A i \in 1 .. Len(q) - 1 : i \in 1 .. Len(q)
    BY <1>1
  <2>2. Len(q) \in 1 .. Len(q)
    BY <1>1
  <2> QED BY <1>4, <2>1, <2>2 DEF IsChain
<1> QED BY <1>2, <1>4, <1>5 DEF OtherKept

LEMMA UnwipedKept ==
  ASSUME NEW d, Unwiped(d), NEW e, NEW s, NEW t, Extends(d, e, s, t)
  PROVE  Unwiped(e)
<1>1. SUFFICES ASSUME NEW c \in Wiped(1) \cup Wiped(2) PROVE e.fat[c] = Free
  BY DEF Unwiped
<1>2. c \in 0 .. Entries - 1
  BY DEF Wiped
<1>3. ~Among(c, t)
  BY DEF Extends, Among
<1> QED BY <1>2, <1>3 DEF Extends, Unwiped

(* No write to a file reaches another one, whether it ends well or the disk  *)
(* runs full: two files that have no cluster in common have none in common   *)
(* after fat_fwrite's loop, and the other file's chain and its units are     *)
(* what they were.                                                           *)
THEOREM WritesNoOtherFile ==
  ASSUME NEW d, Disk(d), NEW s, IsChain(d, s), Unwiped(d),
         NEW U, NEW units \in Seq(U), NEW cursor \in Nat, HasRoom(d, s, cursor, units),
         NEW q, IsChain(d, q), Separate(q, s)
  PROVE  LET w == WriteChain(d, s[1], cursor, units)
         IN  \E t : /\ Outcome(w, d, s, t, cursor, units)
                    /\ OtherKept(d, w.disk, t, q) /\ Unwiped(w.disk)
<1> DEFINE w == WriteChain(d, s[1], cursor, units)
<1>1. PICK t : Outcome(w, d, s, t, cursor, units)
  BY WritesTheFile
<1> HIDE DEF w
<1>2. Extends(d, w.disk, s, t) /\ Len(s) \in Nat
  BY <1>1, ChainIs DEF Outcome, Finished, OutOfRoom
<1>3. OtherKept(d, w.disk, t, q) /\ Unwiped(w.disk)
  BY <1>2, OthersKept, UnwipedKept
<1> QED BY <1>1, <1>3 DEF w

(* The units of a file, one by one. *)
LEMMA PlaceOf ==
  ASSUME NEW m \in Nat, NEW p \in Nat, p >= 1, p <= m * PerCluster
  PROVE  \E i \in 1 .. m, u \in 1 .. PerCluster : Place(i, u) = p
<1> DEFINE P == PerCluster
           q == (p - 1) \div P
           r == (p - 1) % P
<1>1. P \in Nat /\ P >= 1 /\ p - 1 \in Nat
  BY Sizes
<1>2. q \in Nat /\ r \in 0 .. P - 1 /\ p - 1 = q * P + r
  BY <1>1, Divided
<1> HIDE DEF q, r
<1>3. (q + 1) * P = q * P + P /\ q * P \in Nat
  BY <1>2, Products
<1>4. Place(q + 1, r + 1) = p
  <2>1. PICK y \in Nat : y = q * P
    BY <1>3
  <2> QED BY <1>1, <1>2, <1>3, <2>1 DEF Place
<1>5. q + 1 <= m
  <2>1. SUFFICES ASSUME q >= m PROVE FALSE
    BY <1>2
  <2>2. m * P <= q * P /\ m * P \in Nat
    BY <1>2, <2>1, Products
  <2>3. PICK y \in Nat, z \in Nat : y = q * P /\ z = m * P
    BY <1>3, <2>2
  <2> QED BY <1>1, <1>2, <2>2, <2>3
<1>6. q + 1 \in 1 .. m /\ r + 1 \in 1 .. P
  BY <1>1, <1>2, <1>5
<1> QED BY <1>4, <1>6

LEMMA StretchAt ==
  ASSUME NEW e, NEW t, NEW at, NEW x, Stretch(e, t, at, x),
         NEW i \in 1 .. Len(t), NEW u \in 1 .. PerCluster, Place(i, u) \in at + 1 .. at + Len(x)
  PROVE  x[Place(i, u) - at] = e.data[t[i]][u]
BY DEF Stretch

LEMMA SameStretch ==
  ASSUME NEW e, NEW t, Len(t) \in Nat, NEW at \in Nat,
         NEW A, NEW x \in Seq(A), Stretch(e, t, at, x),
         NEW B, NEW y \in Seq(B), Stretch(e, t, at, y), Len(x) = Len(y),
         at + Len(x) <= Len(t) * PerCluster
  PROVE  x = y
<1>1. ASSUME NEW k \in 1 .. Len(x) PROVE x[k] = y[k]
  <2>1. at + k \in Nat /\ at + k >= 1 /\ at + k <= Len(t) * PerCluster /\ Len(x) \in Nat /\ k \in Nat
    <3>1. PICK z \in Nat : z = Len(t) * PerCluster
      BY Products
    <3> QED BY <3>1
  <2>2. PICK i \in 1 .. Len(t), u \in 1 .. PerCluster : Place(i, u) = at + k
    BY <2>1, PlaceOf
  <2>4. at + k \in at + 1 .. at + Len(x) /\ at + k - at = k
    BY <2>1
  <2>5. x[k] = e.data[t[i]][u]
    <3>1. x[at + k - at] = e.data[t[i]][u]
      <4>1. Place(i, u) \in at + 1 .. at + Len(x) /\ Place(i, u) \in at + 1 .. at + Len(y)
        BY <2>2, <2>4
      <4>2. x[Place(i, u) - at] = e.data[t[i]][u]
        BY <4>1, StretchAt
      <4> QED BY <2>2, <4>2
    <3> QED BY <2>4, <3>1
  <2>6. y[k] = e.data[t[i]][u]
    <3>1. y[at + k - at] = e.data[t[i]][u]
      <4>1. Place(i, u) \in at + 1 .. at + Len(x) /\ Place(i, u) \in at + 1 .. at + Len(y)
        BY <2>2, <2>4
      <4>2. y[Place(i, u) - at] = e.data[t[i]][u]
        BY <4>1, StretchAt
      <4> QED BY <2>2, <4>2
    <3> QED BY <2>4, <3>1
  <2> QED BY <2>5, <2>6
<1>2. Len(x) \in Nat /\ DOMAIN x = 1 .. Len(x) /\ DOMAIN y = 1 .. Len(y)
  OBVIOUS
<1>3. x = [k \in 1 .. Len(x) |-> x[k]] /\ y = [k \in 1 .. Len(y) |-> y[k]]
  OBVIOUS
<1> QED BY <1>1, <1>3

LEMMA OverlaidStretch ==
  ASSUME NEW d, NEW e, NEW s, NEW t, Len(t) \in Nat, NEW cursor \in Nat, NEW U, NEW units \in Seq(U),
         Overlaid(d, e, s, t, cursor, units, Len(units))
  PROVE  Stretch(e, t, cursor, units)
<1>1. SUFFICES ASSUME NEW i \in 1 .. Len(t), NEW u \in 1 .. PerCluster,
                      Place(i, u) \in cursor + 1 .. cursor + Len(units)
               PROVE  units[Place(i, u) - cursor] = e.data[t[i]][u]
  BY DEF Stretch
<1>2. PICK p \in Int : p = Place(i, u)
  <2>1. i * PerCluster \in Nat /\ PerCluster \in Nat
    BY Products, Sizes
  <2> QED BY <2>1 DEF Place
<1>3. Place(i, u) - cursor \in 1 .. Len(units)
  BY <1>1, <1>2
<1> QED BY <1>3 DEF Overlaid

-----------------------------------------------------------------------------
(* fat_fwrite: the units, then the entry in the directory. *)

(* A write that needs no new cluster goes well and leaves the chain as it is. *)
LEMMA WritesInPlace ==
  ASSUME NEW d, Disk(d), NEW s, IsChain(d, s), Unwiped(d),
         NEW U, NEW units \in Seq(U), NEW cursor \in Nat,
         cursor + Len(units) <= Len(s) * PerCluster
  PROVE  Finished(WriteChain(d, s[1], cursor, units), d, s, s, cursor, units)
<1> DEFINE w == WriteChain(d, s[1], cursor, units)
           P == PerCluster
<1>1. PICK t : Outcome(w, d, s, t, cursor, units)
  <2>1. HasRoom(d, s, cursor, units)
    BY DEF HasRoom
  <2> QED BY <2>1, WritesTheFile
<1> HIDE DEF w
<1>2. Extends(d, w.disk, s, t)
  BY <1>1 DEF Outcome, Finished, OutOfRoom
<1>3. /\ Len(s) \in Nat /\ Len(t) \in Nat /\ Len(s) <= Len(t) /\ s \in Seq(Clusters) /\ t \in Seq(Clusters)
      /\ \A i \in 1 .. Len(s) : t[i] = s[i]
  <2>1. s \in Seq(Clusters)
    BY DEF IsChain
  <2>2. t \in Seq(Clusters) /\ Len(s) <= Len(t) /\ \A i \in 1 .. Len(s) : t[i] = s[i]
    BY <1>2 DEF Extends, Distinct
  <2> QED BY <2>1, <2>2
<1>4. PICK y \in Nat, z \in Nat : y = Len(s) * P /\ z = Len(t) * P /\ y <= z
  BY <1>3, Products
<1>5. Len(units) \in Nat /\ cursor + Len(units) <= y /\ P \in Nat
  BY <1>4, Sizes
<1>6. Finished(w, d, s, t, cursor, units)
  <2>1. ~OutOfRoom(w, d, s, t, cursor, units)
    BY <1>4, <1>5 DEF OutOfRoom
  <2> QED BY <1>1, <2>1 DEF Outcome
<1>7. Len(t) = Len(s)
  <2>1. ASSUME Len(t) > Len(s) PROVE FALSE
    <3>1. cursor + Len(units) > z - P
      BY <1>3, <1>4, <1>6, <2>1 DEF Finished, Tight
    <3>2. (Len(s) + 1) * P = Len(s) * P + P /\ (Len(s) + 1) * P <= Len(t) * P
      BY <1>3, <2>1, Products
    <3>3. y + P <= z
      BY <1>4, <3>2
    <3> QED BY <1>4, <1>5, <3>1, <3>3
  <2> QED BY <1>3, <2>1
<1>8. t = s
  <2>1. t = [i \in 1 .. Len(t) |-> t[i]] /\ s = [i \in 1 .. Len(s) |-> s[i]]
    BY <1>3
  <2> QED BY <1>3, <1>7, <2>1
<1> QED BY <1>6, <1>8 DEF w

LEMMA FinishedChain ==
  ASSUME NEW d, NEW s, IsChain(d, s), NEW w, NEW t, NEW cursor, NEW units,
         Finished(w, d, s, t, cursor, units)
  PROVE  IsChain(w.disk, t) /\ t[1] = s[1]
<1>1. Extends(d, w.disk, s, t) /\ w.disk.fat[t[Len(t)]] = End
  BY DEF Finished
<1>2. Len(s) >= 1 /\ Len(s) \in Nat
  BY ChainIs
<1>3. t # <<>> /\ 1 \in 1 .. Len(s)
  BY <1>1, <1>2 DEF Extends
<1> QED BY <1>1, <1>3 DEF IsChain, Extends, Distinct

(* fat_update_entry puts the file's entry at its place in the directory with *)
(* the clusters p, and changes nothing else there or elsewhere.              *)
Updated(e, g, p, pos, entry) ==
  /\ Disk(g) /\ Unwiped(g) /\ IsChain(g, p) /\ Extends(e, g, p, p)
  /\ Overlaid(e, g, p, p, pos, <<entry>>, 1)

LEMMA UpdateIs ==
  ASSUME NEW e, Disk(e), Unwiped(e), NEW p, IsChain(e, p), NEW f, f.parent = p[1],
         f.pos \in Nat, f.pos < Len(p) * PerCluster
  PROVE  Updated(e, UpdateEntry(e, f), p, f.pos, f.entry)
<1> DEFINE c == ClusterCount(e, p[1])
           h == c.disk
           units == <<f.entry>>
           U == {f.entry}
           w == WriteChain(h, p[1], f.pos, units)
<1>1. Same(e, h)
  BY WalksTheChain
<1>2. p[1] >= Root /\ ~(p[1] < Root)
  <2>1. Len(p) \in Nat /\ Len(p) >= 1 /\ \A i \in 1 .. Len(p) : p[i] \in Nat /\ p[i] >= 2
    BY ChainIs
  <2>2. p[1] \in Nat /\ p[1] >= 2
    BY <2>1
  <2> QED BY <2>2, Sizes
<1>3. UpdateEntry(e, f) = w.disk
  BY <1>2 DEF UpdateEntry
<1> HIDE DEF h
<1>4. Disk(h) /\ IsChain(h, p) /\ Unwiped(h)
  BY <1>1, SameChain DEF Same, Unwiped
<1>5. units \in Seq(U) /\ Len(units) = 1
  OBVIOUS
<1>6. f.pos + Len(units) <= Len(p) * PerCluster
  <2>1. PICK y \in Nat : y = Len(p) * PerCluster
    BY ChainIs, Products
  <2> QED BY <1>5, <2>1
<1> HIDE DEF units, U
<1>7. Finished(w, h, p, p, f.pos, units)
  BY <1>4, <1>5, <1>6, WritesInPlace
<1> HIDE DEF w
<1>8. IsChain(w.disk, p)
  BY <1>4, <1>7, FinishedChain
<1>9. Disk(w.disk) /\ Extends(h, w.disk, p, p) /\ Overlaid(h, w.disk, p, p, f.pos, units, 1)
  BY <1>5, <1>7 DEF Finished
<1>10. h.fat = e.fat /\ h.data = e.data
  BY <1>1 DEF Same
<1>11. Extends(e, w.disk, p, p)
  BY <1>9, <1>10 DEF Extends
<1>12. Overlaid(e, w.disk, p, p, f.pos, units, 1)
  BY <1>9, <1>10 DEF Overlaid, OldUnit
<1>13. Unwiped(w.disk)
  BY <1>11, UnwipedKept
<1> QED BY <1>3, <1>8, <1>9, <1>11, <1>12, <1>13 DEF Updated, units

(* The size of the file follows the write, and still ends in its last cluster. *)
LEMMA FillsOn ==
  ASSUME NEW s, Len(s) \in Nat, NEW size, Fills(s, size), NEW t, Len(t) \in Nat, Len(s) <= Len(t),
         NEW cursor \in Nat, NEW n \in Nat, Tight(s, t, cursor, n),
         cursor + n <= Len(t) * PerCluster
  PROVE  Fills(t, IF cursor + n > size THEN cursor + n ELSE size)
<1>1. PICK y \in Nat, z \in Nat : y = Len(s) * PerCluster /\ z = Len(t) * PerCluster /\ y <= z
  BY Products
<1>2. PerCluster \in Nat /\ size \in Nat /\ y - PerCluster <= size /\ size <= y /\ cursor + n <= z
  BY <1>1, Sizes DEF Fills
<1>3. (Len(t) = Len(s) /\ z = y) \/ cursor + n > z - PerCluster
  BY <1>1 DEF Tight
<1> QED BY <1>1, <1>2, <1>3 DEF Fills

(* A file as the driver holds it, as fat_fwrite leaves it. *)
IsHandle(f) ==
  /\ f = [entry |-> f.entry, pos |-> f.pos, parent |-> f.parent, long |-> f.long, cursor |-> f.cursor]
  /\ f.entry = [t |-> f.entry.t, name |-> f.entry.name, isDir |-> f.entry.isDir,
                first |-> f.entry.first, size |-> f.entry.size, gone |-> f.entry.gone]
NewSize(f, n) == IF f.cursor + n > f.entry.size THEN f.cursor + n ELSE f.entry.size
NewEntry(f, n) == [t |-> f.entry.t, name |-> f.entry.name, isDir |-> f.entry.isDir,
                   first |-> f.entry.first, size |-> NewSize(f, n), gone |-> f.entry.gone]
NewFile(f, n) == [entry |-> NewEntry(f, n), pos |-> f.pos, parent |-> f.parent, long |-> f.long,
                  cursor |-> f.cursor + n]

Returned(r, w, f) ==
  /\ w.ok = FALSE => r.disk = w.disk /\ r.file = f /\ r.ok = FALSE
  /\ w.ok = TRUE => /\ r.file = NewFile(f, w.done) /\ r.ok = TRUE
                    /\ r.disk = IF f.cursor + w.done > f.entry.size
                                THEN UpdateEntry(w.disk, NewFile(f, w.done)) ELSE w.disk

LEMMA FWriteIs ==
  ASSUME NEW d, NEW f, IsHandle(f), f.cursor \in Nat, f.entry.size \in Nat, NEW units,
         NEW w, w = WriteChain(d, f.entry.first, f.cursor, units), w.done \in Nat,
         w.ok = TRUE \/ w.ok = FALSE
  PROVE  Returned(FWrite(d, f, units), w, f)
<1> DEFINE r == FWrite(d, f, units)
           n == w.done
           f1 == [f EXCEPT !.cursor = @ + n]
           f2 == [f1 EXCEPT !.entry.size = f1.cursor]
<1>1. r = Written(w, f)
  BY DEF FWrite
<1>2. CASE w.ok = FALSE
  <2>1. r = [disk |-> w.disk, file |-> f, ok |-> FALSE]
    BY <1>1, <1>2 DEF Written
  <2> QED BY <1>2, <2>1 DEF Returned
<1>3. CASE w.ok = TRUE
  <2>1. r = Moved(w.disk, f1, f.entry.size)
    BY <1>1, <1>3 DEF Written
  <2>2. PICK e1, e2, e3, e4, e5, e6 :
          f.entry = [t |-> e1, name |-> e2, isDir |-> e3, first |-> e4, size |-> e5, gone |-> e6]
    BY DEF IsHandle
  <2>3. PICK e, a, b, c, k : f = [entry |-> e, pos |-> a, parent |-> b, long |-> c, cursor |-> k]
    BY DEF IsHandle
  <2>4. f.entry = e /\ f.pos = a /\ f.parent = b /\ f.long = c /\ f.cursor = k
    BY <2>3
  <2>5. f1 = [entry |-> e, pos |-> a, parent |-> b, long |-> c, cursor |-> k + n]
    BY <2>3, <2>4
  <2>6. f1.cursor = k + n
    BY <2>5
  <2>7. CASE k + n > f.entry.size
    <3>1. r = Grown(w.disk, f2)
      BY <2>1, <2>6, <2>7 DEF Moved
    <3>2. f2 = [entry |-> [e EXCEPT !.size = k + n], pos |-> a, parent |-> b, long |-> c, cursor |-> k + n]
      <4> HIDE DEF f1
      <4> QED BY <2>5, <2>6
    <3>3. [e EXCEPT !.size = k + n] = NewEntry(f, n)
      <4>1. e = [t |-> e1, name |-> e2, isDir |-> e3, first |-> e4, size |-> e5, gone |-> e6]
        BY <2>2, <2>4
      <4>2. [e EXCEPT !.size = k + n]
              = [t |-> e1, name |-> e2, isDir |-> e3, first |-> e4, size |-> k + n, gone |-> e6]
        BY <4>1
      <4>3. NewSize(f, n) = k + n
        BY <2>4, <2>7 DEF NewSize
      <4>4. e.t = e1 /\ e.name = e2 /\ e.isDir = e3 /\ e.first = e4 /\ e.gone = e6
        BY <4>1
      <4> QED BY <2>4, <4>2, <4>3, <4>4 DEF NewEntry
    <3>4. f2 = NewFile(f, n)
      <4> HIDE DEF f2
      <4> QED BY <2>4, <3>2, <3>3 DEF NewFile
    <3> HIDE DEF f2, r
    <3>5. r = [disk |-> UpdateEntry(w.disk, f2), file |-> f2, ok |-> TRUE]
      BY <3>1 DEF Grown
    <3>6. f.cursor + w.done > f.entry.size
      BY <2>4, <2>7
    <3>7. /\ r.file = NewFile(f, w.done) /\ r.ok = TRUE
          /\ r.disk = UpdateEntry(w.disk, NewFile(f, w.done))
      BY <3>4, <3>5
    <3> QED BY <1>3, <3>6, <3>7 DEF r, Returned
  <2>8. CASE ~(k + n > f.entry.size)
    <3>1. r = [disk |-> w.disk, file |-> f1, ok |-> TRUE]
      BY <2>1, <2>6, <2>8 DEF Moved
    <3>2. e = NewEntry(f, n)
      <4>1. e = [t |-> e1, name |-> e2, isDir |-> e3, first |-> e4, size |-> e5, gone |-> e6]
        BY <2>2, <2>4
      <4>2. NewSize(f, n) = f.entry.size
        BY <2>4, <2>8 DEF NewSize
      <4>3. e.t = e1 /\ e.name = e2 /\ e.isDir = e3 /\ e.first = e4 /\ e.gone = e6 /\ e.size = e5
        BY <4>1
      <4> QED BY <2>4, <4>1, <4>2, <4>3 DEF NewEntry
    <3>3. f1 = NewFile(f, n)
      <4> HIDE DEF f1
      <4> QED BY <2>4, <2>5, <3>2 DEF NewFile
    <3> HIDE DEF f1, r
    <3>4. ~(f.cursor + w.done > f.entry.size)
      BY <2>4, <2>8
    <3>5. r.file = NewFile(f, w.done) /\ r.ok = TRUE /\ r.disk = w.disk
      BY <3>1, <3>3
    <3> QED BY <1>3, <3>4, <3>5 DEF r, Returned
  <2> QED BY <2>7, <2>8
<1> QED BY <1>2, <1>3

(* An open file: its chain, its size, its entry at its place in the          *)
(* directory with the clusters p, which shares no cluster with it.           *)
OpenFile(d, f, s, p) ==
  /\ IsHandle(f) /\ f.cursor \in Nat /\ f.pos \in Nat
  /\ IsChain(d, s) /\ f.entry.first = s[1] /\ Fills(s, f.entry.size)
  /\ IsChain(d, p) /\ f.parent = p[1] /\ f.pos < Len(p) * PerCluster
  /\ Separate(s, p) /\ Stretch(d, p, f.pos, <<f.entry>>)

LEMMA SeparateIs ==
  ASSUME NEW q, NEW s, Separate(q, s)
  PROVE  Separate(s, q)
BY DEF Separate

LEMMA KeptTwice ==
  ASSUME NEW d, NEW e, NEW g, NEW s, Len(s) \in Nat, NEW t, NEW p, Len(p) \in Nat,
         Extends(d, e, s, t), Extends(e, g, p, p),
         NEW q, IsChain(d, q), Separate(q, s), Separate(q, p)
  PROVE  OtherKept(d, g, t, q)
<1>1. OtherKept(d, e, t, q)
  BY OthersKept
<1>2. IsChain(e, q)
  BY <1>1 DEF OtherKept
<1>3. OtherKept(e, g, p, q)
  BY <1>2, OthersKept
<1> QED BY <1>1, <1>3 DEF OtherKept

(* What fat_fwrite of the units has done when it says so: the file is open   *)
(* as before with its cursor behind the units and its size grown to it, its  *)
(* entry in the directory is again the driver's copy of it, and its units    *)
(* are the ones written, elsewhere what they were.  Other files are as they  *)
(* were.                                                                     *)
WrittenThrough(r, d, f, s, t, p, units) ==
  /\ Disk(r.disk) /\ Unwiped(r.disk)
  /\ r.file = NewFile(f, Len(units)) /\ OpenFile(r.disk, r.file, t, p)
  /\ Overlaid(d, r.disk, s, t, f.cursor, units, Len(units))
  /\ \A q : IsChain(d, q) /\ Separate(q, s) /\ Separate(q, p) => OtherKept(d, r.disk, t, q)

(* What it has done when it says that the disk is full: the entry and the    *)
(* driver's copy of it are as before, and so is every other file.            *)
CutShort(r, d, f, s, t, p) ==
  /\ Disk(r.disk) /\ Unwiped(r.disk) /\ r.file = f
  /\ Extends(d, r.disk, s, t) /\ Stretch(r.disk, p, f.pos, <<f.entry>>)
  /\ \A q : IsChain(d, q) /\ Separate(q, s) => OtherKept(d, r.disk, t, q)

LEMMA KeptStretch ==
  ASSUME NEW d, NEW e, NEW q, NEW t, OtherKept(d, e, t, q), NEW at, NEW out, Stretch(d, q, at, out)
  PROVE  Stretch(e, q, at, out)
BY DEF OtherKept, Stretch

LEMMA KeptOverlay ==
  ASSUME NEW d, NEW e, NEW g, NEW s, NEW t, NEW p, OtherKept(e, g, p, t), NEW cursor, NEW units, NEW n,
         Overlaid(d, e, s, t, cursor, units, n)
  PROVE  Overlaid(d, g, s, t, cursor, units, n)
BY DEF OtherKept, Overlaid

LEMMA NewFileIs ==
  ASSUME NEW f, NEW n
  PROVE  LET g == NewFile(f, n)
         IN  /\ IsHandle(g) /\ g.cursor = f.cursor + n /\ g.pos = f.pos /\ g.parent = f.parent
             /\ g.entry = NewEntry(f, n) /\ g.entry.first = f.entry.first
             /\ g.entry.size = NewSize(f, n)
<1> DEFINE g == NewFile(f, n)
<1>1. /\ g.entry = NewEntry(f, n) /\ g.pos = f.pos /\ g.parent = f.parent /\ g.long = f.long
      /\ g.cursor = f.cursor + n
  BY DEF NewFile
<1>2. g = [entry |-> g.entry, pos |-> g.pos, parent |-> g.parent, long |-> g.long, cursor |-> g.cursor]
  BY <1>1 DEF NewFile
<1> DEFINE e == NewEntry(f, n)
<1>3. /\ e.first = f.entry.first /\ e.size = NewSize(f, n)
      /\ e = [t |-> e.t, name |-> e.name, isDir |-> e.isDir, first |-> e.first,
              size |-> e.size, gone |-> e.gone]
  BY DEF NewEntry
<1> HIDE DEF g, e
<1>4. IsHandle(g)
  BY <1>1, <1>2, <1>3 DEF IsHandle, e
<1> QED BY <1>1, <1>3, <1>4 DEF g, e

(* fat_fwrite through an open file writes the units and nothing else, and    *)
(* leaves the file's entry in the directory in step with the driver's copy.  *)
THEOREM FWriteWritesThrough ==
  ASSUME NEW d, Disk(d), Unwiped(d), NEW f, NEW s, NEW p, OpenFile(d, f, s, p),
         NEW U, NEW units \in Seq(U), HasRoom(d, s, f.cursor, units)
  PROVE  LET r == FWrite(d, f, units)
         IN  \E t : \/ r.ok = TRUE /\ WrittenThrough(r, d, f, s, t, p, units)
                    \/ r.ok = FALSE /\ CutShort(r, d, f, s, t, p)
<1> DEFINE r == FWrite(d, f, units)
           n == Len(units)
           w == WriteChain(d, s[1], f.cursor, units)
           cursor == f.cursor
           size == f.entry.size
           g == NewFile(f, n)
<1>1. /\ IsHandle(f) /\ cursor \in Nat /\ f.pos \in Nat /\ IsChain(d, s) /\ f.entry.first = s[1]
      /\ Fills(s, size) /\ size \in Nat /\ IsChain(d, p) /\ f.parent = p[1]
      /\ f.pos < Len(p) * PerCluster /\ Separate(s, p) /\ Stretch(d, p, f.pos, <<f.entry>>)
      /\ n \in Nat
  BY DEF OpenFile, Fills
<1>2. Len(s) \in Nat /\ Len(p) \in Nat /\ Separate(p, s)
  BY <1>1, ChainIs, SeparateIs
<1>3. PICK t : Outcome(w, d, s, t, cursor, units)
  BY <1>1, WritesTheFile
<1>4. w = WriteChain(d, f.entry.first, f.cursor, units)
  BY <1>1
<1> HIDE DEF w
<1>5. /\ Extends(d, w.disk, s, t) /\ Disk(w.disk) /\ w.done \in Nat
      /\ Overlaid(d, w.disk, s, t, cursor, units, w.done)
      /\ (w.ok = FALSE \/ (w.ok = TRUE /\ Finished(w, d, s, t, cursor, units)))
  BY <1>1, <1>3 DEF Outcome, Finished, OutOfRoom
<1>6. Unwiped(w.disk) /\ OtherKept(d, w.disk, t, p)
  BY <1>1, <1>2, <1>5, UnwipedKept, OthersKept
<1>7. /\ w.ok = FALSE => r.disk = w.disk /\ r.file = f /\ r.ok = FALSE
      /\ w.ok = TRUE => /\ r.file = NewFile(f, w.done) /\ r.ok = TRUE
                        /\ r.disk = IF f.cursor + w.done > f.entry.size
                                    THEN UpdateEntry(w.disk, NewFile(f, w.done)) ELSE w.disk
  <2>1. w.ok = TRUE \/ w.ok = FALSE
    BY <1>5
  <2>2. Returned(r, w, f)
    BY <1>1, <1>4, <1>5, <2>1, FWriteIs
  <2> HIDE DEF r
  <2> QED BY <2>2 DEF Returned
<1> HIDE DEF r
<1>8. CASE w.ok = FALSE
  <2>1. Stretch(w.disk, p, f.pos, <<f.entry>>)
    BY <1>1, <1>6, KeptStretch
  <2>2. \A q : IsChain(d, q) /\ Separate(q, s) => OtherKept(d, w.disk, t, q)
    BY <1>2, <1>5, OthersKept
  <2>3. CutShort(r, d, f, s, t, p)
    BY <1>5, <1>6, <1>7, <1>8, <2>1, <2>2 DEF CutShort
  <2> QED BY <1>7, <1>8, <2>3 DEF r
<1>9. CASE w.ok = TRUE
  <2>1. Finished(w, d, s, t, cursor, units) /\ w.done = n
    BY <1>5, <1>9 DEF Finished
  <2>2. IsChain(w.disk, t) /\ t[1] = s[1]
    BY <1>1, <2>1, FinishedChain
  <2>3. Separate(p, t) /\ IsChain(w.disk, p)
    BY <1>6 DEF OtherKept
  <2>4. Fills(t, NewSize(f, n))
    <3>1. Tight(s, t, cursor, n) /\ cursor + n <= Len(t) * PerCluster
      BY <2>1 DEF Finished
    <3>2. Len(t) \in Nat /\ Len(s) <= Len(t)
      BY <1>5 DEF Extends, Distinct
    <3> QED BY <1>1, <1>2, <3>1, <3>2, FillsOn DEF NewSize
  <2>5. /\ IsHandle(g) /\ g.cursor = cursor + n /\ g.pos = f.pos /\ g.parent = f.parent
        /\ g.entry = NewEntry(f, n) /\ g.entry.first = f.entry.first /\ g.entry.size = NewSize(f, n)
    BY NewFileIs
  <2> HIDE DEF g
  <2>6. r.file = g /\ r.ok = TRUE
    BY <1>7, <1>9, <2>1 DEF g
  <2>7. ASSUME Disk(r.disk), Unwiped(r.disk), IsChain(r.disk, t), IsChain(r.disk, p),
               Stretch(r.disk, p, f.pos, <<g.entry>>),
               Overlaid(d, r.disk, s, t, cursor, units, n),
               \A q : IsChain(d, q) /\ Separate(q, s) /\ Separate(q, p) => OtherKept(d, r.disk, t, q)
        PROVE  WrittenThrough(r, d, f, s, t, p, units)
    <3>1. Separate(t, p)
      BY <2>3, SeparateIs
    <3>2. OpenFile(r.disk, g, t, p)
      BY <1>1, <2>2, <2>4, <2>5, <2>7, <3>1 DEF OpenFile
    <3> QED BY <2>6, <2>7, <3>2 DEF WrittenThrough, g
  <2>8. CASE cursor + n > size
    <3> DEFINE h == UpdateEntry(w.disk, g)
    <3>1. r.disk = h
      BY <1>7, <1>9, <2>1, <2>8 DEF g
    <3>2. Updated(w.disk, h, p, f.pos, g.entry)
      BY <1>1, <1>5, <1>6, <2>3, <2>5, UpdateIs
    <3> HIDE DEF h
    <3>3. /\ Disk(h) /\ Unwiped(h) /\ IsChain(h, p) /\ Extends(w.disk, h, p, p)
          /\ Overlaid(w.disk, h, p, p, f.pos, <<g.entry>>, 1)
      BY <3>2 DEF Updated
    <3>4. Stretch(h, p, f.pos, <<g.entry>>)
      <4> DEFINE v == <<g.entry>>
                 V == {g.entry}
      <4>1. v \in Seq(V) /\ Len(v) = 1
        OBVIOUS
      <4> HIDE DEF v, V
      <4>2. Overlaid(w.disk, h, p, p, f.pos, v, Len(v))
        BY <3>3, <4>1 DEF v
      <4>3. Stretch(h, p, f.pos, v)
        BY <1>1, <1>2, <4>1, <4>2, OverlaidStretch
      <4> QED BY <4>3 DEF v
    <3>5. OtherKept(w.disk, h, p, t)
      BY <1>2, <2>2, <2>3, <3>3, OthersKept, SeparateIs
    <3>6. IsChain(h, t) /\ Overlaid(d, h, s, t, cursor, units, n)
      BY <1>5, <2>1, <3>5, KeptOverlay DEF OtherKept
    <3>7. \A q : IsChain(d, q) /\ Separate(q, s) /\ Separate(q, p) => OtherKept(d, h, t, q)
      BY <1>2, <1>5, <3>3, KeptTwice
    <3> QED BY <2>6, <2>7, <3>1, <3>3, <3>4, <3>6, <3>7 DEF r
  <2>9. CASE ~(cursor + n > size)
    <3>1. r.disk = w.disk
      BY <1>7, <1>9, <2>1, <2>9
    <3>2. g.entry = f.entry
      <4>1. NewSize(f, n) = f.entry.size
        BY <2>9 DEF NewSize
      <4> QED BY <1>1, <2>5, <4>1 DEF NewEntry, IsHandle
    <3>3. Stretch(w.disk, p, f.pos, <<g.entry>>)
      BY <1>1, <1>6, <3>2, KeptStretch
    <3>4. \A q : IsChain(d, q) /\ Separate(q, s) => OtherKept(d, w.disk, t, q)
      BY <1>2, <1>5, OthersKept
    <3> QED BY <1>5, <1>6, <2>1, <2>2, <2>3, <2>6, <2>7, <3>1, <3>3, <3>4 DEF r
  <2> QED BY <2>8, <2>9
<1> QED BY <1>5, <1>8, <1>9

(* What fat_fwrite has written, fat_fread returns from the same place. *)
THEOREM ReadsBackTheWrite ==
  ASSUME NEW d, Disk(d), Unwiped(d), NEW f, NEW s, NEW p, OpenFile(d, f, s, p),
         NEW U, NEW units \in Seq(U), HasRoom(d, s, f.cursor, units),
         NEW r, r = FWrite(d, f, units), r.ok = TRUE
  PROVE  FRead(r.disk, [r.file EXCEPT !.cursor = f.cursor], Len(units)).out = units
<1> DEFINE n == Len(units)
           cursor == f.cursor
           g == [r.file EXCEPT !.cursor = cursor]
           out == FRead(r.disk, g, n).out
<1>1. PICK t : WrittenThrough(r, d, f, s, t, p, units)
  <2>1. \E t : \/ r.ok = TRUE /\ WrittenThrough(r, d, f, s, t, p, units)
               \/ r.ok = FALSE /\ CutShort(r, d, f, s, t, p)
    BY FWriteWritesThrough
  <2> QED BY <2>1
<1>2. /\ Disk(r.disk) /\ r.file = NewFile(f, n) /\ OpenFile(r.disk, r.file, t, p)
      /\ Overlaid(d, r.disk, s, t, cursor, units, n)
  BY <1>1 DEF WrittenThrough
<1>3. n \in Nat /\ cursor \in Nat /\ f.entry.size \in Nat
  BY DEF OpenFile, Fills
<1>4. g.cursor = cursor /\ g.entry = r.file.entry
  <2>1. PICK e, a, b, c, k : r.file = [entry |-> e, pos |-> a, parent |-> b, long |-> c, cursor |-> k]
    BY <1>2 DEF NewFile
  <2> QED BY <2>1
<1>5. /\ r.file.entry.size = NewSize(f, n) /\ IsChain(r.disk, t) /\ r.file.entry.first = t[1]
      /\ Fills(t, r.file.entry.size)
  <2>1. r.file.entry = NewEntry(f, n)
    BY <1>2 DEF NewFile
  <2>2. NewEntry(f, n).size = NewSize(f, n)
    BY DEF NewEntry
  <2> QED BY <1>2, <2>1, <2>2 DEF OpenFile
<1> HIDE DEF g
<1>6. /\ g.entry.size = NewSize(f, n) /\ g.entry.first = t[1] /\ Fills(t, g.entry.size)
      /\ NewSize(f, n) \in Nat /\ cursor + n <= NewSize(f, n)
  BY <1>3, <1>4, <1>5 DEF NewSize
<1>7. g.cursor \in 0 .. g.entry.size
  BY <1>3, <1>4, <1>6
<1>8. out \in Seq(AllUnits(r.disk)) /\ Len(out) = Lesser(n, g.entry.size - g.cursor)
      /\ Stretch(r.disk, t, g.cursor, out)
  <2> DEFINE e == r.disk
  <2>1. Disk(e) /\ IsChain(e, t)
    BY <1>2, <1>5
  <2> HIDE DEF e, n
  <2>2. LET z == FRead(e, g, n)
        IN  /\ z.out \in Seq(AllUnits(e))
            /\ Len(z.out) = Lesser(n, g.entry.size - g.cursor)
            /\ Stretch(e, t, g.cursor, z.out)
            /\ z.file = [g EXCEPT !.cursor = @ + Len(z.out)]
            /\ Same(e, z.disk)
    BY <1>3, <1>6, <1>7, <2>1, ReadsTheFile
  <2> QED BY <2>2 DEF e
<1> HIDE DEF out
<1>9. Len(out) = n /\ Stretch(r.disk, t, cursor, out)
  BY <1>3, <1>4, <1>6, <1>8 DEF Lesser
<1>10. Len(t) \in Nat
  BY <1>5, ChainIs
<1>11. Stretch(r.disk, t, cursor, units)
  BY <1>2, <1>3, <1>10, OverlaidStretch
<1>12. cursor + n <= Len(t) * PerCluster
  <2>1. PICK y \in Nat : y = Len(t) * PerCluster
    BY <1>10, Products
  <2>2. NewSize(f, n) <= y
    BY <1>6, <2>1 DEF Fills
  <2> QED BY <1>3, <1>6, <2>1, <2>2
<1>13. out = units
  <2> DEFINE A == AllUnits(r.disk)
  <2>1. out \in Seq(A)
    BY <1>8
  <2> HIDE DEF A
  <2> QED BY <1>3, <1>9, <1>10, <1>11, <1>12, <2>1, SameStretch
<1> QED BY <1>13 DEF out, g

-----------------------------------------------------------------------------
(* Removing. *)

(* The removal of the chain s after k clusters. *)
Released(w, k, d, s) ==
  /\ Disk(w.disk) /\ w.disk.data = d.data
  /\ \A c \in 0 .. Entries - 1 :
       w.disk.fat[c] = IF \E i \in 1 .. Len(s) : i <= k /\ c = s[i] THEN Free ELSE d.fat[c]
  /\ IF k < Len(s) THEN w.at = s[k + 1] ELSE w.at \in {End, OtherEnd}

LEMMA ReleasedOn ==
  ASSUME NEW d, Disk(d), NEW s, IsChain(d, s), NEW w, NEW k \in Nat, Released(w, k, d, s)
  PROVE  Released(RemoveOn(w), k + 1, d, s)
<1> DEFINE g == RemoveOn(w)
           e == w.disk
<1>1. /\ Len(s) \in Nat /\ Len(s) >= 1
      /\ \A i \in 1 .. Len(s) : s[i] \in Clusters /\ s[i] \in Nat /\ s[i] >= 2 /\ s[i] \in 0 .. Entries - 1
  BY ChainIs
<1>2. CASE k < Len(s)
  <2> DEFINE c == s[k + 1]
             h == WriteEntry(e, c, Free)
  <2>1. k + 1 \in 1 .. Len(s) /\ w.at = c /\ c \in Clusters /\ c \in 0 .. Entries - 1 /\ ~(c < Root)
    <3>1. k + 1 \in 1 .. Len(s)
      BY <1>1, <1>2
    <3>2. w.at = c
      BY <1>2 DEF Released
    <3>3. c \in Clusters /\ c \in Nat /\ c >= 2 /\ c \in 0 .. Entries - 1
      BY <1>1, <3>1
    <3> HIDE DEF c
    <3>4. ~(c < Root)
      BY <3>3, Sizes
    <3> QED BY <3>1, <3>2, <3>3, <3>4
  <2>2. e.fat[c] = d.fat[c]
    <3>1. ~(\E i \in 1 .. Len(s) : i <= k /\ c = s[i])
      <4>1. SUFFICES ASSUME NEW i \in 1 .. Len(s), i <= k, c = s[i] PROVE FALSE
        OBVIOUS
      <4>2. i = k + 1
        BY <2>1, <4>1 DEF IsChain
      <4> QED BY <4>1, <4>2
    <3> QED BY <2>1, <3>1 DEF Released
  <2>3. e.fat[c] # Free
    BY <2>1, <2>2, ChainUsed
  <2>4. g = [disk |-> h, at |-> e.fat[c]]
    BY <2>1, <2>3 DEF RemoveOn
  <2>5. /\ Disk(h) /\ h.data = e.data
        /\ h.fat[c] = Free /\ \A i \in 0 .. Entries - 1 : i # c => h.fat[i] = e.fat[i]
    <3> DEFINE y == e
    <3>1. Disk(y) /\ Free \in Int
      BY Sizes DEF Released
    <3> HIDE DEF y, c
    <3>2. c \in Clusters
      BY <2>1
    <3>3. LET z == WriteEntry(y, c, Free)
          IN  /\ Disk(z) /\ z.data = y.data /\ z.cache = y.cache
              /\ z.fat[c] = Free /\ \A i \in 0 .. Entries - 1 : i # c => z.fat[i] = y.fat[i]
      BY <3>1, <3>2, WriteEntryIs
    <3> QED BY <3>3 DEF y
  <2> HIDE DEF h
  <2>6. \A x \in 0 .. Entries - 1 :
          h.fat[x] = IF \E i \in 1 .. Len(s) : i <= k + 1 /\ x = s[i] THEN Free ELSE d.fat[x]
    <3>1. TAKE x \in 0 .. Entries - 1
    <3>2. CASE x = c
      <4>1. \E i \in 1 .. Len(s) : i <= k + 1 /\ x = s[i]
        BY <2>1, <3>2
      <4> QED BY <2>5, <3>2, <4>1
    <3>3. CASE x # c
      <4>1. (\E i \in 1 .. Len(s) : i <= k + 1 /\ x = s[i]) <=> (\E i \in 1 .. Len(s) : i <= k /\ x = s[i])
        BY <3>3
      <4>2. e.fat[x] = IF \E i \in 1 .. Len(s) : i <= k /\ x = s[i] THEN Free ELSE d.fat[x]
        BY DEF Released
      <4> QED BY <2>5, <3>3, <4>1, <4>2
    <3> QED BY <3>2, <3>3
  <2>7. IF k + 1 < Len(s) THEN e.fat[c] = s[k + 1 + 1] ELSE e.fat[c] \in {End, OtherEnd}
    <3>1. CASE k + 1 < Len(s)
      <4>1. k + 1 \in 1 .. Len(s) - 1
        BY <1>1, <3>1
      <4> QED BY <2>2, <3>1, <4>1 DEF IsChain
    <3>2. CASE ~(k + 1 < Len(s))
      <4>1. k + 1 = Len(s)
        BY <1>1, <1>2, <3>2
      <4> QED BY <2>2, <3>2, <4>1 DEF IsChain
    <3> QED BY <3>1, <3>2
  <2> HIDE DEF g
  <2>8. g.disk = h /\ g.at = e.fat[c]
    BY <2>4
  <2>9. Released(g, k + 1, d, s)
    <3>1. h.data = d.data
      BY <2>5 DEF Released
    <3> HIDE DEF c, e
    <3> QED BY <2>5, <2>6, <2>7, <2>8, <3>1 DEF Released
  <2> QED BY <2>9 DEF g
<1>3. CASE ~(k < Len(s))
  <2>1. w.at \in {End, OtherEnd}
    BY <1>3 DEF Released
  <2>2. w.at < Root
    BY <2>1, Sizes
  <2>3. g = w
    BY <2>2 DEF RemoveOn
  <2>4. ~(k + 1 < Len(s))
    BY <1>1, <1>3
  <2>5. \A x : (\E i \in 1 .. Len(s) : i <= k + 1 /\ x = s[i]) <=> (\E i \in 1 .. Len(s) : i <= k /\ x = s[i])
    BY <1>1, <1>3
  <2> HIDE DEF g
  <2>6. Released(g, k + 1, d, s)
    BY <1>3, <2>1, <2>3, <2>4, <2>5 DEF Released
  <2> QED BY <2>6 DEF g
<1> QED BY <1>2, <1>3

(* fat_remove_fat_chain frees the clusters of the chain, all of them and no  *)
(* other: the files that share none with it are what they were.              *)
THEOREM RemovesTheChain ==
  ASSUME NEW d, Disk(d), NEW s, IsChain(d, s)
  PROVE  LET e == RemoveChain(d, s[1])
         IN  /\ Disk(e) /\ e.data = d.data
             /\ \A c \in 0 .. Entries - 1 : e.fat[c] = IF Among(c, s) THEN Free ELSE d.fat[c]
             /\ \A q : IsChain(d, q) /\ Separate(q, s) => IsChain(e, q)
<1> DEFINE turn == Removal(d, s[1])
           a == [disk |-> d, at |-> s[1]]
           n == Entries
           E == {k \in 0 .. n : Released(turn[k], k, d, s)}
<1>1. \A k \in 0 .. n : turn[k] = IF k = 0 THEN a ELSE RemoveOn(turn[k - 1])
  BY RemovalTurn
<1>2. n \in Nat /\ 0 \in 0 .. n /\ n \in 0 .. n /\ Len(s) \in Nat /\ Len(s) >= 1 /\ Len(s) < n
  BY Sizes, ChainIs
<1> HIDE DEF turn
<1>3. 0 \in E
  <2>1. a.disk = d /\ a.at = s[1]
    OBVIOUS
  <2> HIDE DEF a
  <2>2. \A x : ~(\E i \in 1 .. Len(s) : i <= 0 /\ x = s[i])
    BY <1>2
  <2>3. Released(a, 0, d, s)
    BY <1>2, <2>1, <2>2 DEF Released
  <2> QED BY <1>1, <1>2, <2>3
<1>4. ASSUME NEW k \in 1 .. n, k - 1 \in E PROVE k \in E
  <2>1. k \in 0 .. n /\ k # 0 /\ k - 1 \in Nat /\ k - 1 + 1 = k
    BY <1>2
  <2>2. Released(RemoveOn(turn[k - 1]), k - 1 + 1, d, s)
    BY <1>4, <2>1, ReleasedOn
  <2> QED BY <1>1, <2>1, <2>2
<1>5. \A k \in 0 .. n : k \in E
  <2> HIDE DEF E, n
  <2> QED BY <1>2, <1>3, <1>4, Turns
<1> DEFINE e == turn[n].disk
<1>6. Released(turn[n], n, d, s)
  BY <1>2, <1>5
<1>7. /\ Disk(e) /\ e.data = d.data
      /\ \A c \in 0 .. Entries - 1 : e.fat[c] = IF Among(c, s) THEN Free ELSE d.fat[c]
  <2>1. \A x : (\E i \in 1 .. Len(s) : i <= n /\ x = s[i]) <=> Among(x, s)
    BY <1>2 DEF Among
  <2> QED BY <1>6, <2>1 DEF Released
<1> HIDE DEF e
<1>8. ASSUME NEW q, IsChain(d, q), Separate(q, s) PROVE IsChain(e, q)
  <2>1. /\ Len(q) \in Nat /\ Len(q) >= 1 /\ \A i \in 1 .. Len(q) : q[i] \in 0 .. Entries - 1
    BY <1>8, ChainIs
  <2>2. \A i \in 1 .. Len(q) : ~Among(q[i], s)
    BY <1>8 DEF Separate, Among
  <2>3. \A i \in 1 .. Len(q) : e.fat[q[i]] = d.fat[q[i]]
    BY <1>7, <2>1, <2>2
  <2>4. Len(q) \in 1 .. Len(q) /\ \A i \in 1 .. Len(q) - 1 : i \in 1 .. Len(q)
    BY <2>1
  <2> QED BY <1>8, <2>3, <2>4 DEF IsChain
<1> QED BY <1>7, <1>8 DEF e, turn, RemoveChain
=============================================================================
